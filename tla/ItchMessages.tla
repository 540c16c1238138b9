---------------------------- MODULE ItchMessages ----------------------------
(***************************************************************************)
(* The ITCH wire messages, market_data/itch/msg: which packets             *)
(* MessageFactory::ParseMessage turns into which message object, and which *)
(* handler of the session such an object goes to.                          *)
(*                                                                         *)
(* A packet is a record                                                    *)
(*   type     its first character                                          *)
(*   body     the number of characters between that one and the terminator *)
(*   numeric  every numeric field converts, the white space at its end cut *)
(*   pairs    the currency pairs it declares, each with the number of      *)
(*            orders of each of its bid and offer levels                   *)
(*   inner    the packet inside a sequenced data message                   *)
(* The text of a field is left out: what matters is whether the fields     *)
(* that a Load method reads are all there.                                 *)
(***************************************************************************)
EXTENDS Integers, Sequences, SequencesExt

NoPacket  == [type |-> "none", body |-> 0, numeric |-> TRUE, pairs |-> <<>>]

(* A message object. `loaded` is FALSE for one of class                    *)
(* ServerUnsupportedMessage, whatever its type character is; `inner` is    *)
(* the payload object, `eos` is m_bEndOfSession.                           *)
NoPayload == [type |-> "none", loaded |-> FALSE]
NoMessage == [type |-> "none", loaded |-> FALSE, inner |-> NoPayload, eos |-> FALSE]

(* A run of fields: the characters they take, and whether there is a       *)
(* number among them.                                                      *)
Str(w) == [width |-> w, numbers |-> FALSE]
Num(w) == [width |-> w, numbers |-> TRUE]
f ++ g == LET a == f  b == g
          IN  [width |-> a.width + b.width, numbers |-> a.numbers \/ b.numbers]

ForEach(s, fields(_)) ==
    LET upTo[i \in 0 .. Len(s)] == IF i = 0 THEN Str(0) ELSE upTo[i - 1] ++ fields(s[i])
    IN  upTo[Len(s)]

---------------------------------------------------------------------------
(* The fields each Load method reads.                                      *)

OrderFields == Num(16) ++ Num(16) ++ Num(16) ++ Str(15)

BidOrOfferFields(orders) ==
    Str(10) ++ Num(4) ++ ForEach([i \in 1 .. orders |-> i], LAMBDA i : OrderFields)

CurrencyPairFields(c) ==
    Str(7) ++ Num(4) ++ ForEach(c.bids, BidOrOfferFields)
        ++ Num(4) ++ ForEach(c.offers, BidOrOfferFields)

MarketSnapshotFields(pairs) == Num(6) ++ Num(4) ++ ForEach(pairs, CurrencyPairFields)

NewOrderFields    == Str(1) ++ Str(7) ++ Str(15) ++ Str(10) ++ Num(16) ++ Num(16) ++ Num(16)
ModifyOrderFields == Str(7) ++ Str(15) ++ Num(16) ++ Num(16) ++ Num(16)
CancelOrderFields == Str(7) ++ Str(15)
TickerFields      == Str(1) ++ Str(7) ++ Str(10) ++ Str(8) ++ Str(6)

InstrumentDirectoryFields(pairs) == Num(4) ++ ForEach(pairs, LAMBDA c : Str(7))
LoginAcceptedFields     == Num(10)
LoginRejectedFields     == Str(20)
ErrorNotificationFields == Str(100)

ServerTypes    == {"A", "J", "E", "R", "H", "S"}
HotspotFxTypes == {"N", "M", "X", "T", "S"}

ServerFields(p) ==
    CASE p.type = "A" -> LoginAcceptedFields
      [] p.type = "J" -> LoginRejectedFields
      [] p.type = "E" -> ErrorNotificationFields
      [] p.type = "R" -> InstrumentDirectoryFields(p.pairs)
      [] p.type = "H" -> Str(0)

HotspotFxFields(p) ==
    CASE p.type = "N" -> NewOrderFields
      [] p.type = "M" -> ModifyOrderFields
      [] p.type = "X" -> CancelOrderFields
      [] p.type = "T" -> TickerFields
      [] p.type = "S" -> MarketSnapshotFields(p.pairs)

---------------------------------------------------------------------------
(* PacketBase's reads from a packet of `size` characters behind the type:  *)
(* every field must lie inside the packet. The terminator counts: a field  *)
(* may end in it, and a number still converts, as ReadString trims it.     *)
Load(p, size, fields) ==
    /\ fields.width <= size
    /\ fields.numbers => p.numeric

(* ServerUnsupportedMessage takes what lies before the last character, if  *)
(* that is anything.                                                       *)
Unsupported(p, size) ==
    [type |-> IF size > 1 THEN p.type ELSE "none", loaded |-> FALSE]

(* A payload has no terminator of its own.                                 *)
ParsePayload(q) ==
    IF q.type \in HotspotFxTypes /\ Load(q, q.body, HotspotFxFields(q))
    THEN [type |-> q.type, loaded |-> TRUE]
    ELSE Unsupported(q, q.body)

(* ServerSequencedDataMessage::Load: an empty body ends the session;       *)
(* otherwise a timestamp of 9 characters and a payload of at least one.    *)
LoadSequenced(p) ==
    LET inner == ParsePayload(p.inner)
    IN  IF p.body = 0
        THEN [NoMessage EXCEPT !.loaded = TRUE, !.eos = TRUE]
        ELSE [NoMessage EXCEPT !.loaded = p.body >= 10 /\ inner # NoPayload,
                               !.inner = inner]

(* What cannot be loaded, or has an unknown type, is kept as an            *)
(* unsupported message with the type character it came with.               *)
ParseMessage(p) ==
    LET known == /\ p.type \in ServerTypes \ {"S"}
                 /\ Load(p, p.body + 1, ServerFields(p))
        m == IF p.type = "S" THEN LoadSequenced(p) ELSE [NoMessage EXCEPT !.loaded = known]
    IN  IF m.loaded THEN [m EXCEPT !.type = p.type]
        ELSE [NoMessage EXCEPT !.type = Unsupported(p, p.body + 1).type]

---------------------------------------------------------------------------
(* The requests' Save: a string longer than its field is refused.          *)
WriteString(length, width) == length <= width
SaveCurrencyPair(name) == WriteString(name, 7)
SaveLogin(user, password) == WriteString(user, 40) /\ WriteString(password, 40)

---------------------------------------------------------------------------
(* DispatcherWorker's switch: the handler for a message's type character.  *)
(* An object of class ServerUnsupportedMessage is cast to the class its    *)
(* type character names; for "S" the code then follows the payload pointer *)
(* of an object that has none ("undefined").                               *)
Handler(m) ==
    CASE m.type = "A" -> "OnLoginAccepted"
      [] m.type = "J" -> "OnLoginRejected"
      [] m.type = "E" -> "OnErrorNotification"
      [] m.type = "R" -> "OnInstrumentDirectory"
      [] m.type = "S" /\ m.eos -> "OnSessionEnd"
      [] m.type = "S" /\ ~m.loaded -> "undefined"
      [] m.type = "S" /\ m.inner.type = "N" -> "OnNewOrder"
      [] m.type = "S" /\ m.inner.type = "M" -> "OnModifyOrder"
      [] m.type = "S" /\ m.inner.type = "X" -> "OnCancelOrder"
      [] m.type = "S" /\ m.inner.type = "S" -> "OnMarketSnapshot"
      [] m.type = "S" /\ m.inner.type = "T" -> "OnTicker"
      [] OTHER -> "none"
=============================================================================
