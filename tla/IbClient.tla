------------------------------ MODULE IbClient ------------------------------
(***************************************************************************)
(* The Interactive Brokers market data collector: main and                 *)
(* PosixTestClient (collect-ib-native_api) on top of the client library    *)
(* (EPosixClientSocket, EClientSocketBase).  One thread connects to Trader *)
(* Workstation (TWS), waits for the acknowledgement, asks for the time and *)
(* for one contract's ticks, and then reads until the connection ends.     *)
(*                                                                         *)
(* The stream from TWS is a sequence of fields.  A read returns any number *)
(* of whole fields and possibly the first part of one more, whose NUL has  *)
(* not come: `half` says that this part is in the buffer.                  *)
(*                                                                         *)
(* A loop iteration of checkMessages is one step; `ptr` is the number of   *)
(* fields it has passed.                                                   *)
(***************************************************************************)
EXTENDS IbMessages, SequencesExt

CONSTANTS Scripts,       \* for each version of TWS, what it may send in one connection
          MaxRead,       \* fields one recv returns at most (its buffer has 8192 bytes)
          MAX_ATTEMPTS

ASSUME BoundsAssumption == MAX_ATTEMPTS \in Nat \ {0} /\ MaxRead \in Nat \ {0}

\* TWS sends whole messages, each with the fields its id, its version and
\* the server's version call for.
ASSUME ScriptsAssumption ==
    \A version \in DOMAIN Scripts :
       /\ version \in Int
       /\ \A script \in Scripts[version] :
             /\ script \in Seq(Seq(Int))
             /\ \A i \in DOMAIN script :
                   script[i] # <<>> /\ Len(script[i]) = MsgSize(script[i], version)

VARIABLES pc,         \* where main is
          attempt,    \* main's counter
          bRes,       \* what the last eConnect returned
          c,          \* the client library's state
          ptr,        \* Idle outside checkMessages
          calls,      \* the calls made on the EWrapper in this attempt
          bbo,        \* contractPriceMap[1]
          published,  \* what was sent on m_pubSock in this attempt
          tws

vars == <<pc, attempt, bRes, c, ptr, calls, bbo, published, tws>>

Idle == -1
NO_VALID_ID == -1
CONNECTIVITY_LOST == 1100
TickerId == 1

Prices == {TickType[n] : n \in {"BID", "ASK", "LAST"}}
Sizes  == {TickType[n] : n \in {"BID_SIZE", "ASK_SIZE", "LAST_SIZE"}}
Quotes == Prices \cup Sizes
NoBBO == [q \in {} |-> 0]
Uninitialized == -2       \* what a field of the struct holds before its first tick

\* The fields of the broadcast; those of the last trade are commented out.
PublishedQuotes == {TickType[n] : n \in {"BID", "BID_SIZE", "ASK", "ASK_SIZE"}}

NewClient == [fd |-> FALSE, connected |-> FALSE, serverVersion |-> 0,
              in |-> <<>>, half |-> FALSE, out |-> <<>>]

Init ==
    /\ pc = "connect" /\ attempt = 0 /\ bRes = FALSE
    /\ c = NewClient /\ ptr = Idle
    /\ calls = <<>> /\ bbo = NoBBO /\ published = <<>>
    /\ \E version \in DOMAIN Scripts, up \in BOOLEAN : \E script \in Scripts[version] :
          tws = [up |-> up, version |-> version, conn |-> "none", got |-> <<>>,
                 wire |-> <<>>, script |-> script, sent |-> 0, read |-> 0]

---------------------------------------------------------------------------
(* Trader Workstation and the network.  conn is "open", "closed" after TWS *)
(* shut the connection down in order, "reset" when it is broken; `sent`      *)
(* counts the acknowledgement and the messages of the script that were     *)
(* sent, `read` the whole fields the client has read.                      *)

TwsAcks ==
    /\ tws.conn = "open" /\ tws.got = <<"CLIENT_VERSION">> /\ tws.sent = 0
    /\ tws' = [tws EXCEPT !.wire = <<tws.version, 1>>, !.sent = 1]

(* Ticks follow a subscription, the rest the client id.                    *)
IsTick(m) == m[1] \in {MsgId.TICK_PRICE, MsgId.TICK_SIZE}

TwsSends ==
    /\ tws.conn = "open" /\ Len(tws.got) >= 2 /\ tws.sent \in 1 .. Len(tws.script)
    /\ LET m == tws.script[tws.sent]
       IN  /\ IsTick(m) => Len(tws.got) = 4
           /\ tws' = [tws EXCEPT !.wire = @ \o m, !.sent = @ + 1]

TwsCloses ==
    /\ tws.conn = "open"
    /\ tws' = [tws EXCEPT !.conn = "closed", !.up = FALSE]

(* What is under way still arrives or is lost; a part of it that arrives   *)
(* is what the client read before.                                         *)
TwsResets ==
    /\ tws.conn \in {"open", "closed"}
    /\ \E rest \in {tws.wire, <<>>} :
          tws' = [tws EXCEPT !.conn = "reset", !.wire = rest]

TwsStarts == /\ ~tws.up /\ tws.conn = "none"
             /\ tws' = [tws EXCEPT !.up = TRUE]

Tws == /\ TwsAcks \/ TwsSends \/ TwsCloses \/ TwsResets \/ TwsStarts
       /\ UNCHANGED <<pc, attempt, bRes, c, ptr, calls, bbo, published>>

HungUp(t) == [t EXCEPT !.conn = "none", !.got = <<>>, !.wire = <<>>, !.sent = 0, !.read = 0]
Gets(t, requests) == IF t.conn = "open" THEN [t EXCEPT !.got = @ \o requests] ELSE t

---------------------------------------------------------------------------
(* eDisconnect, with eDisconnectBase.                                      *)
Disconnected == NewClient

(* A send to a broken connection, or on a closed descriptor, goes to       *)
(* handleSocketError, which disconnects and so empties the buffer; the     *)
(* request is put there afterwards unless something was waiting before it. *)
BufferedSend(client, t, request) ==
    IF client.fd /\ t.conn # "reset"
    THEN [c |-> [client EXCEPT !.out = <<>>], tws |-> Gets(t, Append(client.out, request))]
    ELSE [c |-> [Disconnected EXCEPT !.out = IF client.out = <<>> THEN <<request>> ELSE <<>>],
          tws |-> HungUp(t)]

(* eConnect up to the wait for the acknowledgement.                        *)
EConnect ==
    /\ pc = "connect"
    /\ attempt' = attempt + 1
    /\ calls' = <<>> /\ bbo' = NoBBO /\ published' = <<>>
    /\ tws.up
    /\ LET open == [HungUp(tws) EXCEPT !.conn = "open"]
           s == BufferedSend([NewClient EXCEPT !.fd = TRUE], open, "CLIENT_VERSION")
       IN  c' = s.c /\ tws' = s.tws
    /\ pc' = "ack"
    /\ UNCHANGED <<bRes, ptr>>

(* No socket, or nobody listens: a socket that did not connect is kept.    *)
EConnectFails ==
    /\ pc = "connect"
    /\ attempt' = attempt + 1
    /\ calls' = <<>> /\ bbo' = NoBBO /\ published' = <<>>
    /\ \/ c' = NewClient
       \/ ~tws.up /\ c' = [NewClient EXCEPT !.fd = TRUE]
    /\ bRes' = FALSE /\ pc' = "wait"
    /\ UNCHANGED <<ptr, tws>>

EConnectReturns ==
    /\ pc = "ack" /\ ptr = Idle
    /\ c.connected \/ ~c.fd
    /\ bRes' = TRUE /\ pc' = "wait"
    /\ UNCHANGED <<attempt, c, ptr, calls, bbo, published, tws>>

---------------------------------------------------------------------------
(* checkMessages, called by eConnect until the acknowledgement is in and   *)
(* by main's loop from then on.                                            *)

Checking == /\ ptr = Idle
            /\ \/ pc = "ack" /\ ~c.connected
               \/ pc = "loop" /\ c.connected

(* bufferedRead with something to read: n whole fields, perhaps another    *)
(* one's first part.                                                       *)
Read ==
    /\ Checking /\ c.fd
    /\ \E n \in 0 .. MaxRead, half \in BOOLEAN :
          /\ n <= Len(tws.wire)
          /\ n > 0 \/ (half /\ ~c.half)
          /\ half => n < Len(tws.wire)
          /\ c' = [c EXCEPT !.in = @ \o SubSeq(tws.wire, 1, n), !.half = half]
          /\ tws' = [tws EXCEPT !.wire = SubSeq(@, n + 1, Len(@)), !.read = @ + n]
    /\ ptr' = 0
    /\ UNCHANGED <<pc, attempt, bRes, calls, bbo, published>>

(* Mutant: an error is taken for the end of the stream.                    *)
ReadsNothingNoError ==
    /\ Checking /\ c.fd
    /\ tws.wire = <<>> /\ tws.conn \in {"closed", "reset"}
    /\ IF pc = "ack" THEN bRes' = FALSE /\ pc' = "wait" ELSE UNCHANGED <<bRes, pc>>
    /\ UNCHANGED <<attempt, c, ptr, calls, bbo, published, tws>>

(* bufferedRead without: checkMessages returns false.  The end of the      *)
(* stream changes nothing; an error disconnects.                           *)
ReadsNothing ==
    /\ Checking /\ c.fd
    /\ tws.wire = <<>> /\ tws.conn \in {"closed", "reset"}
    /\ IF tws.conn = "reset" THEN c' = Disconnected /\ tws' = HungUp(tws)
                             ELSE UNCHANGED <<c, tws>>
    /\ IF pc = "ack" THEN bRes' = FALSE /\ pc' = "wait" ELSE UNCHANGED <<bRes, pc>>
    /\ UNCHANGED <<attempt, ptr, calls, bbo, published>>

\* The whole fields of the buffer behind ptr.
Rest == SubSeq(c.in, ptr + 1, Len(c.in))

AckComplete(f) == f # <<>> /\ (f[1] >= 20 => Len(f) >= 2)

(* processConnectAck: TWS that is too old is left, one that is not gets    *)
(* the client id, and m_connected is set whatever became of that.          *)
ProcessConnectAck ==
    /\ ptr # Idle /\ c.in # <<>> /\ ~c.connected /\ AckComplete(Rest)
    /\ IF Rest[1] < MIN_SERVER_VER.SUPPORTED
       THEN /\ c' = Disconnected /\ tws' = HungUp(tws)
            /\ ptr' = ptr
       ELSE /\ LET s == BufferedSend([c EXCEPT !.serverVersion = Rest[1]], tws, "CLIENT_ID")
               IN  c' = [s.c EXCEPT !.connected = TRUE] /\ tws' = s.tws
            /\ ptr' = ptr + 2
    /\ UNCHANGED <<pc, attempt, bRes, calls, bbo, published>>

(* Mutant: the size of the offer goes to the bid.                          *)
HandleTickSwapped(b, call) ==
    IF call.tick = TickType.ASK_SIZE THEN [b EXCEPT ![TickType.BID_SIZE] = call.value]
    ELSE IF call.tick \in Quotes THEN [b EXCEPT ![call.tick] = call.value] ELSE b

(* handleTickPrice sets a price that is kept, handleTickSize a size.       *)
HandleTick(b, call) ==
    IF call.tick \in (IF call.name = "tickPrice" THEN Prices ELSE Sizes)
    THEN [b EXCEPT ![call.tick] = call.value] ELSE b

(* A tick of a contract in the map.                                        *)
Known(call) == call.name \in {"tickPrice", "tickSize"} /\ call.id = TickerId /\ bbo # NoBBO

(* The quotes after each of the calls.                                     *)
AfterTicks(cs) ==
    LET upTo[i \in 0 .. Len(cs)] ==
          IF i = 0 THEN bbo
          ELSE IF Known(cs[i]) THEN HandleTick(upTo[i - 1], cs[i]) ELSE upTo[i - 1]
    IN  upTo

ZmqPublishTick(b) == [q \in PublishedQuotes |-> b[q]]

(* Each call that is known broadcasts the quotes, whatever it set. (Those  *)
(* of one message are of one contract, so all are known or none is.)       *)
Broadcasts(cs) ==
    IF \E i \in DOMAIN cs : Known(cs[i])
    THEN [i \in DOMAIN cs |-> ZmqPublishTick(AfterTicks(cs)[i])] ELSE <<>>

Complete(f, serverVersion) == f # <<>> /\ MsgSize(f, serverVersion) <= Len(f)

EndsConnection(cs) ==
    \E i \in DOMAIN cs :
        \/ cs[i].name = "unknown"
        \/ cs[i].name = "error" /\ cs[i].id = NO_VALID_ID /\ cs[i].tick = CONNECTIVITY_LOST

ProcessMsg ==
    /\ ptr # Idle /\ c.in # <<>> /\ c.connected /\ Complete(Rest, c.serverVersion)
    /\ LET cs == Calls(Rest)
       IN  /\ calls' = calls \o cs
           /\ bbo' = AfterTicks(cs)[Len(cs)]
           /\ published' = published \o Broadcasts(cs)
           /\ IF EndsConnection(cs) THEN c' = Disconnected /\ tws' = HungUp(tws)
                                    ELSE UNCHANGED <<c, tws>>
    /\ ptr' = ptr + MsgSize(Rest, c.serverVersion)
    /\ UNCHANGED <<pc, attempt, bRes>>

(* Mutant: what was not processed goes too.                                *)
CleanupBufferAll(buffer, processed) == <<>>

CleanupBuffer(buffer, processed) == SubSeq(buffer, processed + 1, Len(buffer))

(* Mutant: what lies behind the first message waits for the next read.     *)
LoopEndsAfterOne == ptr > 0 \/ c.in = <<>> \/ ~AckComplete(Rest)

(* The loop ends when the buffer is used up or holds no whole message; of  *)
(* an acknowledgement that is not whole the version is kept.               *)
LoopEnds ==
    IF c.in = <<>> \/ Rest = <<>> THEN TRUE
    ELSE ~IF c.connected THEN Complete(Rest, c.serverVersion) ELSE AckComplete(Rest)

FinishCheck ==
    /\ ptr # Idle /\ LoopEnds
    /\ c' = [c EXCEPT !.in = CleanupBuffer(@, ptr),
                      !.serverVersion = IF ~c.connected /\ c.in # <<>> /\ Rest # <<>>
                                        THEN Rest[1] ELSE @]
    /\ ptr' = Idle
    /\ UNCHANGED <<pc, attempt, bRes, calls, bbo, published, tws>>

---------------------------------------------------------------------------
(* main.  The wait for isConnected() has no end when eConnect failed.      *)
Connected ==
    /\ pc = "wait" /\ c.connected
    /\ pc' = "time"
    /\ UNCHANGED <<attempt, bRes, c, ptr, calls, bbo, published, tws>>

(* A request: refused without a connection.                                *)
Request(r) ==
    LET s == BufferedSend(c, tws, r)
    IN  IF c.connected THEN c' = s.c /\ tws' = s.tws ELSE UNCHANGED <<c, tws>>

ReqCurrentTime ==
    /\ pc = "time" /\ pc' = "subscribe"
    /\ Request("REQ_CURRENT_TIME")
    /\ UNCHANGED <<attempt, bRes, ptr, calls, bbo, published>>

(* The contract of main has neither an id nor an underlying, which leaves  *)
(* reqMktData's version checks nothing to refuse.                          *)
Subscribe ==
    /\ pc = "subscribe" /\ pc' = "loop"
    /\ bbo' = [q \in Quotes |-> Uninitialized]
    /\ Request("REQ_MKT_DATA")
    /\ UNCHANGED <<attempt, bRes, ptr, calls, published>>

LoopOver ==
    /\ pc = "loop" /\ ptr = Idle /\ ~c.connected
    /\ pc' = IF attempt >= MAX_ATTEMPTS THEN "end" ELSE "sleep"
    /\ UNCHANGED <<attempt, bRes, c, ptr, calls, bbo, published, tws>>

(* The next round has a client of its own.                                 *)
NextAttempt ==
    /\ pc = "sleep" /\ pc' = "connect"
    /\ c' = NewClient
    /\ UNCHANGED <<attempt, bRes, ptr, calls, bbo, published, tws>>

Main == \/ EConnect \/ EConnectFails \/ EConnectReturns
        \/ Read \/ ReadsNothing \/ ProcessConnectAck \/ ProcessMsg \/ FinishCheck
        \/ Connected \/ ReqCurrentTime \/ Subscribe \/ LoopOver \/ NextAttempt

Next == Main \/ Tws

(* The process runs; nothing is assumed of TWS.                            *)
Spec == Init /\ [][Next]_vars /\ WF_vars(Main)
---------------------------------------------------------------------------
(* The messages of this connection that the client has read to the end,    *)
(* by TWS's own account of where each one ends.                            *)
EndOf(i) ==
    LET upTo[j \in 0 .. Len(tws.script)] ==
          IF j = 0 THEN 2 ELSE upTo[j - 1] + Len(tws.script[j])
    IN  upTo[i]
WhollyRead == {i \in DOMAIN tws.script : i < tws.sent /\ EndOf(i) <= tws.read}

CallsUpTo(n) == FlattenSeq([i \in 1 .. n |-> Calls(tws.script[i])])
NumberRead == IF WhollyRead = {} THEN 0 ELSE CHOOSE i \in WhollyRead : i + 1 \notin WhollyRead

(* However TWS's stream is cut into reads, and wherever a read ends inside *)
(* a field, when checkMessages returns the EWrapper has been called for    *)
(* exactly the messages that have arrived whole, once each and in order:   *)
(* a message that is not whole has no effect, is tried again with the next *)
(* read, and every size processMsg computes ends where the next message    *)
(* starts.                                                                 *)
DeliveredInOrder == ptr = Idle /\ c.connected => calls = CallsUpTo(NumberRead)

(* What a tick message says of quote q: a price message says a price and   *)
(* the size that goes with it, a size message a size.                      *)
Says(m, q) ==
    /\ IsTick(m) /\ m[3] = TickerId
    /\ \/ /\ m[4] = q
          /\ q \in (IF m[1] = MsgId.TICK_PRICE THEN Prices ELSE Sizes)
       \/ /\ m[1] = MsgId.TICK_PRICE
          /\ <<m[4], q>> \in {<<TickType.BID, TickType.BID_SIZE>>,
                              <<TickType.ASK, TickType.ASK_SIZE>>,
                              <<TickType.LAST, TickType.LAST_SIZE>>}
Said(m, q) == IF m[4] = q THEN m[5] ELSE m[6]

(* The broadcast b after the first n messages: each quote has the value of *)
(* the last of them that says it, or what memory held if none does.        *)
Reflects(b, n) ==
    \A q \in PublishedQuotes :
        \/ b[q] = Uninitialized /\ \A i \in 1 .. n : ~Says(tws.script[i], q)
        \/ \E i \in 1 .. n :
              /\ Says(tws.script[i], q) /\ b[q] = Said(tws.script[i], q)
              /\ \A j \in i + 1 .. n : ~Says(tws.script[j], q)

(* Between two calls of checkMessages the best bid and offer broadcast     *)
(* last is that of the ticks read so far; and there is one if any of them  *)
(* named a quote that is broadcast.                                        *)
PublishedIsCurrent ==
    ptr = Idle /\ c.connected =>
        /\ published # <<>> => Reflects(Last(published), NumberRead)
        /\ (\E q \in PublishedQuotes, i \in 1 .. NumberRead : Says(tws.script[i], q))
              => published # <<>>

(* A price message is broadcast twice, first with the new price and the    *)
(* old size. No other mixture is ever broadcast, and this one is put right *)
(* by the very next broadcast: of any two in a row, one is that of a whole *)
(* number of messages, and a broadcast that nothing follows is.            *)
MixedIsMended ==
    LET whole(b) == \E n \in 0 .. Len(tws.script) : Reflects(b, n)
    IN  \A k \in DOMAIN published :
           whole(published[k]) \/ (k < Len(published) /\ whole(published[k + 1]))

(* As long as the connection holds, every message TWS has sent reaches the *)
(* EWrapper although nothing more is sent behind it.                       *)
EverythingDelivered ==
    LET due == /\ tws.conn = "open" /\ c.connected /\ tws.sent > 1
               /\ Len(calls) < Len(CallsUpTo(tws.sent - 1))
    IN  due ~> ~due

(* A connection that breaks while main reads ends main's loop: it goes to  *)
(* the next attempt, or stops after the last one.                          *)
BrokenIsRetried == (pc = "loop" /\ tws.conn = "reset") ~> pc \in {"connect", "end"}
=============================================================================
