------------------------- MODULE ReplayServerProofs -------------------------
(***************************************************************************)
(* What a client of the replay server gets, for every number of clients,   *)
(* every log and every logout.                                             *)
(***************************************************************************)
EXTENDS ReplayServer, SequenceTheorems, TLAPS

PumpPcs == {"off", "head", "reading", "done"}
DispPcs == {"off", "none", "head", "first", "second", "send1", "send2", "ended", "stopped"}
Codes   == {"not_ready", "ok", "eof"}

TypeInv ==
  /\ known \subseteq Clients
  /\ pump \in [Clients -> [pc : PumpPcs, log : Seq(Kinds), pos : Nat, code : Codes,
                           read : BOOLEAN, consumed : BOOLEAN, stop : BOOLEAN]]
  /\ disp \in [Clients -> [pc : DispPcs, stop : BOOLEAN, text1 : Nat, text2 : Nat]]
  /\ out \in [Clients -> Seq(Nat)]

\* The slot: a line in it has not been taken, and the end of the log is the
\* last thing put there.
SlotInv(c) ==
  LET p == pump[c]
  IN  /\ (p.consumed <=> ~p.read) /\ p.pos <= Len(p.log)
      /\ p.read => p.code # "not_ready"
      /\ p.read /\ p.code = "ok" => p.pos > 0
      /\ p.code = "eof" => p.pos = Len(p.log) /\ p.pc \in {"head", "done"}

\* How many lines the dispatcher has taken from the slot.
Taken(c) == IF pump[c].read /\ pump[c].code = "ok" THEN pump[c].pos - 1 ELSE pump[c].pos

\* How many of them are dealt with; a pair is sent when both have been taken.
Ahead(c) ==
  CASE disp[c].pc = "second" -> 1
    [] disp[c].pc = "send1" -> 2
    [] disp[c].pc = "send2" -> 1
    [] disp[c].pc = "ended" -> Len(pump[c].log) % 2
    [] OTHER -> 0

PairInv(c) ==
  LET d == disp[c]
  IN  /\ d.pc \in {"none", "head", "first", "send1", "send2"} => Taken(c) % 2 = 0
      /\ d.pc = "second" => Taken(c) % 2 = 1 /\ d.text1 = Taken(c)
      /\ d.pc = "send1" => Taken(c) >= 2 /\ d.text1 = Taken(c) - 1 /\ d.text2 = Taken(c)
      /\ d.pc = "send2" => Taken(c) >= 2 /\ d.text2 = Taken(c)
      /\ d.pc = "ended" => Taken(c) = Len(pump[c].log) /\ pump[c].code = "eof" /\ ~pump[c].read
      /\ Replayed(out[c], pump[c].log, Taken(c) - Ahead(c))

\* A client without a dispatcher has been sent nothing since it logged on.
ClientInv(c) ==
  /\ c \notin known => disp[c].pc = "off"
  /\ c \in known /\ disp[c].pc = "off" => out[c] = <<>>
  /\ disp[c].pc # "off" => SlotInv(c) /\ (Clean(pump[c].log) => PairInv(c))

PInv == TypeInv /\ \A c \in Clients : ClientInv(c)

-----------------------------------------------------------------------------
(* The next line of the log *)

LEMMA NothingReplayed ==
  ASSUME NEW log
  PROVE  Replayed(<<>>, log, 0)
BY DEF Replayed

LEMMA ReplayedSkip ==
  ASSUME NEW lines \in Seq(Nat), NEW log, NEW n \in Nat, Replayed(lines, log, n),
         ~Sendable(log[n + 1])
  PROVE  Replayed(lines, log, n + 1)
<1>1. {k \in 1 .. n + 1 : Sendable(log[k])} = {k \in 1 .. n : Sendable(log[k])}
  <2>1. \A k \in 1 .. n + 1 : k \in 1 .. n \/ k = n + 1
    OBVIOUS
  <2>2. \A k \in 1 .. n : k \in 1 .. n + 1
    OBVIOUS
  <2> QED BY <2>1, <2>2
<1> QED BY <1>1 DEF Replayed

LEMMA ReplayedNext ==
  ASSUME NEW lines \in Seq(Nat), NEW log, NEW n \in Nat, Replayed(lines, log, n),
         Sendable(log[n + 1])
  PROVE  Replayed(Append(lines, n + 1), log, n + 1)
<1>1. PICK a \in Nat : a = Len(lines) /\ DOMAIN lines = 1 .. a
  BY LenProperties
<1>2. PICK t : t = Append(lines, n + 1)
  OBVIOUS
<1>3. /\ DOMAIN t = 1 .. a + 1 /\ t[a + 1] = n + 1
      /\ \A i \in 1 .. a : t[i] = lines[i]
  <2>1. /\ t \in Seq(Nat) /\ Len(t) = a + 1 /\ t[a + 1] = n + 1
        /\ \A i \in 1 .. a : t[i] = lines[i]
    BY <1>1, <1>2, AppendProperties
  <2> QED BY <2>1, LenProperties
<1>4. {lines[i] : i \in 1 .. a} = {k \in 1 .. n : Sendable(log[k])}
  BY <1>1 DEF Replayed
<1>5. \A i \in 1 .. a : lines[i] \in 1 .. n
  BY <1>4
<1>6. \A i, j \in 1 .. a + 1 : i < j => t[i] < t[j]
  <2> SUFFICES ASSUME NEW i \in 1 .. a + 1, NEW j \in 1 .. a + 1, i < j PROVE t[i] < t[j]
    OBVIOUS
  <2>1. i \in 1 .. a
    OBVIOUS
  <2>2. CASE j = a + 1
    <3>1. lines[i] \in Nat /\ lines[i] <= n
      BY <1>5, <2>1
    <3> QED BY <1>3, <2>1, <2>2, <3>1
  <2>3. CASE j # a + 1
    <3>1. j \in 1 .. a
      BY <2>3
    <3>2. lines[i] < lines[j]
      BY <1>1, <2>1, <3>1 DEF Replayed
    <3> QED BY <1>3, <2>1, <3>1, <3>2
  <2> QED BY <2>2, <2>3
<1>7. {t[i] : i \in 1 .. a + 1} = {k \in 1 .. n + 1 : Sendable(log[k])}
  <2>1. \A i \in 1 .. a + 1 : i \in 1 .. a \/ i = a + 1
    OBVIOUS
  <2>2. \A i \in 1 .. a : i \in 1 .. a + 1
    OBVIOUS
  <2>3. a + 1 \in 1 .. a + 1
    OBVIOUS
  <2>4. {t[i] : i \in 1 .. a + 1} = {lines[i] : i \in 1 .. a} \cup {n + 1}
    BY <1>3, <2>1, <2>2, <2>3
  <2>5. \A k \in 1 .. n + 1 : k \in 1 .. n \/ k = n + 1
    OBVIOUS
  <2>6. n + 1 \in 1 .. n + 1 /\ \A k \in 1 .. n : k \in 1 .. n + 1
    OBVIOUS
  <2> QED BY <1>4, <2>4, <2>5, <2>6
<1> QED BY <1>2, <1>3, <1>6, <1>7 DEF Replayed

-----------------------------------------------------------------------------
(* The invariant holds *)

LEMMA InitInv == Init => PInv
<1> SUFFICES ASSUME Init PROVE PInv
  OBVIOUS
<1>1. <<>> \in Seq(Kinds) /\ <<>> \in Seq(Nat)
  BY EmptySeq
<1>2. TypeInv
  BY <1>1 DEF Init, TypeInv, NoPump, NoDisp, PumpPcs, DispPcs, Codes
<1>3. \A c \in Clients : ClientInv(c)
  BY DEF Init, ClientInv, NoDisp
<1> QED BY <1>2, <1>3 DEF PInv

\* A client whose threads and session do not move.
LEMMA Frame ==
  ASSUME NEW d, ClientInv(d), pump'[d] = pump[d], disp'[d] = disp[d], out'[d] = out[d],
         d \in known' <=> d \in known
  PROVE  ClientInv(d)'
BY DEF ClientInv, SlotInv, PairInv, Taken, Ahead

\* What a record of a thread is after one of its fields is set.
LEMMA Records ==
  ASSUME TypeInv, NEW c \in Clients
  PROVE  /\ pump[c] \in [pc : PumpPcs, log : Seq(Kinds), pos : Nat, code : Codes,
                         read : BOOLEAN, consumed : BOOLEAN, stop : BOOLEAN]
         /\ disp[c] \in [pc : DispPcs, stop : BOOLEAN, text1 : Nat, text2 : Nat]
         /\ out[c] \in Seq(Nat) /\ Len(pump[c].log) \in Nat
<1>1. pump[c] \in [pc : PumpPcs, log : Seq(Kinds), pos : Nat, code : Codes,
                   read : BOOLEAN, consumed : BOOLEAN, stop : BOOLEAN]
  BY DEF TypeInv
<1>2. Len(pump[c].log) \in Nat
  BY <1>1, LenProperties
<1> QED BY <1>1, <1>2 DEF TypeInv

LEMMA OnLogonInv ==
  ASSUME PInv, NEW c \in Clients, OnLogon(c)
  PROVE  PInv'
<1> USE DEF OnLogon, PInv
<1>1. TypeInv'
  BY EmptySeq DEF TypeInv
<1>2. ClientInv(c)'
  <2>1. disp[c].pc = "off" /\ out'[c] = <<>> /\ c \in known' /\ disp' = disp /\ pump' = pump
    BY DEF ClientInv, TypeInv
  <2> QED BY <2>1 DEF ClientInv
<1>3. \A d \in Clients : d # c => ClientInv(d)'
  BY Frame DEF TypeInv
<1> QED BY <1>1, <1>2, <1>3

LEMMA MarketDataRequestInv ==
  ASSUME PInv, NEW c \in Clients, NEW log \in Logs, MarketDataRequest(c, log)
  PROVE  PInv'
<1> USE DEF PInv
<1>0. log \in Seq(Kinds) /\ Len(log) \in Nat
  BY ReplayAssumption, LenProperties
<1>1. PICK pc \in {"head", "none"} : disp' = [disp EXCEPT ![c].pc = pc]
  BY DEF MarketDataRequest
<1>2. pump' = [pump EXCEPT ![c] = [NoPump EXCEPT !.pc = "head", !.log = log]]
  BY DEF MarketDataRequest
<1>3. UNCHANGED <<known, out>> /\ c \in known /\ disp[c].pc = "off"
  BY DEF MarketDataRequest
<1>4. TypeInv'
  BY <1>0, <1>1, <1>2, <1>3, ZenonT(30) DEF TypeInv, NoPump, PumpPcs, DispPcs, Codes
<1>5. /\ pump'[c] = [NoPump EXCEPT !.pc = "head", !.log = log]
      /\ disp'[c].pc = pc /\ out'[c] = <<>>
  BY <1>1, <1>2, <1>3 DEF TypeInv, ClientInv
<1>55. NoPump \in [pc : PumpPcs, log : Seq(Kinds), pos : Nat, code : Codes,
                 read : BOOLEAN, consumed : BOOLEAN, stop : BOOLEAN]
  BY EmptySeq DEF NoPump, PumpPcs, Codes
<1>6. /\ pump'[c].log = log /\ pump'[c].pos = 0 /\ pump'[c].code = "not_ready"
      /\ pump'[c].read = FALSE /\ pump'[c].consumed = TRUE
  BY <1>5 DEF NoPump
<1>7. Taken(c)' = 0 /\ Ahead(c)' = 0
  BY <1>1, <1>5, <1>6 DEF Taken, Ahead
<1>8. SlotInv(c)'
  BY <1>0, <1>6 DEF SlotInv
<1>9. PairInv(c)'
  BY <1>1, <1>5, <1>6, <1>7, NothingReplayed DEF PairInv
<1>10. ClientInv(c)'
  BY <1>1, <1>3, <1>5, <1>8, <1>9 DEF ClientInv
<1>11. \A d \in Clients : d # c => ClientInv(d)'
  BY <1>1, <1>2, <1>3, Frame DEF TypeInv
<1> QED BY <1>4, <1>10, <1>11

\* A step of the pump or of the FIX thread that only sets pc and stop.
LEMMA FlagsInv ==
  ASSUME PInv, NEW c \in Clients, TypeInv', UNCHANGED <<known, out>>,
         \A d \in Clients : d # c => pump'[d] = pump[d] /\ disp'[d] = disp[d],
         disp'[c].pc = disp[c].pc, disp'[c].text1 = disp[c].text1, disp'[c].text2 = disp[c].text2,
         pump'[c].log = pump[c].log, pump'[c].pos = pump[c].pos, pump'[c].code = pump[c].code,
         pump'[c].read = pump[c].read, pump'[c].consumed = pump[c].consumed,
         pump[c].code = "eof" => pump'[c].pc \in {pump[c].pc, "head", "done"}
  PROVE  PInv'
<1> USE DEF PInv
<1>1. Taken(c)' = Taken(c) /\ Ahead(c)' = Ahead(c)
  BY DEF Taken, Ahead
<1>2. SlotInv(c) => SlotInv(c)'
  BY DEF SlotInv
<1>3. PairInv(c) => PairInv(c)'
  BY <1>1 DEF PairInv
<1>4. ClientInv(c)'
  BY <1>2, <1>3 DEF ClientInv
<1>5. \A d \in Clients : d # c => ClientInv(d)'
  BY Frame
<1> QED BY <1>4, <1>5

\* A step of one replay that goes on.
LEMMA ReplayInv ==
  ASSUME PInv, NEW c \in Clients, TypeInv', UNCHANGED known,
         \A d \in Clients : d # c =>
            pump'[d] = pump[d] /\ disp'[d] = disp[d] /\ out'[d] = out[d],
         disp[c].pc # "off", disp'[c].pc # "off",
         SlotInv(c)', Clean(pump'[c].log) => PairInv(c)'
  PROVE  PInv'
<1> USE DEF PInv
<1>1. ClientInv(c)'
  BY DEF ClientInv
<1>2. \A d \in Clients : d # c => ClientInv(d)'
  BY Frame
<1> QED BY <1>1, <1>2

LEMMA OnLogoutInv ==
  ASSUME PInv, NEW c \in Clients, OnLogout(c)
  PROVE  PInv'
<1>0. UNCHANGED <<known, disp, out>> /\ (pump' = pump \/ pump' = [pump EXCEPT ![c].stop = TRUE])
  BY DEF OnLogout
<1>1. TypeInv'
  <2>1. CASE pump' = pump
    BY <1>0, <2>1 DEF PInv, TypeInv
  <2>2. CASE pump' = [pump EXCEPT ![c].stop = TRUE]
    BY <1>0, <2>2 DEF PInv, TypeInv
  <2> QED BY <1>0, <2>1, <2>2
<1>2. CASE pump' = pump
  BY <1>1, <1>2, FlagsInv DEF OnLogout
<1>3. CASE pump' = [pump EXCEPT ![c].stop = TRUE]
  <2>1. /\ pump'[c] = [pump[c] EXCEPT !.stop = TRUE]
        /\ \A d \in Clients : d # c => pump'[d] = pump[d]
    BY <1>3 DEF PInv, TypeInv
  <2>2. pump[c] \in [pc : PumpPcs, log : Seq(Kinds), pos : Nat, code : Codes,
                     read : BOOLEAN, consumed : BOOLEAN, stop : BOOLEAN]
    BY Records DEF PInv
  <2> QED BY <1>1, <2>1, <2>2, FlagsInv DEF OnLogout
<1> QED BY <1>2, <1>3 DEF OnLogout

LEMMA PumpJoinedInv ==
  ASSUME PInv, NEW c \in Clients, PumpJoined(c)
  PROVE  PInv'
<1>1. TypeInv'
  BY DEF PInv, PumpJoined, TypeInv
<1>2. /\ disp'[c] = [disp[c] EXCEPT !.stop = TRUE]
      /\ \A d \in Clients : d # c => disp'[d] = disp[d]
  BY DEF PInv, TypeInv, PumpJoined
<1>3. disp[c] \in [pc : DispPcs, stop : BOOLEAN, text1 : Nat, text2 : Nat]
  BY Records DEF PInv
<1> QED BY <1>1, <1>2, <1>3, FlagsInv DEF PumpJoined

LEMMA DispJoinedInv ==
  ASSUME PInv, NEW c \in Clients, DispJoined(c)
  PROVE  PInv'
<1> USE DEF PInv, DispJoined
<1>1. TypeInv'
  BY EmptySeq DEF TypeInv, NoPump, NoDisp, PumpPcs, DispPcs, Codes
<1>2. ClientInv(c)'
  <2>1. c \notin known' /\ disp'[c].pc = "off"
    BY DEF TypeInv, NoDisp
  <2> QED BY <2>1 DEF ClientInv
<1>3. \A d \in Clients : d # c => ClientInv(d)'
  BY Frame DEF TypeInv
<1> QED BY <1>1, <1>2, <1>3

LEMMA PumpHeadInv ==
  ASSUME PInv, NEW c \in Clients, PumpHead(c)
  PROVE  PInv'
<1>2. PICK pc \in {"done", "reading"} :
         pump' = [pump EXCEPT ![c].pc = pc] /\ (pump[c].code = "eof" => pc = "done")
  <2>1. CASE pump[c].stop \/ pump[c].code = "eof"
    BY <2>1 DEF PumpHead
  <2>2. CASE ~(pump[c].stop \/ pump[c].code = "eof")
    BY <2>2 DEF PumpHead
  <2> QED BY <2>1, <2>2
<1>1. TypeInv'
  <2>1. pc \in PumpPcs
    BY DEF PumpPcs
  <2>2. UNCHANGED <<known, disp, out>>
    BY DEF PumpHead
  <2> QED BY <1>2, <2>1, <2>2 DEF PInv, TypeInv
<1>3. /\ pump'[c] = [pump[c] EXCEPT !.pc = pc]
      /\ \A d \in Clients : d # c => pump'[d] = pump[d]
  BY <1>2 DEF PInv, TypeInv
<1>4. pump[c] \in [pc : PumpPcs, log : Seq(Kinds), pos : Nat, code : Codes,
                   read : BOOLEAN, consumed : BOOLEAN, stop : BOOLEAN]
  BY Records DEF PInv
<1> QED BY <1>1, <1>2, <1>3, <1>4, FlagsInv DEF PumpHead

\* The pump puts the next line into an empty slot; nothing is taken.
LEMMA ReadInv ==
  ASSUME PInv, NEW c \in Clients, Read(c)
  PROVE  PInv'
<1>0. pump[c] \in [pc : PumpPcs, log : Seq(Kinds), pos : Nat, code : Codes,
                   read : BOOLEAN, consumed : BOOLEAN, stop : BOOLEAN]
      /\ Len(pump[c].log) \in Nat
  BY Records DEF PInv
<1>1. PICK pos, code :
         /\ pump' = [pump EXCEPT ![c].pos = pos, ![c].code = code, ![c].read = TRUE,
                                 ![c].consumed = FALSE, ![c].pc = "head"]
         /\ pos = IF pump[c].pos < Len(pump[c].log) THEN pump[c].pos + 1 ELSE pump[c].pos
         /\ code = IF pump[c].pos < Len(pump[c].log) THEN "ok" ELSE "eof"
  BY DEF Read
<1>2. UNCHANGED <<known, disp, out>> /\ pump[c].consumed /\ pump[c].pc = "reading"
  BY DEF Read
<1>3. pos \in Nat /\ code \in Codes
  BY <1>0, <1>1 DEF Codes
<1>4. TypeInv'
  BY <1>1, <1>2, <1>3 DEF PInv, TypeInv, PumpPcs
<1>5. \A d \in Clients : d # c => pump'[d] = pump[d]
  BY <1>1 DEF PInv, TypeInv
<1>6. /\ pump'[c].pos = pos /\ pump'[c].code = code /\ pump'[c].read = TRUE
      /\ pump'[c].consumed = FALSE /\ pump'[c].pc = "head" /\ pump'[c].log = pump[c].log
  <2>1. pump'[c] = [pump[c] EXCEPT !.pos = pos, !.code = code, !.read = TRUE,
                                   !.consumed = FALSE, !.pc = "head"]
    BY <1>1 DEF PInv, TypeInv
  <2> QED BY <1>0, <2>1
<1>7. CASE disp[c].pc = "off"
  <2>1. ClientInv(c)'
    BY <1>2, <1>7 DEF PInv, ClientInv
  <2>2. \A d \in Clients : d # c => ClientInv(d)'
    BY <1>2, <1>5, Frame DEF PInv
  <2> QED BY <1>4, <2>1, <2>2 DEF PInv
<1>8. CASE disp[c].pc # "off"
  <2>1. SlotInv(c) /\ (Clean(pump[c].log) => PairInv(c))
    BY <1>8 DEF PInv, ClientInv
  <2>2. ~pump[c].read /\ pump[c].pos <= Len(pump[c].log) /\ pump[c].code # "eof"
    BY <1>2, <2>1 DEF SlotInv
  <2>3. SlotInv(c)'
    BY <1>0, <1>1, <1>6, <2>2, SMTT(30) DEF SlotInv
  <2>4. Taken(c)' = Taken(c)
    BY <1>0, <1>1, <1>6, <2>2 DEF Taken
  <2>5. Ahead(c)' = Ahead(c)
    BY <1>2, <1>6 DEF Ahead
  <2>6. PairInv(c) => PairInv(c)'
    BY <1>2, <1>6, <2>2, <2>4, <2>5 DEF PairInv
  <2> QED BY <1>2, <1>4, <1>5, <1>6, <1>8, <2>1, <2>3, <2>6, ReplayInv
<1> QED BY <1>7, <1>8

LEMMA DispHeadInv ==
  ASSUME PInv, NEW c \in Clients, DispHead(c)
  PROVE  PInv'
<1>0. disp[c] \in [pc : DispPcs, stop : BOOLEAN, text1 : Nat, text2 : Nat]
  BY Records DEF PInv
<1>1. PICK pc \in {"stopped", "first"} : disp' = [disp EXCEPT ![c].pc = pc]
  BY DEF DispHead
<1>2. UNCHANGED <<known, pump, out>> /\ disp[c].pc = "head"
  BY DEF DispHead
<1>3. TypeInv'
  BY <1>1, <1>2, ZenonT(30) DEF PInv, TypeInv, DispPcs
<1>4. disp'[c].pc = pc /\ \A d \in Clients : d # c => disp'[d] = disp[d]
  BY <1>1 DEF PInv, TypeInv
<1>5. SlotInv(c) /\ (Clean(pump[c].log) => PairInv(c))
  BY <1>2 DEF PInv, ClientInv
<1>6. SlotInv(c)'
  BY <1>2, <1>5 DEF SlotInv
<1>7. Taken(c)' = Taken(c) /\ Ahead(c)' = 0 /\ Ahead(c) = 0
  BY <1>1, <1>2, <1>4 DEF Taken, Ahead
<1>8. PairInv(c) => PairInv(c)'
  BY <1>1, <1>2, <1>4, <1>7 DEF PairInv
<1> QED BY <1>1, <1>2, <1>3, <1>4, <1>5, <1>6, <1>8, ReplayInv

\* A line that is taken is no longer in the slot.
LEMMA GetMsgLemma ==
  ASSUME PInv, NEW c \in Clients, GetMsg(c), disp[c].pc # "off", UNCHANGED <<known, out>>
  PROVE  /\ \A d \in Clients : d # c => pump'[d] = pump[d]
         /\ pump'[c].log = pump[c].log /\ pump'[c].pos = pump[c].pos
         /\ pump'[c].code = pump[c].code /\ pump'[c].read = FALSE
         /\ disp' \in [Clients -> [pc : DispPcs, stop : BOOLEAN, text1 : Nat, text2 : Nat]] => TypeInv'
         /\ SlotInv(c)' /\ pump[c].code \in {"ok", "eof"} /\ pump[c].pos <= Len(pump[c].log)
         /\ pump[c].code = "ok" =>
              /\ pump[c].pos \in 1 .. Len(pump[c].log)
              /\ Taken(c) = pump[c].pos - 1 /\ Taken(c)' = pump[c].pos
              /\ Clean(pump[c].log) => \A old : Parsed(c, old) = pump[c].pos
         /\ pump[c].code = "eof" =>
              Taken(c) = Len(pump[c].log) /\ Taken(c)' = Len(pump[c].log)
<1>0. pump[c] \in [pc : PumpPcs, log : Seq(Kinds), pos : Nat, code : Codes,
                   read : BOOLEAN, consumed : BOOLEAN, stop : BOOLEAN]
      /\ Len(pump[c].log) \in Nat
  BY Records DEF PInv
<1>1. pump' = [pump EXCEPT ![c].read = FALSE, ![c].consumed = TRUE] /\ pump[c].read
  BY DEF GetMsg
<1>2. /\ pump'[c] = [pump[c] EXCEPT !.read = FALSE, !.consumed = TRUE]
      /\ \A d \in Clients : d # c => pump'[d] = pump[d]
  BY <1>1 DEF PInv, TypeInv
<1>3. /\ pump'[c].log = pump[c].log /\ pump'[c].pos = pump[c].pos
      /\ pump'[c].code = pump[c].code /\ pump'[c].read = FALSE /\ pump'[c].consumed = TRUE
      /\ pump'[c].pc = pump[c].pc
  BY <1>0, <1>2
<1>4. SlotInv(c)
  BY DEF PInv, ClientInv
<1>5. SlotInv(c)'
  BY <1>3, <1>4 DEF SlotInv
<1>6. disp' \in [Clients -> [pc : DispPcs, stop : BOOLEAN, text1 : Nat, text2 : Nat]] => TypeInv'
  BY <1>1, ZenonT(30) DEF PInv, TypeInv
<1>7. pump[c].code \in {"ok", "eof"} /\ pump[c].pos <= Len(pump[c].log)
  BY <1>0, <1>1, <1>4 DEF SlotInv, Codes
<1>8. pump[c].code = "ok" =>
        pump[c].pos \in 1 .. Len(pump[c].log) /\ Taken(c) = pump[c].pos - 1 /\ Taken(c)' = pump[c].pos
  BY <1>0, <1>1, <1>3, <1>4 DEF SlotInv, Taken
<1>9. pump[c].code = "ok" /\ Clean(pump[c].log) => \A old : Parsed(c, old) = pump[c].pos
  <2>1. DOMAIN pump[c].log = 1 .. Len(pump[c].log)
    BY <1>0, LenProperties
  <2> QED BY <1>8, <2>1 DEF Clean, Parsed
<1>10. pump[c].code = "eof" => Taken(c) = Len(pump[c].log) /\ Taken(c)' = Len(pump[c].log)
  BY <1>3, <1>4 DEF SlotInv, Taken
<1> QED BY <1>2, <1>3, <1>5, <1>6, <1>7, <1>8, <1>9, <1>10

LEMMA GetFirstInv ==
  ASSUME PInv, NEW c \in Clients, GetFirst(c)
  PROVE  PInv'
<1>0. disp[c] \in [pc : DispPcs, stop : BOOLEAN, text1 : Nat, text2 : Nat]
      /\ Len(pump[c].log) \in Nat
  BY Records DEF PInv
<1>1. disp[c].pc = "first" /\ GetMsg(c) /\ UNCHANGED <<known, out>>
  BY DEF GetFirst
<1>2. /\ \A d \in Clients : d # c => pump'[d] = pump[d]
      /\ pump'[c].log = pump[c].log /\ pump'[c].code = pump[c].code /\ pump'[c].read = FALSE
      /\ disp' \in [Clients -> [pc : DispPcs, stop : BOOLEAN, text1 : Nat, text2 : Nat]] => TypeInv'
      /\ SlotInv(c)'
      /\ pump[c].code = "ok" =>
           /\ pump[c].pos \in 1 .. Len(pump[c].log)
           /\ Taken(c) = pump[c].pos - 1 /\ Taken(c)' = pump[c].pos
           /\ Clean(pump[c].log) => \A old : Parsed(c, old) = pump[c].pos
      /\ pump[c].code = "eof" =>
           Taken(c) = Len(pump[c].log) /\ Taken(c)' = Len(pump[c].log)
  BY <1>1, GetMsgLemma
<1>3. Clean(pump[c].log) =>
        Taken(c) % 2 = 0 /\ Replayed(out[c], pump[c].log, Taken(c) - 0)
  BY <1>1 DEF PInv, ClientInv, PairInv, Ahead
<1>4. CASE /\ pump[c].code = "ok"
           /\ disp' = [disp EXCEPT ![c].text1 = Parsed(c, disp[c].text1), ![c].pc = "second"]
  <2>1. disp'[c].pc = "second" /\ disp'[c].text1 = Parsed(c, disp[c].text1)
        /\ \A d \in Clients : d # c => disp'[d] = disp[d]
    BY <1>0, <1>4 DEF PInv, TypeInv
  <2>2. Parsed(c, disp[c].text1) \in Nat
    BY <1>0, <1>2, <1>4 DEF Parsed
  <2>3. TypeInv'
    <3>1. "second" \in DispPcs
      BY DEF DispPcs
    <3>2. disp' \in [Clients -> [pc : DispPcs, stop : BOOLEAN, text1 : Nat, text2 : Nat]]
      BY <1>4, <2>2, <3>1 DEF PInv, TypeInv
    <3> QED BY <1>2, <3>2
  <2>4. Clean(pump[c].log) => PairInv(c)'
    <3> SUFFICES ASSUME Clean(pump[c].log) PROVE PairInv(c)'
      OBVIOUS
    <3>1. Taken(c)' \in Nat /\ Taken(c)' = Taken(c) + 1 /\ Taken(c) \in Nat
      BY <1>2, <1>4
    <3>2. Taken(c)' % 2 = 1 /\ disp'[c].text1 = Taken(c)'
      BY <1>2, <1>3, <1>4, <2>1, <3>1
    <3>3. Ahead(c)' = 1
      BY <2>1 DEF Ahead
    <3>4. Taken(c)' - Ahead(c)' = Taken(c) - 0
      BY <3>1, <3>3
    <3>5. Replayed(out'[c], pump'[c].log, Taken(c)' - Ahead(c)')
      BY <1>1, <1>2, <1>3, <3>4
    <3> QED BY <2>1, <3>2, <3>5 DEF PairInv
  <2> QED BY <1>1, <1>2, <2>1, <2>3, <2>4, ReplayInv
<1>5. CASE pump[c].code = "ok" /\ Parsed(c, disp[c].text1) = 0 /\ disp' = disp
  <2>1. ~Clean(pump[c].log)
    BY <1>2, <1>5
  <2>2. TypeInv'
    BY <1>2, <1>5 DEF PInv, TypeInv
  <2> QED BY <1>1, <1>2, <1>5, <2>1, <2>2, ReplayInv
<1>6. CASE pump[c].code = "eof" /\ disp' = [disp EXCEPT ![c].pc = "ended"]
  <2>1. disp'[c].pc = "ended" /\ \A d \in Clients : d # c => disp'[d] = disp[d]
    BY <1>0, <1>6 DEF PInv, TypeInv
  <2>2. TypeInv'
    BY <1>2, <1>6, ZenonT(30) DEF PInv, TypeInv, DispPcs
  <2>3. Clean(pump[c].log) => PairInv(c)'
    <3> SUFFICES ASSUME Clean(pump[c].log) PROVE PairInv(c)'
      OBVIOUS
    <3>1. Ahead(c)' = 0
      BY <1>2, <1>3, <1>6, <2>1 DEF Ahead
    <3>2. Replayed(out'[c], pump'[c].log, Taken(c)' - Ahead(c)')
      BY <1>1, <1>2, <1>3, <1>6, <3>1
    <3> QED BY <1>2, <1>6, <2>1, <3>2 DEF PairInv
  <2> QED BY <1>1, <1>2, <2>1, <2>2, <2>3, ReplayInv
<1> QED BY <1>4, <1>5, <1>6 DEF GetFirst

LEMMA GetSecondInv ==
  ASSUME PInv, NEW c \in Clients, GetSecond(c)
  PROVE  PInv'
<1>0. disp[c] \in [pc : DispPcs, stop : BOOLEAN, text1 : Nat, text2 : Nat]
      /\ Len(pump[c].log) \in Nat
  BY Records DEF PInv
<1>1. disp[c].pc = "second" /\ GetMsg(c) /\ UNCHANGED <<known, out>>
  BY DEF GetSecond
<1>2. /\ \A d \in Clients : d # c => pump'[d] = pump[d]
      /\ pump'[c].log = pump[c].log /\ pump'[c].code = pump[c].code /\ pump'[c].read = FALSE
      /\ disp' \in [Clients -> [pc : DispPcs, stop : BOOLEAN, text1 : Nat, text2 : Nat]] => TypeInv'
      /\ SlotInv(c)'
      /\ pump[c].code = "ok" =>
           /\ pump[c].pos \in 1 .. Len(pump[c].log)
           /\ Taken(c) = pump[c].pos - 1 /\ Taken(c)' = pump[c].pos
           /\ Clean(pump[c].log) => \A old : Parsed(c, old) = pump[c].pos
      /\ pump[c].code = "eof" =>
           Taken(c) = Len(pump[c].log) /\ Taken(c)' = Len(pump[c].log)
  BY <1>1, GetMsgLemma
<1>3. Clean(pump[c].log) =>
        /\ Taken(c) % 2 = 1 /\ disp[c].text1 = Taken(c)
        /\ Replayed(out[c], pump[c].log, Taken(c) - 1)
  BY <1>1 DEF PInv, ClientInv, PairInv, Ahead
<1>4. CASE /\ pump[c].code = "ok"
           /\ disp' = [disp EXCEPT ![c].text2 = Parsed(c, disp[c].text2), ![c].pc = "send1"]
  <2>1. /\ disp'[c].pc = "send1" /\ disp'[c].text2 = Parsed(c, disp[c].text2)
        /\ disp'[c].text1 = disp[c].text1
        /\ \A d \in Clients : d # c => disp'[d] = disp[d]
    BY <1>0, <1>4 DEF PInv, TypeInv
  <2>2. Parsed(c, disp[c].text2) \in Nat
    BY <1>0, <1>2, <1>4 DEF Parsed
  <2>3. TypeInv'
    <3>1. "send1" \in DispPcs
      BY DEF DispPcs
    <3>2. disp' \in [Clients -> [pc : DispPcs, stop : BOOLEAN, text1 : Nat, text2 : Nat]]
      BY <1>4, <2>2, <3>1 DEF PInv, TypeInv
    <3> QED BY <1>2, <3>2
  <2>4. Clean(pump[c].log) => PairInv(c)'
    <3> SUFFICES ASSUME Clean(pump[c].log) PROVE PairInv(c)'
      OBVIOUS
    <3>1. Taken(c)' \in Nat /\ Taken(c)' = Taken(c) + 1 /\ Taken(c) \in Nat
      BY <1>2, <1>4
    <3>20. PICK t \in Nat : t = Taken(c)
      BY <3>1
    <3>21. t % 2 = 1 /\ Taken(c)' = t + 1
      BY <1>3, <3>1, <3>20
    <3>22. (t + 1) % 2 = 0 /\ t + 1 >= 2 /\ (t + 1) - 1 = t
      BY <3>21
    <3>23. disp'[c].text1 = t /\ disp'[c].text2 = t + 1
      BY <1>2, <1>3, <1>4, <2>1, <3>1, <3>20
    <3>2. /\ Taken(c)' % 2 = 0 /\ Taken(c)' >= 2
          /\ disp'[c].text1 = Taken(c)' - 1 /\ disp'[c].text2 = Taken(c)'
      BY <3>21, <3>22, <3>23
    <3>3. Ahead(c)' = 2
      BY <2>1 DEF Ahead
    <3>4. Taken(c)' - Ahead(c)' = Taken(c) - 1
      BY <3>1, <3>3
    <3>5. Replayed(out'[c], pump'[c].log, Taken(c)' - Ahead(c)')
      BY <1>1, <1>2, <1>3, <3>4
    <3> QED BY <2>1, <3>2, <3>5 DEF PairInv
  <2> QED BY <1>1, <1>2, <2>1, <2>3, <2>4, ReplayInv
<1>5. CASE pump[c].code = "ok" /\ Parsed(c, disp[c].text2) = 0 /\ disp' = disp
  <2>1. ~Clean(pump[c].log)
    BY <1>2, <1>5
  <2>2. TypeInv'
    BY <1>2, <1>5 DEF PInv, TypeInv
  <2> QED BY <1>1, <1>2, <1>5, <2>1, <2>2, ReplayInv
<1>6. CASE pump[c].code = "eof" /\ disp' = [disp EXCEPT ![c].pc = "ended"]
  <2>1. disp'[c].pc = "ended" /\ \A d \in Clients : d # c => disp'[d] = disp[d]
    BY <1>0, <1>6 DEF PInv, TypeInv
  <2>2. TypeInv'
    BY <1>2, <1>6, ZenonT(30) DEF PInv, TypeInv, DispPcs
  <2>3. Clean(pump[c].log) => PairInv(c)'
    <3> SUFFICES ASSUME Clean(pump[c].log) PROVE PairInv(c)'
      OBVIOUS
    <3>1. Ahead(c)' = 1
      BY <1>2, <1>3, <1>6, <2>1 DEF Ahead
    <3>2. Replayed(out'[c], pump'[c].log, Taken(c)' - Ahead(c)')
      BY <1>1, <1>2, <1>3, <1>6, <3>1
    <3> QED BY <1>2, <1>6, <2>1, <3>2 DEF PairInv
  <2> QED BY <1>1, <1>2, <2>1, <2>2, <2>3, ReplayInv
<1> QED BY <1>4, <1>5, <1>6 DEF GetSecond

\* Sending the next line, if it is market data.
LEMMA DispatchLemma ==
  ASSUME TypeInv, NEW c \in Clients, NEW line \in Nat, Dispatch(c, line)
  PROVE  /\ out' \in [Clients -> Seq(Nat)] /\ \A d \in Clients : d # c => out'[d] = out[d]
         /\ line # 0 /\ Replayed(out[c], pump[c].log, line - 1) =>
              Replayed(out'[c], pump[c].log, line)
<1>1. out[c] \in Seq(Nat) /\ (line # 0 => line - 1 \in Nat /\ (line - 1) + 1 = line)
  BY DEF TypeInv
<1>2. CASE Sendable(pump[c].log[line])
  <2>1. out' = [out EXCEPT ![c] = Append(out[c], line)] /\ Append(out[c], line) \in Seq(Nat)
    BY <1>1, <1>2, AppendProperties DEF Dispatch
  <2>2. out'[c] = Append(out[c], line) /\ \A d \in Clients : d # c => out'[d] = out[d]
    BY <2>1 DEF TypeInv
  <2>3. ASSUME line # 0, Replayed(out[c], pump[c].log, line - 1)
        PROVE  Replayed(Append(out[c], (line - 1) + 1), pump[c].log, (line - 1) + 1)
    BY <1>1, <1>2, <2>3, ReplayedNext
  <2> QED BY <1>1, <2>1, <2>2, <2>3 DEF TypeInv
<1>3. CASE ~Sendable(pump[c].log[line])
  <2>1. out' = out
    BY <1>3 DEF Dispatch
  <2>2. ASSUME line # 0, Replayed(out[c], pump[c].log, line - 1)
        PROVE  Replayed(out[c], pump[c].log, (line - 1) + 1)
    BY <1>1, <1>3, <2>2, ReplayedSkip
  <2> QED BY <1>1, <2>1, <2>2 DEF TypeInv
<1> QED BY <1>2, <1>3

LEMMA SendFirstInv ==
  ASSUME PInv, NEW c \in Clients, SendFirst(c)
  PROVE  PInv'
<1>0. disp[c] \in [pc : DispPcs, stop : BOOLEAN, text1 : Nat, text2 : Nat]
  BY Records DEF PInv
<1>1. /\ disp[c].pc = "send1" /\ Dispatch(c, disp[c].text1) /\ UNCHANGED <<known, pump>>
      /\ disp' = [disp EXCEPT ![c].pc = "send2"]
  BY DEF SendFirst
<1>2. /\ out' \in [Clients -> Seq(Nat)] /\ \A d \in Clients : d # c => out'[d] = out[d]
      /\ disp[c].text1 # 0 /\ Replayed(out[c], pump[c].log, disp[c].text1 - 1) =>
           Replayed(out'[c], pump[c].log, disp[c].text1)
  BY <1>0, <1>1, DispatchLemma DEF PInv
<1>3. /\ disp'[c].pc = "send2" /\ disp'[c].text2 = disp[c].text2
      /\ \A d \in Clients : d # c => disp'[d] = disp[d]
  BY <1>0, <1>1 DEF PInv, TypeInv
<1>4. TypeInv'
  BY <1>1, <1>2, ZenonT(30) DEF PInv, TypeInv, DispPcs
<1>5. SlotInv(c) /\ (Clean(pump[c].log) => PairInv(c))
  BY <1>1 DEF PInv, ClientInv
<1>6. SlotInv(c)' /\ Taken(c)' = Taken(c) /\ Ahead(c)' = 1 /\ Ahead(c) = 2
  BY <1>1, <1>3, <1>5 DEF SlotInv, Taken, Ahead
<1>7. Clean(pump[c].log) => PairInv(c)'
  <2> SUFFICES ASSUME Clean(pump[c].log) PROVE PairInv(c)'
    OBVIOUS
  <2>1. /\ Taken(c) >= 2 /\ Taken(c) % 2 = 0 /\ disp[c].text1 = Taken(c) - 1
        /\ disp[c].text2 = Taken(c) /\ Replayed(out[c], pump[c].log, Taken(c) - 2)
    BY <1>1, <1>5, <1>6 DEF PairInv
  <2>2. disp[c].text1 - 1 = Taken(c) - 2 /\ disp[c].text1 # 0
    BY <1>0, <2>1
  <2>3. Replayed(out'[c], pump'[c].log, Taken(c)' - Ahead(c)')
    BY <1>1, <1>2, <1>6, <2>1, <2>2
  <2> QED BY <1>3, <1>6, <2>1, <2>3 DEF PairInv
<1> QED BY <1>1, <1>2, <1>3, <1>4, <1>6, <1>7, ReplayInv

LEMMA SendSecondInv ==
  ASSUME PInv, NEW c \in Clients, SendSecond(c)
  PROVE  PInv'
<1>0. disp[c] \in [pc : DispPcs, stop : BOOLEAN, text1 : Nat, text2 : Nat]
  BY Records DEF PInv
<1>1. /\ disp[c].pc = "send2" /\ Dispatch(c, disp[c].text2) /\ UNCHANGED <<known, pump>>
      /\ disp' = [disp EXCEPT ![c].pc = "head"]
  BY DEF SendSecond
<1>2. /\ out' \in [Clients -> Seq(Nat)] /\ \A d \in Clients : d # c => out'[d] = out[d]
      /\ disp[c].text2 # 0 /\ Replayed(out[c], pump[c].log, disp[c].text2 - 1) =>
           Replayed(out'[c], pump[c].log, disp[c].text2)
  BY <1>0, <1>1, DispatchLemma DEF PInv
<1>3. disp'[c].pc = "head" /\ \A d \in Clients : d # c => disp'[d] = disp[d]
  BY <1>0, <1>1 DEF PInv, TypeInv
<1>4. TypeInv'
  BY <1>1, <1>2, ZenonT(30) DEF PInv, TypeInv, DispPcs
<1>5. SlotInv(c) /\ (Clean(pump[c].log) => PairInv(c))
  BY <1>1 DEF PInv, ClientInv
<1>6. SlotInv(c)' /\ Taken(c)' = Taken(c) /\ Ahead(c)' = 0 /\ Ahead(c) = 1
  BY <1>1, <1>3, <1>5 DEF SlotInv, Taken, Ahead
<1>7. Clean(pump[c].log) => PairInv(c)'
  <2> SUFFICES ASSUME Clean(pump[c].log) PROVE PairInv(c)'
    OBVIOUS
  <2>1. /\ Taken(c) >= 2 /\ Taken(c) % 2 = 0 /\ disp[c].text2 = Taken(c)
        /\ Replayed(out[c], pump[c].log, Taken(c) - 1)
    BY <1>1, <1>5, <1>6 DEF PairInv
  <2>2. disp[c].text2 # 0 /\ Taken(c) - 0 = Taken(c)
    BY <1>0, <2>1
  <2>3. Replayed(out'[c], pump'[c].log, Taken(c)' - Ahead(c)')
    BY <1>1, <1>2, <1>6, <2>1, <2>2
  <2> QED BY <1>3, <1>6, <2>1, <2>3 DEF PairInv
<1> QED BY <1>1, <1>2, <1>3, <1>4, <1>6, <1>7, ReplayInv

LEMMA NextInv == PInv /\ [Next]_vars => PInv'
<1> SUFFICES ASSUME PInv, [Next]_vars PROVE PInv'
  OBVIOUS
<1>1. ASSUME UNCHANGED <<known, pump, disp, out>> PROVE PInv'
  <2>1. TypeInv'
    BY <1>1 DEF PInv, TypeInv
  <2>2. \A c \in Clients : ClientInv(c)'
    BY <1>1, Frame DEF PInv
  <2> QED BY <2>1, <2>2 DEF PInv
<1>2. ASSUME NEW c \in Clients, Callback(c) PROVE PInv'
  <2>1. CASE OnLogon(c)
    BY <2>1, OnLogonInv
  <2>2. CASE OnLogout(c)
    BY <2>2, OnLogoutInv
  <2>3. ASSUME NEW log \in Logs, MarketDataRequest(c, log) PROVE PInv'
    BY <2>3, MarketDataRequestInv
  <2>4. CASE MarketDataRequestUnreadable(c)
    BY <1>1, <2>4 DEF MarketDataRequestUnreadable
  <2>5. CASE NewOrderSingle(c) \/ NewOrderSingle43(c)
    BY <1>1, <2>5 DEF NewOrderSingle, NewOrderSingle43
  <2> QED BY <1>2, <2>1, <2>2, <2>3, <2>4, <2>5 DEF Callback
<1>3. ASSUME NEW c \in Clients, Joins(c) PROVE PInv'
  BY <1>3, PumpJoinedInv, DispJoinedInv DEF Joins
<1>4. ASSUME NEW c \in Clients, PumpRun(c) PROVE PInv'
  BY <1>4, PumpHeadInv, ReadInv DEF PumpRun
<1>5. ASSUME NEW c \in Clients, DispRun(c) PROVE PInv'
  BY <1>5, DispHeadInv, GetFirstInv, GetSecondInv, SendFirstInv, SendSecondInv DEF DispRun
<1>6. CASE UNCHANGED vars
  BY <1>1, <1>6 DEF vars
<1> QED BY <1>2, <1>3, <1>4, <1>5, <1>6 DEF Next

\* Every client gets a beginning of the market data of its log, in order and
\* without a gap, whatever the log, however the pump and the dispatcher
\* alternate and whenever either is stopped.
THEOREM ReplayIsInOrder == Spec => []ReplaysInOrder
<1>1. PInv => ReplaysInOrder
  <2> SUFFICES ASSUME PInv, NEW c \in Clients, disp[c].pc # "off", Clean(pump[c].log)
               PROVE  \E n \in 0 .. Len(pump[c].log) : Replayed(out[c], pump[c].log, n)
    BY DEF ReplaysInOrder
  <2>1. SlotInv(c) /\ PairInv(c)
    BY DEF PInv, ClientInv
  <2>2. pump[c].pos \in Nat /\ Len(pump[c].log) \in Nat /\ disp[c].pc \in DispPcs
    BY Records DEF PInv
  <2>3. pump[c].pos <= Len(pump[c].log) /\ (pump[c].read /\ pump[c].code = "ok" => pump[c].pos > 0)
    BY <2>1 DEF SlotInv
  <2>4. Taken(c) \in 0 .. Len(pump[c].log)
    BY <2>2, <2>3 DEF Taken
  <2>5. Taken(c) - Ahead(c) \in 0 .. Len(pump[c].log)
    <3>1. CASE disp[c].pc = "second"
      <4>1. Taken(c) % 2 = 1 /\ Ahead(c) = 1
        BY <2>1, <3>1 DEF PairInv, Ahead
      <4> QED BY <2>2, <2>4, <4>1
    <3>2. CASE disp[c].pc \in {"send1", "send2"}
      <4>1. Taken(c) >= 2 /\ Ahead(c) \in {1, 2}
        BY <2>1, <3>2 DEF PairInv, Ahead
      <4> QED BY <2>2, <2>4, <4>1
    <3>3. CASE disp[c].pc = "ended"
      <4>1. Taken(c) = Len(pump[c].log) /\ Ahead(c) = Len(pump[c].log) % 2
        BY <2>1, <3>3 DEF PairInv, Ahead
      <4>2. \A n \in Nat : n - (n % 2) \in 0 .. n
        OBVIOUS
      <4> QED BY <2>2, <4>1, <4>2
    <3>4. CASE disp[c].pc \notin {"second", "send1", "send2", "ended"}
      <4>1. Ahead(c) = 0
        BY <3>4 DEF Ahead
      <4> QED BY <2>2, <2>4, <4>1
    <3> QED BY <3>1, <3>2, <3>3, <3>4
  <2> QED BY <2>1, <2>5 DEF PairInv
<1> QED BY <1>1, InitInv, NextInv, PTL DEF Spec

\* A replay that has come to the end of its log has sent all of its market
\* data but that of an odd last line.
THEOREM ReplayIsComplete == Spec => []OnlyOddLineMissing
<1>1. PInv => OnlyOddLineMissing
  <2> SUFFICES ASSUME PInv, NEW c \in Clients, disp[c].pc = "ended", Clean(pump[c].log)
               PROVE  Replayed(out[c], pump[c].log, Len(pump[c].log) - (Len(pump[c].log) % 2))
    BY DEF OnlyOddLineMissing
  <2>1. PairInv(c)
    BY DEF PInv, ClientInv
  <2>2. Taken(c) = Len(pump[c].log) /\ Ahead(c) = Len(pump[c].log) % 2
    BY <2>1 DEF PairInv, Ahead
  <2> QED BY <2>1, <2>2 DEF PairInv
<1> QED BY <1>1, InitInv, NextInv, PTL DEF Spec
=============================================================================
