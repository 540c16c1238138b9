---------------------------- MODULE ReplayServer ----------------------------
(***************************************************************************)
(* The FIX replay server, replay_server/. A client logs on and asks for    *)
(* market data; the server then reads a FIX log line by line in a pump     *)
(* thread (msg_pump.cpp), and a dispatcher thread (msg_dispatcher.cpp)     *)
(* takes the lines two at a time and sends the market data among them.     *)
(* The pump hands over one line at a time, in a slot guarded by a mutex    *)
(* and two conditions, each with one waiter: a wait is a guard here.       *)
(*                                                                         *)
(* One FIX thread (SocketAcceptor, external) runs all callbacks of         *)
(* Application.cpp; a logout joins both threads of the session in it.      *)
(***************************************************************************)
EXTENDS Integers, Sequences

CONSTANTS Clients,   \* the sessions
          Logs,      \* the log files a client may ask for: sequences of lines
          MaxLogons, \* bound: logons in a behaviour
          MaxOrders  \* bound: orders in a behaviour

Kinds == {"snapshot42", "snapshot", "incremental", "other", "junk"}

ASSUME ReplayAssumption ==
    /\ MaxLogons \in Nat /\ MaxOrders \in Nat
    /\ \A log \in Logs : log \in Seq(Kinds)

VARIABLES fix,     \* the FIX thread: "idle", what it joins, or "aborted"
          known,   \* the clients in _sessionMap
          pump,    \* MP of each client
          disp,    \* MsgDispatcher of each client
          out,     \* the market data sent to each client: numbers of lines
          logons, orderId, execId

vars == <<fix, known, pump, disp, out, logons, orderId, execId>>
ids  == <<orderId, execId>>

NoPump == [pc |-> "off", log |-> <<>>, pos |-> 0, code |-> "not_ready",
           read |-> FALSE, consumed |-> TRUE, stop |-> FALSE]
NoDisp == [pc |-> "off", stop |-> FALSE, text1 |-> 0, text2 |-> 0]

Init ==
    /\ fix = <<"idle">> /\ known = {}
    /\ pump = [c \in Clients |-> NoPump]
    /\ disp = [c \in Clients |-> NoDisp]
    /\ out = [c \in Clients |-> <<>>]
    /\ logons = 0 /\ orderId = 0 /\ execId = 0

Running == fix # <<"aborted">>

---------------------------------------------------------------------------
(* The callbacks of the FIX thread.                                        *)

OnLogon(c) ==
    /\ fix = <<"idle">> /\ c \notin known /\ logons < MaxLogons
    /\ logons' = logons + 1
    /\ known' = known \cup {c}
    /\ out' = [out EXCEPT ![c] = <<>>]
    /\ UNCHANGED <<fix, pump, disp, ids>>

(* MarketDataRequest for a log that can be opened. A second request only   *)
(* adds symbols, which nothing reads. The dispatcher's flags are not       *)
(* initialised: its thread may not be started.                             *)
MarketDataRequest(c, log) ==
    /\ fix = <<"idle">> /\ c \in known /\ disp[c].pc = "off"
    /\ pump' = [pump EXCEPT ![c] = [NoPump EXCEPT !.pc = "head", !.log = log]]
    /\ \E pc \in {"head", "none"} : disp' = [disp EXCEPT ![c].pc = pc]
    /\ UNCHANGED <<fix, known, out, logons, ids>>

(* The same for one that cannot: the pump's assertion ends the process.    *)
MarketDataRequestUnreadable(c) ==
    /\ fix = <<"idle">> /\ c \in known /\ disp[c].pc = "off"
    /\ fix' = <<"aborted">>
    /\ UNCHANGED <<known, pump, disp, out, logons, ids>>

(* NewOrderSingle of FIX 4.0 to 4.2: a limit order is filled at once by    *)
(* one report with new ids. (Any other order is refused.)                  *)
NewOrderSingle(c) ==
    /\ fix = <<"idle">> /\ c \in known /\ orderId < MaxOrders
    /\ orderId' = orderId + 1 /\ execId' = execId + 1
    /\ UNCHANGED <<fix, known, pump, disp, out, logons>>

(* The same for FIX 4.3 to 5.0, whose reports have no transaction type.    *)
NewOrderSingle43(c) == NewOrderSingle(c)

(* Mutant: both threads are told to stop before either is joined.          *)
OnLogoutBoth(c) ==
    /\ fix = <<"idle">> /\ c \in known
    /\ IF disp[c].pc = "off" THEN fix' = <<"aborted">> /\ UNCHANGED <<pump, disp>>
       ELSE /\ pump' = [pump EXCEPT ![c].stop = TRUE]
            /\ disp' = [disp EXCEPT ![c].stop = TRUE]
            /\ fix' = <<"joinPump", c>>
    /\ UNCHANGED <<known, out, logons, ids>>

(* onLogout. assert(md): a client that has not asked for data has no       *)
(* dispatcher, and the process ends.                                       *)
OnLogout(c) ==
    /\ fix = <<"idle">> /\ c \in known
    /\ IF disp[c].pc = "off" THEN fix' = <<"aborted">> /\ UNCHANGED pump
       ELSE /\ pump' = [pump EXCEPT ![c].stop = TRUE]
            /\ fix' = <<"joinPump", c>>
    /\ UNCHANGED <<known, disp, out, logons, ids>>

(* The pump has left; the dispatcher's thread is joined, if there is one.  *)
PumpJoined(c) ==
    /\ fix = <<"joinPump", c>> /\ pump[c].pc = "done"
    /\ disp' = [disp EXCEPT ![c].stop = TRUE]
    /\ fix' = IF disp[c].pc = "none" THEN <<"aborted">> ELSE <<"joinDisp", c>>
    /\ UNCHANGED <<known, pump, out, logons, ids>>

DispJoined(c) ==
    /\ fix = <<"joinDisp", c>> /\ disp[c].pc \in {"ended", "stopped"}
    /\ known' = known \ {c}
    /\ pump' = [pump EXCEPT ![c] = NoPump]
    /\ disp' = [disp EXCEPT ![c] = NoDisp]
    /\ fix' = <<"idle">>
    /\ UNCHANGED <<out, logons, ids>>

---------------------------------------------------------------------------
(* MP::run and MP::read.                                                   *)

PumpHead(c) ==
    /\ Running /\ pump[c].pc = "head"
    /\ pump' = [pump EXCEPT ![c].pc =
                    IF pump[c].stop \/ pump[c].code = "eof" THEN "done" ELSE "reading"]
    /\ UNCHANGED <<fix, known, disp, out, logons, ids>>

(* Mutant: the slot is filled whether or not it has been emptied.          *)
ReadWithoutWaiting(c) ==
    /\ Running /\ pump[c].pc = "reading"
    /\ LET more == pump[c].pos < Len(pump[c].log)
       IN  pump' = [pump EXCEPT ![c].pos = IF more THEN @ + 1 ELSE @,
                                ![c].code = IF more THEN "ok" ELSE "eof",
                                ![c].read = TRUE, ![c].consumed = FALSE,
                                ![c].pc = "head"]
    /\ UNCHANGED <<fix, known, disp, out, logons, ids>>

(* It waits until the last line has been taken, and reads the next.        *)
Read(c) ==
    /\ Running /\ pump[c].pc = "reading" /\ pump[c].consumed
    /\ LET more == pump[c].pos < Len(pump[c].log)
       IN  pump' = [pump EXCEPT ![c].pos = IF more THEN @ + 1 ELSE @,
                                ![c].code = IF more THEN "ok" ELSE "eof",
                                ![c].read = TRUE, ![c].consumed = FALSE,
                                ![c].pc = "head"]
    /\ UNCHANGED <<fix, known, disp, out, logons, ids>>

PumpRun(c) == PumpHead(c) \/ Read(c)

---------------------------------------------------------------------------
(* MsgDispatcher::run.                                                     *)

DispHead(c) ==
    /\ Running /\ disp[c].pc = "head"
    /\ disp' = [disp EXCEPT ![c].pc = IF disp[c].stop THEN "stopped" ELSE "first"]
    /\ UNCHANGED <<fix, known, pump, out, logons, ids>>

(* Mutant: the pump is not told.                                           *)
GetMsgQuietly(c) ==
    /\ Running /\ pump[c].read
    /\ pump' = [pump EXCEPT ![c].read = FALSE]

GetMsg(c) ==
    /\ Running /\ pump[c].read
    /\ pump' = [pump EXCEPT ![c].read = FALSE, ![c].consumed = TRUE]

(* The text the parser makes of a line: the line itself, or, if it holds   *)
(* no FIX message, what the variable held before.                          *)
Parsed(c, old) == IF pump[c].log[pump[c].pos] = "junk" THEN old ELSE pump[c].pos

(* A message is taken and parsed; an empty text makes setString throw,     *)
(* which ends the process.                                                 *)
GetFirst(c) ==
    /\ disp[c].pc = "first" /\ GetMsg(c)
    /\ \/ /\ pump[c].code = "ok" /\ Parsed(c, disp[c].text1) # 0
          /\ disp' = [disp EXCEPT ![c].text1 = Parsed(c, @), ![c].pc = "second"]
          /\ fix' = fix
       \/ /\ pump[c].code = "ok" /\ Parsed(c, disp[c].text1) = 0
          /\ fix' = <<"aborted">> /\ disp' = disp
       \/ /\ pump[c].code = "eof"
          /\ disp' = [disp EXCEPT ![c].pc = "ended"]
          /\ fix' = fix
    /\ UNCHANGED <<known, out, logons, ids>>

GetSecond(c) ==
    /\ disp[c].pc = "second" /\ GetMsg(c)
    /\ \/ /\ pump[c].code = "ok" /\ Parsed(c, disp[c].text2) # 0
          /\ disp' = [disp EXCEPT ![c].text2 = Parsed(c, @), ![c].pc = "send1"]
          /\ fix' = fix
       \/ /\ pump[c].code = "ok" /\ Parsed(c, disp[c].text2) = 0
          /\ fix' = <<"aborted">> /\ disp' = disp
       \/ /\ pump[c].code = "eof"
          /\ disp' = [disp EXCEPT ![c].pc = "ended"]
          /\ fix' = fix
    /\ UNCHANGED <<known, out, logons, ids>>

(* dispatch sends a FIX 4.2 snapshot or an incremental refresh.            *)
Sendable(kind) == kind \in {"snapshot42", "incremental"}

Dispatch(c, line) ==
    out' = IF Sendable(pump[c].log[line])
           THEN [out EXCEPT ![c] = Append(@, line)] ELSE out

(* Mutant: the second of a pair is sent first.                             *)
SendFirstSwapped(c) ==
    /\ Running /\ disp[c].pc = "send1"
    /\ Dispatch(c, disp[c].text2)
    /\ disp' = [disp EXCEPT ![c].pc = "send2", ![c].text2 = disp[c].text1]
    /\ UNCHANGED <<fix, known, pump, logons, ids>>

SendFirst(c) ==
    /\ Running /\ disp[c].pc = "send1"
    /\ Dispatch(c, disp[c].text1)
    /\ disp' = [disp EXCEPT ![c].pc = "send2"]
    /\ UNCHANGED <<fix, known, pump, logons, ids>>

SendSecond(c) ==
    /\ Running /\ disp[c].pc = "send2"
    /\ Dispatch(c, disp[c].text2)
    /\ disp' = [disp EXCEPT ![c].pc = "head"]
    /\ UNCHANGED <<fix, known, pump, logons, ids>>

DispRun(c) ==
    DispHead(c) \/ GetFirst(c) \/ GetSecond(c) \/ SendFirst(c) \/ SendSecond(c)

---------------------------------------------------------------------------
Callback(c) ==
    \/ OnLogon(c) \/ OnLogout(c)
    \/ \E log \in Logs : MarketDataRequest(c, log)
    \/ MarketDataRequestUnreadable(c)
    \/ NewOrderSingle(c) \/ NewOrderSingle43(c)

Joins(c) == PumpJoined(c) \/ DispJoined(c)

Next ==
    \E c \in Clients : Callback(c) \/ Joins(c) \/ PumpRun(c) \/ DispRun(c)

(* The threads run; clients owe nothing.                                   *)
Spec ==
    /\ Init /\ [][Next]_vars
    /\ \A c \in Clients : WF_vars(Joins(c)) /\ WF_vars(PumpRun(c)) /\ WF_vars(DispRun(c))

---------------------------------------------------------------------------
(* The numbers in lines are those of the market data among the first n     *)
(* lines of the log, each once and in the log's order.                     *)
Replayed(lines, log, n) ==
    /\ \A i, j \in DOMAIN lines : i < j => lines[i] < lines[j]
    /\ {lines[i] : i \in DOMAIN lines} = {k \in 1 .. n : Sendable(log[k])}

Clean(log) == \A i \in DOMAIN log : log[i] # "junk"

(* What a client gets is a beginning of the log's market data, in the      *)
(* log's order, with no line missing or repeated, however the two threads  *)
(* alternate on the slot and whenever a logout stops them. (A line without *)
(* a FIX message makes the dispatcher send an earlier line again.)         *)
ReplaysInOrder ==
    \A c \in Clients :
        disp[c].pc # "off" /\ Clean(pump[c].log) =>
            \E n \in 0 .. Len(pump[c].log) : Replayed(out[c], pump[c].log, n)

(* At the end of the log everything has been sent, but the last line of a  *)
(* log with an odd number of lines, which never finds its partner.         *)
OnlyOddLineMissing ==
    \A c \in Clients :
        LET log == pump[c].log
        IN  disp[c].pc = "ended" /\ Clean(log) =>
                Replayed(out[c], log, Len(log) - (Len(log) % 2))

(* A replay that is not stopped comes to its end.                          *)
ReplayEnds ==
    \A c \in Clients :
        disp[c].pc = "head" ~> disp[c].pc = "ended" \/ pump[c].stop \/ ~Running

(* MP::stop joins the pump without waking it. That ends nevertheless, as   *)
(* the dispatcher goes on emptying the slot (if it was started at all).    *)
PumpStops ==
    \A c \in Clients :
        fix = <<"joinPump", c>> /\ disp[c].pc # "none" ~> fix # <<"joinPump", c>>
=============================================================================
