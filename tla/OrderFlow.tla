------------------------------ MODULE OrderFlow ------------------------------
(***************************************************************************)
(* Orders end to end: strategies, the order gateway (OrderGateway), a      *)
(* venue that executes the orders, and the trade serializer                *)
(* (TradeSerializer) that records what happened to them.                   *)
(*                                                                         *)
(* The venue is external.  It takes the requests in the order the session  *)
(* carries them and reports, in FIX 4.2 terms, under the id of the request *)
(* (ClOrdID), naming the order a cancel or replace was about (OrigClOrdID).*)
(* A report it makes unasked carries the id of the order; that of an       *)
(* expired order carries it as OrigClOrdID too (ORDER_NOTES.txt).          *)
(***************************************************************************)
EXTENDS OrderGateway, FiniteSets

CONSTANTS Exec,   \* execution ids
          MaxSqlErrors, MaxAborts

VARIABLES
  serUp, strategyId, todo, orders, trades, sqlErrors, aborts,   \* TradeSerializer
  taken,       \* how many of the requests sent the venue has dealt with
  venueState,  \* order id -> what became of the order at the venue
  executed     \* the executions: exec id -> order id

Ser == INSTANCE TradeSerializer

serVars == <<serUp, strategyId, todo, orders, trades, sqlErrors, aborts>>
venueVars == <<taken, venueState, executed>>
flowVars == <<vars, serVars, venueVars>>

Status == {"NEW", "PARTIAL_FILL", "FILL", "CANCELLED", "REPLACE", "REJECTED", "EXPIRED"}

Body(status, orig, exec) == [status |-> status, orig |-> orig, exec |-> exec]

FlowBody == [status : Status, orig : OrderId \cup {NO_OID}, exec : Exec \cup {NO_OID}]

ASSUME FlowAssumption == ReportBody = FlowBody

ExecReport(oid, body) == [kind |-> "EXEC_RPT", oid |-> oid, body |-> body]
CancelReject(oid, orig) ==
  [kind |-> "ORDER_CANCEL_REJ", oid |-> oid, body |-> Body("REJECTED", orig, NO_OID)]

FlowInit ==
  /\ Init
  /\ Ser!SerInit
  /\ taken = 0 /\ venueState = EmptyFcn /\ executed = EmptyFcn

-----------------------------------------------------------------------------
(* The venue *)

IsLive(oid) == oid \in DOMAIN venueState /\ venueState[oid] = "live"

\* It deals with the next request.
NextRequest(type) ==
  /\ taken < Len(sent) /\ sent[taken + 1].req.type = type
  /\ taken' = taken + 1

TakenReq == sent[taken + 1].req

AcceptNew ==
  /\ NextRequest("ORDER_NEW")
  /\ venueState' = Put(venueState, TakenReq.oid, "live")
  /\ VenueReport(ExecReport(TakenReq.oid, Body("NEW", NO_OID, NO_OID)))
  /\ UNCHANGED executed

RejectNew ==
  /\ NextRequest("ORDER_NEW")
  /\ venueState' = Put(venueState, TakenReq.oid, "rejected")
  /\ VenueReport(ExecReport(TakenReq.oid, Body("REJECTED", NO_OID, NO_OID)))
  /\ UNCHANGED executed

DoCancel ==
  /\ NextRequest("ORDER_CANCEL") /\ IsLive(TakenReq.orig)
  /\ venueState' = Put(venueState, TakenReq.orig, "cancelled")
  /\ VenueReport(ExecReport(TakenReq.oid, Body("CANCELLED", TakenReq.orig, NO_OID)))
  /\ UNCHANGED executed

DoReplace ==
  /\ NextRequest("ORDER_REPLACE") /\ IsLive(TakenReq.orig)
  /\ venueState' = Put(Put(venueState, TakenReq.orig, "replaced"), TakenReq.oid, "live")
  /\ VenueReport(ExecReport(TakenReq.oid, Body("REPLACE", TakenReq.orig, NO_OID)))
  /\ UNCHANGED executed

TooLate ==
  /\ NextRequest("ORDER_CANCEL") \/ NextRequest("ORDER_REPLACE")
  /\ ~IsLive(TakenReq.orig)
  /\ VenueReport(CancelReject(TakenReq.oid, TakenReq.orig))
  /\ UNCHANGED <<venueState, executed>>

\* A partial execution leaves the order live, a full one does not.
ExecuteOrder(oid, exec, status) ==
  /\ IsLive(oid) /\ exec \notin DOMAIN executed
  /\ executed' = Put(executed, exec, oid)
  /\ venueState' = IF status = "FILL" THEN Put(venueState, oid, "filled") ELSE venueState
  /\ VenueReport(ExecReport(oid, Body(status, NO_OID, exec)))
  /\ UNCHANGED taken

\* Unasked: the venue cancels an order, or it expires.
Withdraw(oid) ==
  /\ IsLive(oid)
  /\ \/ /\ venueState' = Put(venueState, oid, "withdrawn")
        /\ VenueReport(ExecReport(oid, Body("CANCELLED", NO_OID, NO_OID)))
     \/ /\ venueState' = Put(venueState, oid, "expired")
        /\ VenueReport(ExecReport(oid, Body("EXPIRED", oid, NO_OID)))
  /\ UNCHANGED <<taken, executed>>

VenueNext ==
  /\ \/ AcceptNew \/ RejectNew \/ DoCancel \/ DoReplace \/ TooLate
     \/ \E oid \in OrderId, exec \in Exec, status \in {"PARTIAL_FILL", "FILL"} :
          ExecuteOrder(oid, exec, status)
     \/ \E oid \in OrderId : Withdraw(oid)
  /\ UNCHANGED serVars

-----------------------------------------------------------------------------
GatewayNext ==
  /\ Process \/ Strategies \/ MainStep \/ FixStep \/ Logon \/ Logout
  /\ UNCHANGED <<serVars, venueVars>>

SerializerNext ==
  /\ Ser!SerNext
  /\ UNCHANGED <<life, caches, main, fix, clientQ, internalQ, pending, session, venue, clients,
                 delivered, venueVars>>

FlowNext == VenueNext \/ GatewayNext \/ SerializerNext

FlowSpec == FlowInit /\ [][FlowNext]_flowVars

\* The threads of the gateway never work at the same time.
FlowSpecNoOverlap == FlowInit /\ [][FlowNext /\ NoOverlap]_flowVars

\* The threads keep running while the process lives; nothing makes a dead
\* process start again, a strategy send, or the venue answer.
FairFlowSpecNoOverlap ==
  /\ FlowSpecNoOverlap
  /\ WF_flowVars(fix.at = "idle" /\ MainStep /\ UNCHANGED <<serVars, venueVars>>)
  /\ WF_flowVars(main.at = "poll" /\ FixStep /\ UNCHANGED <<serVars, venueVars>>)

-----------------------------------------------------------------------------
(* Properties *)

\* Everything that was said has arrived.
Quiet ==
  /\ main.at = "poll" /\ fix.at = "idle" /\ serUp
  /\ clientQ = <<>> /\ fromVenue = <<>> /\ wire = <<>> /\ pending = <<>> /\ todo = <<>>

OwnerOf(oid) == (CHOOSE q \in Request : q.oid = oid).sid

RowOf(oid) == <<OwnerOf(oid), oid>>

HasStatus(oid, status) == RowOf(oid) \in DOMAIN orders /\ orders[RowOf(oid)] = status

\* What the serializer records of an order the venue holds, has executed, or
\* has cancelled or replaced on request.
Recorded ==
  [live |-> "NEW", filled |-> "FILL", cancelled |-> "CANCELLED", replaced |-> "CANCELLED"]

\* Whatever order the requests, executions and reports came in, once they
\* have all arrived order_state shows what became of each order at the
\* venue, and trades has one row for each execution, under the strategy that
\* owns the order.
DatabaseFollowsVenue ==
  Quiet =>
    /\ \A oid \in DOMAIN venueState :
         venueState[oid] \in DOMAIN Recorded => HasStatus(oid, Recorded[venueState[oid]])
    /\ \A exec \in DOMAIN executed :
         Cardinality({i \in DOMAIN trades :
           trades[i] = [sid |-> OwnerOf(executed[exec]), oid |-> executed[exec], exec |-> exec]}) = 1

\* The serializer books no execution twice and none that did not happen,
\* whatever parts the gateway's threads mix up and whichever process dies.
NoFalseTrades ==
  /\ \A i \in DOMAIN trades : trades[i].exec \in DOMAIN executed /\ executed[trades[i].exec] = trades[i].oid
  /\ \A i, j \in DOMAIN trades : trades[i].exec = trades[j].exec => i = j

\* "insert replaced order first": unless a statement throws, an order marked
\* CANCELLED because it was replaced has its replacement in order_state,
\* under the same strategy id, at every moment, whatever parts the gateway's
\* threads mix up and whichever process dies between the two statements.
ReplacementRecordedFirst ==
  sqlErrors = 0 => \A q \in used, s \in Strategy \cup {NO_SID} :
    /\ q.type = "ORDER_REPLACE" /\ q.oid \in DOMAIN venueState
    /\ <<s, q.orig>> \in DOMAIN orders /\ orders[<<s, q.orig>>] = "CANCELLED"
    => <<s, q.oid>> \in DOMAIN orders

\* "just update the status to a terminal state": an order the venue rejected
\* or cancelled, on request or not, does not stay open in order_state.
RejectedIsTerminal ==
  Quiet => \A oid \in DOMAIN venueState :
    venueState[oid] \in {"rejected", "withdrawn", "cancelled"} => ~HasStatus(oid, "NEW")
=============================================================================
