-------------------------- MODULE TradeSerializer --------------------------
(***************************************************************************)
(* The trade serializer: it reads three-part messages (strategy id,        *)
(* message type, body) from its DEALER socket and turns each into          *)
(* statements on the tables order_state and trades, each committed on its  *)
(* own.  A statement that throws is logged and skipped.                    *)
(*                                                                         *)
(* The loop of handleOrders takes three parts at a time and looks at       *)
(* ZMQ_RCVMORE only to decide which of two nested loops to go round, so    *)
(* what it sees is a stream of parts.  A body is a new_order_single (the   *)
(* gateway's request) or an execution_report (the venue's report).         *)
(***************************************************************************)
EXTENDS Integers, Sequences, PartialFunctions

CONSTANTS NO_SID, NO_OID,
          MaxSqlErrors,   \* bound: statements that throw
          MaxAborts       \* bound: ends of the process

VARIABLES
  wire,        \* parts on their way from the gateway
  serUp,       \* handleOrders is running
  strategyId,  \* its strategy_id, which keeps its value between messages
  todo,        \* statements the current message still has to execute
  orders,      \* order_state: <<strategy_id, cl_order_id>> -> order_status
  trades,      \* the rows of trades, in insertion order
  sqlErrors, aborts

db == <<orders, trades>>
serVars == <<serUp, strategyId, todo, db, sqlErrors, aborts>>

SerInit ==
  /\ serUp = TRUE /\ strategyId = NO_SID /\ todo = <<>>
  /\ orders = EmptyFcn /\ trades = <<>>
  /\ sqlErrors = 0 /\ aborts = 0

\* insertOrder, for a new_order_single and for an execution_report.
InsertNew(s, oid) == [op |-> "insert", sid |-> s, oid |-> oid, arg |-> "NEW"]
InsertReplacement(s, oid) == [op |-> "insert", sid |-> s, oid |-> oid, arg |-> "NEW"]
SetStatus(s, oid, st) == [op |-> "status", sid |-> s, oid |-> oid, arg |-> st]
InsertTrade(s, oid, exec) == [op |-> "trade", sid |-> s, oid |-> oid, arg |-> exec]

\* Mutant: a cancellation is recorded under the id of the cancel request.
UpdateOrderCancelsRequest(s, oid, er) ==
  CASE er.status = "REPLACE" ->
         <<InsertReplacement(s, oid), SetStatus(s, er.orig, "CANCELLED")>>
    [] er.status \in {"CANCELLED", "REJECTED"} -> <<SetStatus(s, oid, er.status)>>
    [] er.status = "FILL" ->
         <<SetStatus(s, oid, "FILL"), InsertTrade(s, oid, er.exec)>>
    [] er.status = "PARTIAL_FILL" -> <<InsertTrade(s, oid, er.exec)>>
    [] OTHER -> <<>>

\* Mutant: a full fill goes on into the branch of the partial fill.
UpdateOrderFallsThrough(s, oid, er) ==
  CASE er.status = "FILL" ->
         <<SetStatus(s, oid, "FILL"), InsertTrade(s, oid, er.exec), InsertTrade(s, oid, er.exec)>>
    [] OTHER -> UpdateOrderCancelsRequest(s, oid, er)

\* Mutant: the replaced order is cancelled before its replacement is inserted.
UpdateOrderCancelsFirst(s, oid, er) ==
  CASE er.status = "REPLACE" ->
         <<SetStatus(s, er.orig, "CANCELLED"), InsertReplacement(s, oid)>>
    [] er.status \in {"CANCELLED", "REJECTED"} -> <<SetStatus(s, er.orig, er.status)>>
    [] OTHER -> UpdateOrderCancelsRequest(s, oid, er)

\* updateOrder: the statements an execution report asks for.  NEW and the
\* pending states ask for none; DONE_FOR_DAY, EXPIRED and the other states
\* are reported as unknown and ask for none either.
UpdateOrder(s, oid, er) ==
  CASE er.status = "REPLACE" ->
         <<InsertReplacement(s, oid), SetStatus(s, er.orig, "CANCELLED")>>
    [] er.status \in {"CANCELLED", "REJECTED"} ->
         <<SetStatus(s, er.orig, er.status)>>
    [] er.status = "FILL" ->
         <<SetStatus(s, oid, "FILL"), InsertTrade(s, oid, er.exec)>>
    [] er.status = "PARTIAL_FILL" ->
         <<InsertTrade(s, oid, er.exec)>>
    [] OTHER -> <<>>

\* strategy_id.set refuses a part that is not as long as a UUID.
StrategyIdFrom(p) == IF p.part = "sid" THEN p.val ELSE strategyId

\* The first bytes of a UUID or of a protobuf are no message type.
TypeFrom(p) == IF p.part = "type" THEN p.val ELSE "unknown"

IsExecReport(p) == p.part = "body" /\ "kind" \in DOMAIN p.val

\* Every protobuf field is optional, so either body parses as either message;
\* cl_order_id is field 1 of both, and a new_order_single has no field that
\* reads as an order_status.  The bytes of a UUID may parse by chance, as a
\* message without a usable cl_order_id; those of a message type never do.
MayParse(type, p) == type = "unknown" \/ p.part # "type"
MayNotParse(type, p) == type # "unknown" /\ p.part # "body"

OidIn(p) == IF p.part = "body" THEN p.val.oid ELSE NO_OID

Statements(s, type, p) ==
  CASE type = "ORDER_NEW" -> <<InsertNew(s, OidIn(p))>>
    [] type = "EXEC_RPT" /\ IsExecReport(p) -> UpdateOrder(s, OidIn(p), p.val.body)
    [] OTHER -> <<>>

\* Asserts are on in this program: a body that does not parse ends it.
Abort ==
  /\ serUp' = FALSE /\ aborts' = aborts + 1
  /\ todo' = <<>> /\ strategyId' = NO_SID
  /\ UNCHANGED <<db, sqlErrors>>

\* One round of handleOrders up to the first statement.
ReadMessage ==
  /\ serUp /\ todo = <<>> /\ Len(wire) >= 3
  /\ wire' = SubSeq(wire, 4, Len(wire))
  /\ LET type == TypeFrom(wire[2])
         sid  == StrategyIdFrom(wire[1])
     IN  \/ MayNotParse(type, wire[3]) /\ Abort
         \/ /\ MayParse(type, wire[3])
            /\ strategyId' = sid
            /\ todo' = Statements(sid, type, wire[3])
            /\ UNCHANGED <<serUp, db, sqlErrors, aborts>>

\* insertOrder: the primary key refuses a second row for the same order.
\* setOrderStatus: no row, no update.  insertTrade: always a new row.
Execute(st) ==
  LET key == <<st.sid, st.oid>>
  IN  CASE st.op = "insert" ->
             /\ orders' = IF key \in DOMAIN orders THEN orders ELSE Put(orders, key, st.arg)
             /\ UNCHANGED trades
        [] st.op = "status" ->
             /\ orders' = IF key \in DOMAIN orders THEN Put(orders, key, st.arg) ELSE orders
             /\ UNCHANGED trades
        [] st.op = "trade" ->
             /\ trades' = Append(trades, [sid |-> st.sid, oid |-> st.oid, exec |-> st.arg])
             /\ UNCHANGED orders

RunStatement ==
  /\ serUp /\ todo # <<>>
  /\ Execute(Head(todo))
  /\ todo' = Tail(todo)
  /\ UNCHANGED <<wire, serUp, strategyId, sqlErrors, aborts>>

\* The statement throws: nothing changes and the next one is tried.  If
\* prepareStatement threw, setOrderStatus deletes an uninitialised pointer.
StatementThrows ==
  /\ serUp /\ todo # <<>> /\ sqlErrors < MaxSqlErrors
  /\ sqlErrors' = sqlErrors + 1
  /\ \/ /\ todo' = Tail(todo)
        /\ UNCHANGED <<serUp, strategyId, aborts>>
     \/ /\ Head(todo).op = "status"
        /\ serUp' = FALSE /\ aborts' = aborts + 1 /\ todo' = <<>> /\ strategyId' = NO_SID
  /\ UNCHANGED <<wire, db>>

\* The process ends, between two statements too; messages it had received
\* but not read are lost with it, those still at the gateway are not.
SerKilled ==
  /\ serUp /\ aborts < MaxAborts
  /\ wire' \in {wire, <<>>}
  /\ Abort

SerStart ==
  /\ ~serUp
  /\ serUp' = TRUE
  /\ UNCHANGED <<wire, strategyId, todo, db, sqlErrors, aborts>>

SerNext == ReadMessage \/ RunStatement \/ StatementThrows \/ SerKilled \/ SerStart
=============================================================================
