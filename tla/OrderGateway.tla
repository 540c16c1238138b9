---------------------------- MODULE OrderGateway ----------------------------
(***************************************************************************)
(* The order gateway order-fix: one process between trading strategies     *)
(* (ZMQ clients), a venue (a FIX session) and the trade serializer.        *)
(*                                                                         *)
(* Two threads work on the same objects.  The main thread (MsgProcessor::  *)
(* run) polls the strategies' socket and the inproc socket, remembers who  *)
(* owns an order, sends it to the venue and hands it to the serializer.    *)
(* The FIX thread (Application::onMessage) looks up the owner of a report, *)
(* puts the report on the inproc socket for the main thread to route, and  *)
(* hands it to the serializer.  The initiator starts the FIX thread before *)
(* the main thread has made the MsgProcessor and its sockets.              *)
(*                                                                         *)
(* A multi-part ZMQ message is flushed to the peer with its last part;     *)
(* both threads write the parts of their messages to one serialization     *)
(* socket.  A crash loses the memory and the connections of the process;   *)
(* the strategy route file survives it, the order cache does not.          *)
(*                                                                         *)
(* The ping thread, which answers every ping and touches nothing else, and *)
(* logging are left out.                                                   *)
(***************************************************************************)
EXTENDS Integers, Sequences, PartialFunctions

CONSTANTS
  Strategy,     \* strategy ids
  OrderId,      \* client order ids (UUIDs, generated per request)
  Request,      \* the requests strategies may send: see ReqShape
  AdminType,    \* the other messages they may send: a subset of AdminTypes
  ReportBody,   \* what the venue may say in a report, besides its order id
  NO_SID,       \* the null strategy id
  NO_OID,       \* no order id
  NO_BODY,      \* no report
  AssertsOn,    \* built with dbg=1; the default build defines NDEBUG
  FileStore,    \* the FIX session keeps its messages in a file store and
                \* does not reset its sequence numbers at logon
  MaxRoute,     \* bound: connections made
  MaxPending,   \* bound: strategy messages waiting, and messages at the
                \* inproc socket when a strategy asks for an acknowledgement
  MaxFrames,    \* bound: frames one orphan leaves at the inproc socket; no
                \* message has more than two
  MaxReports,   \* bound: reports sent by the venue
  MaxCrashes    \* bound: ends of the process

AdminTypes == {"STRATEGY_HELO", "HEARTBEAT", "BAD"}

RequestType == {"ORDER_NEW", "ORDER_CANCEL", "ORDER_REPLACE", "ORDER_STATUS"}

\* good: whether the body parses as the protobuf its type announces.
ReqShape ==
  [oid : OrderId, type : RequestType, orig : OrderId \cup {NO_OID},
   sid : Strategy, good : BOOLEAN]

ASSUME GatewayAssumption ==
  /\ NO_SID \notin Strategy /\ NO_OID \notin OrderId /\ NO_BODY \notin ReportBody
  /\ Request \subseteq ReqShape /\ AdminType \subseteq AdminTypes
  /\ \A q, r \in Request : q.oid = r.oid => q = r
  /\ AssertsOn \in BOOLEAN /\ FileStore \in BOOLEAN
  /\ MaxRoute \in Nat /\ MaxPending \in Nat /\ MaxFrames \in Nat
  /\ MaxReports \in Nat /\ MaxCrashes \in Nat

VARIABLES
  phase,      \* how far Application::run got
  death,      \* why the process ended
  crashes,    \* how often it ended
  scache,     \* KStrategyCache: strategy id -> route
  cacheFile,  \* what SC.<venue>.cache holds
  ocache,     \* KOrderCache: order id -> strategy id
  main,       \* the main thread: where it is, on which request, and whether
              \* the last poll reported the inproc socket readable
  fix,        \* the FIX thread: where it is, on which report, for whom
  clientQ,    \* messages waiting at the strategies' ROUTER socket
  internalQ,  \* messages waiting at the inproc socket
  pending,    \* parts written to the serialization socket, not yet flushed
  wire,       \* parts on their way to the trade serializer
  logged,     \* the FIX session is logged on
  store,      \* requests the FIX session stored but could not send
  sent,       \* requests the venue got, in order; dup: as a possible duplicate
  sentNow,    \* order ids handed to the venue since the process started
  fromVenue,  \* reports the FIX session has not finished delivering
  reports,    \* how many reports the venue sent
  conn,       \* strategy -> the route of its connection, 0 if none
  routes,     \* route -> the strategy that connected with it
  used,       \* requests the strategies have sent
  delivered   \* what the ROUTER socket passed on in this round, and to whom

life     == <<phase, death, crashes>>
caches   == <<scache, cacheFile, ocache>>
serial   == <<pending, wire>>
session  == <<logged, store, sent, sentNow>>
venue    == <<fromVenue, reports>>
clients  == <<conn, routes, used>>
vars     == <<life, caches, main, fix, clientQ, internalQ, serial, session, venue,
              clients, delivered>>

NoReq == [oid |-> NO_OID, type |-> "NONE", orig |-> NO_OID, sid |-> NO_SID, good |-> FALSE]

\* kind: an ExecutionReport or an OrderCancelReject.
Report == [kind : {"EXEC_RPT", "ORDER_CANCEL_REJ"}, oid : OrderId, body : ReportBody]

NoRpt == [kind |-> "NONE", oid |-> NO_OID, body |-> NO_BODY]

MainAt(where, req, more) == [at |-> where, req |-> req, internal |-> more]
MainIdle == MainAt("poll", NoReq, FALSE)
FixIdle == [at |-> "idle", rpt |-> NoRpt, sid |-> NO_SID]

Init ==
  /\ phase = "down" /\ death = "none" /\ crashes = 0
  /\ scache = EmptyFcn /\ cacheFile = EmptyFcn /\ ocache = EmptyFcn
  /\ main = MainIdle /\ fix = FixIdle
  /\ clientQ = <<>> /\ internalQ = <<>> /\ pending = <<>> /\ wire = <<>>
  /\ logged = FALSE /\ store = <<>> /\ sent = <<>> /\ sentNow = {}
  /\ fromVenue = <<>> /\ reports = 0
  /\ conn = [s \in Strategy |-> 0] /\ routes = <<>> /\ used = {} /\ delivered = {}

-----------------------------------------------------------------------------
(* The life of the process *)

\* main() starts the FIX initiator, then calls Application::run.
Start ==
  /\ phase = "down" /\ crashes <= MaxCrashes
  /\ phase' = "starting" /\ death' = "none"
  /\ UNCHANGED <<crashes, caches, main, fix, clientQ, internalQ, serial, session,
                 venue, clients, delivered>>

\* run() makes the MsgProcessor: from here on the FIX thread finds one.
MakeMsgProcessor ==
  /\ phase = "starting"
  /\ phase' = "init"
  /\ UNCHANGED <<death, crashes, caches, main, fix, clientQ, internalQ, serial, session,
                 venue, clients, delivered>>

\* MsgProcessor::init reads the route file and binds; run() then makes the
\* reply and the serialization socket and enters the poll loop.
FinishInit ==
  /\ phase = "init"
  /\ phase' = "running"
  /\ scache' = cacheFile
  /\ UNCHANGED <<death, crashes, cacheFile, ocache, main, fix, clientQ, internalQ, serial,
                 session, venue, clients, delivered>>

\* The process ends: its memory, its sockets and their unflushed parts are
\* gone.  The FIX store keeps what it has, and the venue will send again what
\* the session had not finished delivering, only with a file store.
Die(why) ==
  /\ phase' = "down" /\ death' = why /\ crashes' = crashes + 1
  /\ scache' = EmptyFcn /\ ocache' = EmptyFcn
  /\ main' = MainIdle /\ fix' = FixIdle
  /\ clientQ' = <<>> /\ internalQ' = <<>> /\ pending' = <<>>
  /\ logged' = FALSE /\ sentNow' = {}
  /\ store' = IF FileStore THEN store ELSE <<>>
  /\ fromVenue' = IF FileStore THEN fromVenue ELSE <<>>
  /\ conn' = [s \in Strategy |-> 0] /\ delivered' = {}
  /\ UNCHANGED <<cacheFile, wire, sent, reports, routes, used>>

\* Killed, or stopped by signal_handler.
Kill == phase # "down" /\ crashes < MaxCrashes /\ Die("killed")

-----------------------------------------------------------------------------
(* Strategies: the environment at the ROUTER socket *)

MayQueue == phase = "running" /\ Len(clientQ) < MaxPending

\* A connection gets a fresh identity from the ROUTER socket.
Connect(s) ==
  /\ phase = "running" /\ Len(routes) < MaxRoute
  /\ routes' = Append(routes, s)
  /\ conn' = [conn EXCEPT ![s] = Len(routes')]
  /\ UNCHANGED <<life, caches, main, fix, clientQ, internalQ, serial, session, venue, used,
                 delivered>>

ClientMsg(type, s, req) == [type |-> type, sid |-> s, route |-> conn[s], req |-> req]

\* STRATEGY_HELO, HEARTBEAT, or a message whose type frame is too short.
SendAdmin(s, type) ==
  /\ MayQueue /\ conn[s] # 0
  /\ type # "BAD" => Len(internalQ) <= MaxPending
  /\ clientQ' = Append(clientQ, ClientMsg(type, s, NoReq))
  /\ UNCHANGED <<life, caches, main, fix, internalQ, serial, session, venue, clients, delivered>>

\* A request; one that refers to another order follows that order.
SendRequest(req) ==
  /\ MayQueue /\ conn[req.sid] # 0 /\ req \notin used
  /\ req.orig # NO_OID => \E q \in used : q.oid = req.orig
  /\ used' = used \cup {req}
  /\ clientQ' = Append(clientQ, ClientMsg("ORDER", req.sid, req))
  /\ UNCHANGED <<life, caches, main, fix, internalQ, serial, session, venue, conn, routes,
                 delivered>>

-----------------------------------------------------------------------------
(* The FIX session and the venue (external) *)

\* On logon the venue asks for the messages it missed.  toApp looks for
\* PossDupFlag in the body, where it never is (and would catch its own
\* DoNotSend), so the stored requests go out as possible duplicates.
Resent(requests) == [i \in DOMAIN requests |-> [req |-> requests[i], dup |-> TRUE]]

Logon ==
  /\ phase # "down" /\ ~logged
  /\ logged' = TRUE
  /\ sent' = sent \o Resent(store)
  /\ store' = <<>>
  /\ UNCHANGED <<life, caches, main, fix, clientQ, internalQ, serial, sentNow, venue, clients,
                 delivered>>

Logout ==
  /\ logged
  /\ logged' = FALSE
  /\ UNCHANGED <<life, caches, main, fix, clientQ, internalQ, serial, store, sent, sentNow,
                 venue, clients, delivered>>

\* The venue reports on a request it got.
VenueReport(rpt) ==
  /\ logged /\ reports < MaxReports
  /\ \E i \in DOMAIN sent : sent[i].req.oid = rpt.oid
  /\ reports' = reports + 1
  /\ fromVenue' = Append(fromVenue, rpt)
  /\ UNCHANGED <<life, caches, main, fix, clientQ, internalQ, serial, session, clients, delivered>>

-----------------------------------------------------------------------------
(* The main thread: MsgProcessor::run *)

\* zmq_poll returns with the readable sockets.
Poll ==
  /\ phase = "running" /\ main.at = "poll"
  /\ clientQ # <<>> \/ internalQ # <<>>
  /\ main' = MainAt(IF clientQ # <<>> THEN "client" ELSE "internal", NoReq, internalQ # <<>>)
  /\ delivered' = {}
  /\ UNCHANGED <<life, caches, fix, clientQ, internalQ, serial, session, venue, clients>>

\* Mutant: the loop polls again after every strategy message.
AfterClientPolls == MainIdle

\* After the strategy message the loop serves the inproc socket if the poll
\* reported it.
AfterClient == IF main.internal THEN MainAt("internal", NoReq, TRUE) ELSE MainIdle

Reply(s, kind, rpt) == [sid |-> s, kind |-> kind, rpt |-> rpt]

\* A type frame shorter than an int: the rest of the message is drained.
HandleBad ==
  /\ main.at = "client" /\ Head(clientQ).type = "BAD"
  /\ clientQ' = Tail(clientQ)
  /\ main' = AfterClient
  /\ UNCHANGED <<life, caches, fix, internalQ, serial, session, venue, clients, delivered>>

\* STRATEGY_HELO: the route is cached and the cache file opened for writing,
\* which empties it; the few entries reach it when it is closed.
HandleHelo ==
  /\ main.at = "client" /\ Head(clientQ).type = "STRATEGY_HELO"
  /\ scache' = Put(scache, Head(clientQ).sid, Head(clientQ).route)
  /\ cacheFile' = EmptyFcn
  /\ main' = [main EXCEPT !.at = "helo"]
  /\ UNCHANGED <<life, ocache, fix, clientQ, internalQ, serial, session, venue, clients, delivered>>

\* Mutant: the emptied file gets the new entry only.
FinishHeloOneEntry ==
  /\ main.at = "helo"
  /\ cacheFile' = Put(EmptyFcn, Head(clientQ).sid, Head(clientQ).route)
  /\ internalQ' = Append(internalQ, Reply(Head(clientQ).sid, "STRATEGY_HELO_ACK", NoRpt))
  /\ clientQ' = Tail(clientQ)
  /\ main' = AfterClient
  /\ UNCHANGED <<life, scache, ocache, fix, serial, session, venue, clients, delivered>>

\* The file is closed, and only then the HELO is acknowledged.
FinishHelo ==
  /\ main.at = "helo"
  /\ cacheFile' = scache
  /\ internalQ' = Append(internalQ, Reply(Head(clientQ).sid, "STRATEGY_HELO_ACK", NoRpt))
  /\ clientQ' = Tail(clientQ)
  /\ main' = AfterClient
  /\ UNCHANGED <<life, scache, ocache, fix, serial, session, venue, clients, delivered>>

HandleHeartbeat ==
  /\ main.at = "client" /\ Head(clientQ).type = "HEARTBEAT"
  /\ internalQ' = Append(internalQ, Reply(Head(clientQ).sid, "HEARTBEAT_ACK", NoRpt))
  /\ clientQ' = Tail(clientQ)
  /\ main' = AfterClient
  /\ UNCHANGED <<life, caches, fix, serial, session, venue, clients, delivered>>

\* The assertion on the message types lets no ORDER_STATUS through.
HandleOrder ==
  /\ main.at = "client" /\ Head(clientQ).type = "ORDER"
  /\ IF AssertsOn /\ Head(clientQ).req.type = "ORDER_STATUS"
     THEN Die("assert_type")
     ELSE /\ main' = [main EXCEPT !.at = "add", !.req = Head(clientQ).req]
          /\ clientQ' = Tail(clientQ)
          /\ UNCHANGED <<life, caches, fix, internalQ, serial, session, venue, clients, delivered>>

\* The FIX session sends the request, or stores it until the next logon.
SendToTarget(req) ==
  /\ sentNow' = sentNow \cup {req.oid}
  /\ IF logged
     THEN sent' = Append(sent, [req |-> req, dup |-> FALSE]) /\ UNCHANGED store
     ELSE store' = Append(store, req) /\ UNCHANGED sent

\* Mutant: a request is sent first and enters the cache afterwards.
CacheOrderLate ==
  /\ main.at = "add"
  /\ IF main.req.oid \in sentNow
     THEN /\ ocache' = Put(ocache, main.req.oid, main.req.sid)
          /\ main' = [main EXCEPT !.at = "ser1"]
          /\ UNCHANGED <<sent, store, sentNow>>
     ELSE SendToTarget(main.req) /\ UNCHANGED <<ocache, main>>
  /\ UNCHANGED <<life, scache, cacheFile, fix, clientQ, internalQ, serial, logged, venue,
                 clients, delivered>>

\* The order and its owner enter the cache before the order is dispatched.
CacheOrder ==
  /\ main.at = "add"
  /\ ocache' = Put(ocache, main.req.oid, main.req.sid)
  /\ main' = [main EXCEPT !.at = "dispatch"]
  /\ UNCHANGED <<life, scache, cacheFile, fix, clientQ, internalQ, serial, session, venue,
                 clients, delivered>>

\* Only a new order is serialized, and whether or not it could be sent.
NewOrderSingle42(req) == SendToTarget(req) /\ main' = [main EXCEPT !.at = "ser1"]

OrderCancel42(req) == SendToTarget(req) /\ main' = AfterClient

OrderCancelReplace42(req) == SendToTarget(req) /\ main' = AfterClient

OrderStatus42(req) == SendToTarget(req) /\ main' = AfterClient

\* Application::dispatch.  Every protobuf field is optional, so a body that
\* does not parse as its own type parses as none of those tried after it.
Dispatch ==
  /\ main.at = "dispatch"
  /\ LET req == main.req
     IN  IF req.good
         THEN \/ req.type = "ORDER_NEW" /\ NewOrderSingle42(req)
              \/ req.type = "ORDER_CANCEL" /\ OrderCancel42(req)
              \/ req.type = "ORDER_REPLACE" /\ OrderCancelReplace42(req)
              \/ req.type = "ORDER_STATUS" /\ OrderStatus42(req)
         ELSE main' = AfterClient /\ UNCHANGED <<sent, store, sentNow>>
  /\ UNCHANGED <<life, caches, fix, clientQ, internalQ, serial, logged, venue, clients, delivered>>

SidPart(s) == [part |-> "sid", val |-> s]
TypePart(t) == [part |-> "type", val |-> t]
BodyPart(b) == [part |-> "body", val |-> b]

\* A part with ZMQ_SNDMORE waits for the last part of its message.
WritePart(part) == pending' = Append(pending, part) /\ UNCHANGED wire
WriteLastPart(part) == wire' = wire \o Append(pending, part) /\ pending' = <<>>

\* send_to_serialization_service(new_order_single)
MainSerialize ==
  /\ \/ main.at = "ser1" /\ WritePart(SidPart(main.req.sid))
        /\ main' = [main EXCEPT !.at = "ser2"]
     \/ main.at = "ser2" /\ WritePart(TypePart("ORDER_NEW"))
        /\ main' = [main EXCEPT !.at = "ser3"]
     \/ main.at = "ser3" /\ WriteLastPart(BodyPart(main.req))
        /\ main' = AfterClient
  /\ UNCHANGED <<life, caches, fix, clientQ, internalQ, session, venue, clients, delivered>>

\* Mutant: what belongs to nobody goes to everybody.
RouteOfBroadcast(sid) ==
  IF sid \in DOMAIN scache THEN {scache[sid]} ELSE {scache[s] : s \in DOMAIN scache}

\* KStrategyCache::get: the route, or none.
RouteOf(sid) == IF sid \in DOMAIN scache THEN {scache[sid]} ELSE {}

\* The frames of a message behind its strategy id.
FramesBehindSid(kind) ==
  CASE kind = "FRAME" -> 0 [] kind = "HEARTBEAT_ACK" -> 1 [] OTHER -> 2

\* An orphan's other frames stay at the socket, each to be taken for a
\* strategy id; of the wrong length for one, they are read as the null id.
Leftover(m) ==
  [i \in (1 .. FramesBehindSid(m.kind)) \cap (1 .. MaxFrames) |-> Reply(NO_SID, "FRAME", NoRpt)]

\* rcv_internal: the message goes to the route cached for its strategy; the
\* ROUTER socket drops it if no connection has that identity any more.  A
\* strategy without a route trips the assertion, or is an orphan.
RcvInternal ==
  /\ main.at = "internal"
  /\ LET m == Head(internalQ)
     IN  IF AssertsOn /\ RouteOf(m.sid) = {}
         THEN Die("assert_route")
         ELSE /\ delivered' =
                   {[to |-> s, msg |-> m] : s \in {t \in Strategy : conn[t] \in RouteOf(m.sid)}}
              /\ internalQ' = (IF RouteOf(m.sid) = {} THEN Leftover(m) ELSE <<>>) \o Tail(internalQ)
              /\ main' = MainIdle
              /\ UNCHANGED <<life, caches, fix, clientQ, serial, session, venue, clients>>

-----------------------------------------------------------------------------
(* The FIX thread: Application::onMessage *)

\* The callback returns, and only then the session counts the message as
\* delivered: a crash before that has it delivered again.
FixReturn == fix' = FixIdle /\ fromVenue' = Tail(fromVenue)

FixDone ==
  /\ fix.at = "done"
  /\ FixReturn
  /\ UNCHANGED <<life, caches, main, clientQ, internalQ, serial, session, reports, clients, delivered>>

CanDeliver == phase # "down" /\ logged /\ fix.at = "idle" /\ fromVenue # <<>>

\* No MsgProcessor yet: the report is logged and dropped.
FixDrop ==
  /\ CanDeliver /\ phase = "starting"
  /\ FixReturn
  /\ UNCHANGED <<life, caches, main, clientQ, internalQ, serial, session, reports, clients, delivered>>

\* A MsgProcessor, but no sockets yet.
FixUnsetSocket == CanDeliver /\ phase = "init" /\ Die("unset_socket")

\* Mutant: an order that is not in the cache is taken for its own owner.
OwnerUnchecked(oid) == IF oid \in DOMAIN ocache THEN ocache[oid] ELSE oid

Owner(oid) == IF oid \in DOMAIN ocache THEN ocache[oid] ELSE NO_SID

\* The owner is looked up; unknown, the report goes on with the null id.
FixLookup ==
  /\ CanDeliver /\ phase = "running"
  /\ fix' = [at |-> "reply", rpt |-> Head(fromVenue), sid |-> Owner(Head(fromVenue).oid)]
  /\ UNCHANGED <<life, caches, main, clientQ, internalQ, serial, session, venue, clients, delivered>>

\* Looking up while the main thread inserts (and perhaps rehashes) is a data
\* race: the entry may be missed, or a freed table read.
FixLookupRace ==
  /\ CanDeliver /\ phase = "running" /\ main.at = "add"
  /\ \/ /\ fix' = [at |-> "reply", rpt |-> Head(fromVenue), sid |-> NO_SID]
        /\ UNCHANGED <<life, caches, main, clientQ, internalQ, serial, session, venue, clients,
                       delivered>>
     \/ Die("race")

\* The reply socket carries the report; only execution reports are serialized.
FixReply ==
  /\ fix.at = "reply"
  /\ internalQ' = Append(internalQ, Reply(fix.sid, fix.rpt.kind, fix.rpt))
  /\ fix' = [fix EXCEPT !.at = IF fix.rpt.kind = "EXEC_RPT" THEN "ser1" ELSE "done"]
  /\ UNCHANGED <<life, caches, main, clientQ, serial, session, venue, clients, delivered>>

\* send_to_serialization_service(execution_report)
FixSerialize ==
  /\ \/ fix.at = "ser1" /\ WritePart(SidPart(fix.sid))
        /\ fix' = [fix EXCEPT !.at = "ser2"]
     \/ fix.at = "ser2" /\ WritePart(TypePart("EXEC_RPT"))
        /\ fix' = [fix EXCEPT !.at = "ser3"]
     \/ fix.at = "ser3" /\ WriteLastPart(BodyPart(fix.rpt))
        /\ fix' = [fix EXCEPT !.at = "done"]
  /\ UNCHANGED <<life, caches, main, clientQ, internalQ, session, venue, clients, delivered>>

-----------------------------------------------------------------------------
MainStep ==
  \/ Poll \/ HandleBad \/ HandleHelo \/ FinishHelo \/ HandleHeartbeat \/ HandleOrder
  \/ CacheOrder \/ Dispatch \/ MainSerialize \/ RcvInternal

FixStep ==
  FixDrop \/ FixUnsetSocket \/ FixLookup \/ FixLookupRace \/ FixReply \/ FixSerialize
  \/ FixDone

Process == Start \/ MakeMsgProcessor \/ FinishInit \/ Kill

Strategies ==
  \/ \E s \in Strategy : Connect(s)
  \/ \E s \in Strategy, type \in AdminType : SendAdmin(s, type)
  \/ \E req \in Request : SendRequest(req)

Next ==
  \/ Process \/ Strategies \/ MainStep \/ FixStep \/ Logon \/ Logout
  \/ \E rpt \in Report : VenueReport(rpt)

Spec == Init /\ [][Next]_vars

\* The two threads never work at the same time: the FIX thread is called
\* back only while the main thread waits in zmq_poll, and the main thread
\* returns from it only when no callback is under way.
NoOverlap == (FixStep => main.at = "poll") /\ (MainStep => fix.at = "idle")

-----------------------------------------------------------------------------
(* Properties *)

ClientType == AdminTypes \cup {"ORDER"}
ReplyKind == {"STRATEGY_HELO_ACK", "HEARTBEAT_ACK", "EXEC_RPT", "ORDER_CANCEL_REJ", "FRAME"}
IsRequest(q) == q = NoReq \/ q \in Request
IsReport(r) == r = NoRpt \/ r \in Report
Routes == 0 .. MaxRoute

\* A partial function from ids to values.
IsCache(c, Ids, Vals) ==
  /\ c = [x \in DOMAIN c |-> c[x]]
  /\ DOMAIN c \subseteq Ids
  /\ \A x \in DOMAIN c : c[x] \in Vals

\* The types of the gateway's state.
TypeOK ==
  /\ phase \in {"down", "starting", "init", "running"}
  /\ death \in {"none", "killed", "unset_socket", "race", "assert_type", "assert_route"}
  /\ crashes \in Nat /\ reports \in Nat /\ logged \in BOOLEAN
  /\ IsCache(scache, Strategy, Routes) /\ IsCache(cacheFile, Strategy, Routes)
  /\ IsCache(ocache, OrderId, Strategy)
  /\ main.at \in {"poll", "client", "internal", "helo", "add", "dispatch", "ser1", "ser2", "ser3"}
  /\ IsRequest(main.req) /\ main.internal \in BOOLEAN
  /\ fix.at \in {"idle", "reply", "ser1", "ser2", "ser3", "done"}
  /\ IsReport(fix.rpt) /\ fix.sid \in Strategy \cup {NO_SID}
  /\ \A i \in DOMAIN clientQ :
       /\ clientQ[i].type \in ClientType /\ clientQ[i].sid \in Strategy
       /\ clientQ[i].route \in Routes /\ IsRequest(clientQ[i].req)
  /\ \A i \in DOMAIN internalQ :
       /\ internalQ[i].kind \in ReplyKind /\ IsReport(internalQ[i].rpt)
       /\ internalQ[i].sid \in Strategy \cup {NO_SID}
  /\ \A i \in DOMAIN sent : sent[i].req \in Request /\ sent[i].dup \in BOOLEAN
  /\ \A i \in DOMAIN store : store[i] \in Request
  /\ \A i \in DOMAIN fromVenue : fromVenue[i] \in Report
  /\ sentNow \subseteq OrderId /\ used \subseteq Request
  /\ conn \in [Strategy -> Routes] /\ routes \in Seq(Strategy)

Reports == {"EXEC_RPT", "ORDER_CANCEL_REJ"}

\* Nobody gets another strategy's messages: what a strategy receives was
\* addressed to it, and a report it receives is about a request of its own;
\* through reconnections, restarts on a route file of the previous process,
\* lookups that miss and lookups that race with an insertion.
OnlyTheOwnerIsTold ==
  \A d \in delivered :
    /\ d.msg.sid = d.to
    /\ d.msg.kind \in Reports => \E q \in Request : q.oid = d.msg.rpt.oid /\ q.sid = d.to

\* "1) lookup order id to fetch strategy id" (application.cpp:739): what is
\* found for an order this process handed to the venue is the strategy that
\* owns it, at whatever moments the other thread takes, caches and sends
\* requests.  Only a lookup during the insertion of another order may find
\* nothing, and none finds somebody else.
LookupFindsOwner ==
  [][fix.at = "idle" /\ fix'.at = "reply" /\ fix'.rpt.oid \in sentNow =>
       \/ \E q \in Request : q.oid = fix'.rpt.oid /\ q.sid = fix'.sid
       \/ main.at = "add" /\ main.req.oid # fix'.rpt.oid /\ fix'.sid = NO_SID]_vars

\* Except while a HELO is being written, the route file holds the routes the
\* running gateway uses, so a restart between two messages loses none.
RouteFileCurrent == phase = "running" /\ main.at # "helo" => cacheFile = scache

\* The poll loop serves the inproc socket however busy the strategies keep
\* the other one: a queued report is taken off it, or the process ends.
QueuedReportIsServed ==
  \A oid \in OrderId :
    (\E i \in DOMAIN internalQ : internalQ[i].rpt.oid = oid)
      ~> (phase = "down" \/ ~ \E i \in DOMAIN internalQ : internalQ[i].rpt.oid = oid)
=============================================================================
