---------------------------- MODULE OrderProofs ----------------------------
(***************************************************************************)
(* What the order gateway (OrderGateway) and the composition with a venue  *)
(* and the trade serializer (OrderFlow) guarantee, for every number of     *)
(* strategies, orders, reports, executions, failures and crashes.          *)
(*                                                                         *)
(* The gateway, with its threads running at once: nobody is told about     *)
(* another strategy's orders, the route file is the cache it will be read  *)
(* back into, and what a lookup finds is the owner of the order.           *)
(*                                                                         *)
(* The serializer, with the threads of the gateway running at once: the    *)
(* trades it books are executions of the venue, each at most once; and no  *)
(* order is shown as replaced before its replacement is recorded.          *)
(*                                                                         *)
(* All of it, with threads that do not overlap and until something fails:  *)
(* the database follows the venue.                                         *)
(***************************************************************************)
EXTENDS OrderFlow, SequenceTheorems, FiniteSetTheorems, TLAPS

\* Route r was given to a connection of strategy s.
Known(r, s) == r \in 1 .. Len(routes) /\ routes[r] = s

\* Strategy s sent the request with order id oid.
Owns(s, oid) == \E q \in Request : q.oid = oid /\ q.sid = s

MainAts == {"poll", "client", "internal", "helo", "add", "dispatch", "ser1", "ser2", "ser3"}
FixAts == {"idle", "reply", "ser1", "ser2", "ser3", "done"}
Deaths == {"none", "killed", "unset_socket", "race", "assert_type", "assert_route"}

\* A message at the ROUTER socket comes from a connection of its sender.
GoodMsg ==
  {m \in [type : ClientType, sid : Strategy, route : Routes, req : Request \cup {NoReq}] :
     /\ Known(m.route, m.sid)
     /\ m.type = "ORDER" => m.req \in Request}

\* A report at the inproc socket is for nobody or for the owner of the order.
GoodReply ==
  {m \in [sid : Strategy \cup {NO_SID}, kind : ReplyKind, rpt : Report \cup {NoRpt}] :
     m.kind \in Reports => m.sid = NO_SID \/ Owns(m.sid, m.rpt.oid)}

(* The inductive invariant, in parts that share few variables. *)

LifeInv ==
  /\ phase \in {"down", "starting", "init", "running"}
  /\ death \in Deaths /\ crashes \in Nat

RouteInv ==
  /\ routes \in Seq(Strategy) /\ Len(routes) <= MaxRoute
  /\ conn \in [Strategy -> Routes]
  /\ \A s \in Strategy : conn[s] # 0 => Known(conn[s], s)
  /\ IsCache(scache, Strategy, Routes) /\ IsCache(cacheFile, Strategy, Routes)
  /\ \A s \in DOMAIN scache : Known(scache[s], s)
  /\ \A s \in DOMAIN cacheFile : Known(cacheFile[s], s)

QueueInv ==
  /\ clientQ \in Seq(GoodMsg) /\ internalQ \in Seq(GoodReply)

MainInv ==
  /\ main \in [at : MainAts, req : Request \cup {NoReq}, internal : BOOLEAN]
  /\ main.at \in {"add", "dispatch", "ser1", "ser2", "ser3"} => main.req \in Request
  /\ main.at \in {"client", "helo"} => clientQ # <<>>
  /\ main.at = "internal" \/ main.internal => internalQ # <<>>
  /\ phase # "running" => main.at = "poll"

FixInv ==
  /\ fix \in [at : FixAts, rpt : Report \cup {NoRpt}, sid : Strategy \cup {NO_SID}]
  /\ fix.at # "idle" => /\ fix.rpt \in Report
                        /\ fix.sid = NO_SID \/ Owns(fix.sid, fix.rpt.oid)
                        /\ fromVenue # <<>>
  /\ fromVenue \in Seq(Report) /\ reports \in Nat

OwnerInv ==
  /\ IsCache(ocache, OrderId, Strategy)
  /\ \A oid \in DOMAIN ocache : Owns(ocache[oid], oid)

SentMsg == [req : Request, dup : BOOLEAN]

SessionInv ==
  /\ logged \in BOOLEAN /\ store \in Seq(Request)
  /\ sent \in Seq(SentMsg)
  /\ sentNow \subseteq OrderId /\ used \subseteq Request

GInv ==
  /\ LifeInv /\ RouteInv /\ QueueInv /\ MainInv /\ FixInv /\ OwnerInv /\ SessionInv
  /\ OnlyTheOwnerIsTold /\ RouteFileCurrent

-----------------------------------------------------------------------------
\* The empty cache.
LEMMA EmptyCache ==
  ASSUME NEW Ids, NEW Vals
  PROVE  IsCache(EmptyFcn, Ids, Vals) /\ DOMAIN EmptyFcn = {}
BY DEF IsCache, EmptyFcn

\* Adding to a cache.
LEMMA PutCache ==
  ASSUME NEW Ids, NEW Vals, NEW c, IsCache(c, Ids, Vals), NEW k \in Ids, NEW v \in Vals
  PROVE  /\ IsCache(Put(c, k, v), Ids, Vals)
         /\ DOMAIN Put(c, k, v) = DOMAIN c \cup {k}
         /\ Put(c, k, v)[k] = v
         /\ \A x \in DOMAIN c : x # k => Put(c, k, v)[x] = c[x]
BY DEF IsCache, Put

\* A process that ends leaves a state it can start from again.
LEMMA DieKeeps ==
  ASSUME GInv, NEW why \in Deaths, Die(why)
  PROVE  GInv'
<1> USE GatewayAssumption
<1>1. LifeInv'
  BY DEF GInv, LifeInv, Die
<1>2. RouteInv'
  <2>1. IsCache(scache', Strategy, Routes) /\ DOMAIN scache' = {}
    BY EmptyCache DEF Die
  <2>2. conn' \in [Strategy -> Routes] /\ \A s \in Strategy : conn'[s] = 0
    BY DEF Die, Routes
  <2>3. routes' = routes /\ cacheFile' = cacheFile
    BY DEF Die
  <2> QED BY <2>1, <2>2, <2>3 DEF GInv, RouteInv, Known, IsCache
<1>3. QueueInv'
  BY DEF Die, QueueInv
<1>4. MainInv'
  BY DEF Die, MainInv, MainIdle, MainAt, MainAts
<1>5. FixInv'
  BY DEF GInv, Die, FixInv, FixIdle, FixAts
<1>6. OwnerInv'
  BY EmptyCache DEF Die, OwnerInv
<1>7. SessionInv'
  <2>1. logged' \in BOOLEAN
    BY Zenon DEF Die
  <2>2. store' \in Seq(Request)
    BY DEF GInv, Die, SessionInv
  <2>3. sentNow' \subseteq OrderId /\ sent' = sent /\ used' = used
    BY DEF Die
  <2> QED BY <2>1, <2>2, <2>3 DEF GInv, SessionInv
<1>8. OnlyTheOwnerIsTold'
  BY DEF Die, OnlyTheOwnerIsTold
<1>9. RouteFileCurrent'
  BY DEF Die, RouteFileCurrent
<1> QED BY <1>1, <1>2, <1>3, <1>4, <1>5, <1>6, <1>7, <1>8, <1>9 DEF GInv

\* Each part of the invariant depends on its own variables only.
LEMMA Frames ==
  ASSUME GInv
  PROVE  /\ UNCHANGED life => LifeInv'
         /\ UNCHANGED <<scache, cacheFile, conn, routes>> => RouteInv'
         /\ UNCHANGED <<clientQ, internalQ, routes>> => QueueInv'
         /\ UNCHANGED <<main, clientQ, internalQ, phase>> => MainInv'
         /\ UNCHANGED <<fix, fromVenue, reports>> => FixInv'
         /\ UNCHANGED ocache => OwnerInv'
         /\ UNCHANGED <<logged, store, sent, sentNow, used>> => SessionInv'
         /\ UNCHANGED delivered => OnlyTheOwnerIsTold'
         /\ UNCHANGED <<phase, main, scache, cacheFile>> => RouteFileCurrent'
<1>1. UNCHANGED life => LifeInv'
  BY DEF GInv, LifeInv, life
<1>2. UNCHANGED <<scache, cacheFile, conn, routes>> => RouteInv'
  BY DEF GInv, RouteInv, Known
<1>3. UNCHANGED <<clientQ, internalQ, routes>> => QueueInv'
  BY DEF GInv, QueueInv, GoodMsg, Known
<1>4. UNCHANGED <<main, clientQ, internalQ, phase>> => MainInv'
  BY DEF GInv, MainInv
<1>5. UNCHANGED <<fix, fromVenue, reports>> => FixInv'
  BY DEF GInv, FixInv
<1>6. UNCHANGED ocache => OwnerInv'
  BY DEF GInv, OwnerInv
<1>7. UNCHANGED <<logged, store, sent, sentNow, used>> => SessionInv'
  BY DEF GInv, SessionInv
<1>8. UNCHANGED delivered => OnlyTheOwnerIsTold'
  BY DEF GInv, OnlyTheOwnerIsTold
<1>9. UNCHANGED <<phase, main, scache, cacheFile>> => RouteFileCurrent'
  BY DEF GInv, RouteFileCurrent
<1> QED BY <1>1, <1>2, <1>3, <1>4, <1>5, <1>6, <1>7, <1>8, <1>9

\* Starting and stopping.
LEMMA ProcessKeeps ==
  ASSUME GInv, Process
  PROVE  GInv'
<1> USE DEF life, caches, serial, session, venue, clients
<1>1. CASE Start
  <2>1. LifeInv' /\ MainInv' /\ RouteFileCurrent'
    BY <1>1 DEF GInv, LifeInv, Deaths, MainInv, RouteFileCurrent, Start
  <2> QED BY <1>1, <2>1, Frames DEF GInv, Start
<1>2. CASE MakeMsgProcessor
  <2>1. LifeInv' /\ MainInv' /\ RouteFileCurrent'
    BY <1>2 DEF GInv, LifeInv, MainInv, RouteFileCurrent, MakeMsgProcessor
  <2> QED BY <1>2, <2>1, Frames DEF GInv, MakeMsgProcessor
<1>3. CASE FinishInit
  <2>1. LifeInv' /\ MainInv' /\ RouteFileCurrent'
    BY <1>3 DEF GInv, LifeInv, MainInv, RouteFileCurrent, FinishInit
  <2>2. RouteInv'
    BY <1>3 DEF GInv, RouteInv, Known, FinishInit
  <2> QED BY <1>3, <2>1, <2>2, Frames DEF GInv, FinishInit
<1>4. CASE Kill
  BY <1>4, DieKeeps DEF Kill, Deaths
<1> QED BY <1>1, <1>2, <1>3, <1>4 DEF Process

\* A new connection gets a route nobody had before.
LEMMA ConnectKeeps ==
  ASSUME GInv, NEW s \in Strategy, Connect(s)
  PROVE  GInv'
<1> USE GatewayAssumption DEF life, caches, serial, session, venue, clients
<1>1. /\ routes' \in Seq(Strategy) /\ Len(routes') = Len(routes) + 1
      /\ routes'[Len(routes')] = s
      /\ \A r \in 1 .. Len(routes) : routes'[r] = routes[r]
  BY DEF GInv, RouteInv, Connect
<1>2. \A r, t : Known(r, t) => Known(r, t)'
  BY <1>1 DEF GInv, RouteInv, Known
<1>3. RouteInv'
  <2>1. conn' \in [Strategy -> Routes] /\ Len(routes') <= MaxRoute
    BY <1>1 DEF GInv, RouteInv, Routes, Connect
  <2>2. \A t \in Strategy : conn'[t] # 0 => Known(conn[t], t)'
    <3> SUFFICES ASSUME NEW t \in Strategy, conn'[t] # 0
                 PROVE  Known(conn[t], t)'
      OBVIOUS
    <3>1. CASE t = s
      <4>1. conn'[t] = Len(routes')
        BY <3>1 DEF GInv, RouteInv, Connect
      <4> QED BY <4>1, <3>1, <1>1 DEF Known, GInv, RouteInv
    <3>2. CASE t # s
      <4>1. conn'[t] = conn[t]
        BY <3>2 DEF GInv, RouteInv, Connect
      <4> QED BY <4>1, <1>2 DEF GInv, RouteInv
    <3> QED BY <3>1, <3>2
  <2>3. scache' = scache /\ cacheFile' = cacheFile
    BY DEF Connect
  <2> QED BY <1>1, <1>2, <2>1, <2>2, <2>3 DEF GInv, RouteInv
<1>4. QueueInv'
  <2>1. GoodMsg \subseteq GoodMsg'
    BY <1>2 DEF GoodMsg
  <2>2. clientQ' = clientQ /\ internalQ' = internalQ
    BY DEF Connect
  <2> QED BY <2>1, <2>2 DEF GInv, QueueInv
<1>5. SessionInv'
  BY DEF GInv, SessionInv, Connect
<1> QED BY <1>3, <1>4, <1>5, Frames DEF GInv, Connect

\* What a strategy sends carries the route of its own connection.
LEMMA SendKeeps ==
  ASSUME GInv,
         \/ \E s \in Strategy, type \in AdminType : SendAdmin(s, type)
         \/ \E req \in Request : SendRequest(req)
  PROVE  GInv'
<1> USE GatewayAssumption DEF life, caches, serial, session, venue, clients
<1>1. PICK type \in ClientType, s \in Strategy, req \in Request \cup {NoReq} :
        /\ conn[s] # 0 /\ (type = "ORDER" => req \in Request)
        /\ clientQ' = Append(clientQ, ClientMsg(type, s, req))
  <2>1. CASE \E s \in Strategy, type \in AdminType : SendAdmin(s, type)
    BY <2>1 DEF SendAdmin, ClientType, AdminTypes
  <2>2. CASE \E req \in Request : SendRequest(req)
    <3>1. PICK req \in Request : SendRequest(req)
      BY <2>2
    <3>2. req.sid \in Strategy /\ "ORDER" \in ClientType
      BY DEF ReqShape, ClientType
    <3> QED BY <3>1, <3>2 DEF SendRequest
  <2> QED BY <2>1, <2>2
<1>2. ClientMsg(type, s, req) \in GoodMsg
  BY <1>1 DEF GInv, RouteInv, GoodMsg, ClientMsg
<1>3. internalQ' = internalQ /\ routes' = routes /\ main' = main /\ phase' = phase
  BY DEF SendAdmin, SendRequest
<1>4. QueueInv'
  BY <1>1, <1>2, <1>3 DEF GInv, QueueInv, GoodMsg, Known
<1>5. clientQ' # <<>>
  BY <1>1, <1>2 DEF GInv, QueueInv
<1>6. MainInv'
  BY <1>3, <1>5 DEF GInv, MainInv
<1>7. SessionInv'
  BY DEF GInv, SessionInv, SendAdmin, SendRequest
<1> QED BY <1>4, <1>6, <1>7, Frames DEF GInv, SendAdmin, SendRequest

\* What is resent is a sequence of messages.
LEMMA ResentType ==
  ASSUME store \in Seq(Request)
  PROVE  Resent(store) \in Seq(SentMsg) /\ Len(Resent(store)) = Len(store)
<1>1. Resent(store) \in [1 .. Len(store) -> SentMsg]
  BY DEF Resent, SentMsg
<1>2. Len(store) \in Nat
  OBVIOUS
<1> HIDE DEF Resent
<1>3. Resent(store) \in Seq(SentMsg)
  BY <1>1, <1>2, SeqDef, Zenon
<1> QED BY <1>1, <1>2, <1>3

\* The FIX session and the venue.
LEMMA SessionKeeps ==
  ASSUME GInv, Logon \/ Logout \/ \E rpt \in Report : VenueReport(rpt)
  PROVE  GInv'
<1> USE DEF life, caches, serial, session, venue, clients
<1>1. CASE Logon
  <2>1. Resent(store) \in Seq(SentMsg)
    BY ResentType DEF GInv, SessionInv
  <2>2. sent' \in Seq(SentMsg) /\ store' \in Seq(Request)
    BY <1>1, <2>1 DEF GInv, SessionInv, Logon
  <2>3. logged' \in BOOLEAN
    BY <1>1, Zenon DEF Logon
  <2>4. SessionInv'
    BY <1>1, <2>2, <2>3 DEF GInv, SessionInv, Logon
  <2> QED BY <1>1, <2>4, Frames DEF GInv, Logon
<1>2. CASE Logout
  <2>1. logged' \in BOOLEAN
    BY <1>2, Zenon DEF Logout
  <2>2. SessionInv'
    BY <1>2, <2>1 DEF GInv, SessionInv, Logout
  <2> QED BY <1>2, <2>2, Frames DEF GInv, Logout
<1>3. ASSUME NEW rpt \in Report, VenueReport(rpt)
      PROVE  GInv'
  <2>1. FixInv'
    BY <1>3 DEF GInv, FixInv, VenueReport
  <2> QED BY <1>3, <2>1, Frames DEF GInv, VenueReport
<1> QED BY <1>1, <1>2, <1>3

\* Where the main thread goes after a strategy message.
LEMMA AfterClientKeeps ==
  ASSUME GInv, main' = AfterClient, phase = "running", phase' = phase,
         internalQ # <<>> => internalQ' # <<>>
  PROVE  MainInv' /\ main'.at # "helo"
BY DEF GInv, MainInv, AfterClient, MainAt, MainIdle, MainAts

\* Polling, and the messages that are not orders.
LEMMA AdminKeeps ==
  ASSUME GInv, Poll \/ HandleBad \/ HandleHelo \/ FinishHelo \/ HandleHeartbeat
  PROVE  GInv'
<1> USE GatewayAssumption DEF life, caches, serial, session, venue, clients
<1>1. CASE Poll
  <2>1. MainInv' /\ main'.at # "helo"
    BY <1>1 DEF GInv, MainInv, MainAt, MainAts, Poll
  <2>2. RouteFileCurrent'
    BY <1>1, <2>1 DEF GInv, RouteFileCurrent, Poll
  <2>3. OnlyTheOwnerIsTold'
    BY <1>1 DEF OnlyTheOwnerIsTold, Poll
  <2> QED BY <1>1, <2>1, <2>2, <2>3, Frames DEF GInv, Poll
<1>2. ASSUME main.at \in {"client", "helo"}
      PROVE  /\ phase = "running" /\ clientQ # <<>>
             /\ Head(clientQ) \in GoodMsg /\ Tail(clientQ) \in Seq(GoodMsg)
  BY <1>2 DEF GInv, MainInv, QueueInv
<1>3. ASSUME NEW m \in GoodReply, internalQ' = Append(internalQ, m)
      PROVE  internalQ' \in Seq(GoodReply) /\ internalQ' # <<>>
  BY <1>3 DEF GInv, QueueInv
<1>4. routes' = routes => GoodMsg' = GoodMsg
  BY DEF GoodMsg, Known
<1>5. ASSUME NEW k \in {"STRATEGY_HELO_ACK", "HEARTBEAT_ACK"}, NEW t \in Strategy
      PROVE  Reply(t, k, NoRpt) \in GoodReply
  BY DEF GoodReply, Reply, ReplyKind, Reports
<1>6. CASE HandleBad
  <2>1. QueueInv'
    BY <1>2, <1>4, <1>6 DEF GInv, QueueInv, HandleBad
  <2>2. MainInv' /\ main'.at # "helo"
    BY <1>2, <1>6, AfterClientKeeps DEF HandleBad
  <2>3. RouteFileCurrent'
    BY <1>6, <2>2 DEF GInv, RouteFileCurrent, HandleBad
  <2> QED BY <1>6, <2>1, <2>2, <2>3, Frames DEF GInv, HandleBad
<1>7. CASE HandleHelo
  <2>1. main.at = "client"
    BY <1>7 DEF HandleHelo
  <2> DEFINE m == Head(clientQ)
  <2>2. m.sid \in Strategy /\ m.route \in Routes /\ Known(m.route, m.sid)
    BY <1>2, <2>1 DEF GoodMsg
  <2>3. RouteInv'
    <3>1. /\ IsCache(scache', Strategy, Routes)
          /\ DOMAIN scache' = DOMAIN scache \cup {m.sid}
          /\ scache'[m.sid] = m.route
          /\ \A x \in DOMAIN scache : x # m.sid => scache'[x] = scache[x]
      <4>1. scache' = Put(scache, m.sid, m.route) /\ IsCache(scache, Strategy, Routes)
        BY <1>7 DEF GInv, RouteInv, HandleHelo
      <4> HIDE DEF m
      <4> QED BY <2>2, <4>1, PutCache
    <3>2. IsCache(cacheFile', Strategy, Routes) /\ DOMAIN cacheFile' = {}
      BY <1>7, EmptyCache DEF HandleHelo
    <3>3. routes' = routes /\ conn' = conn
      BY <1>7 DEF HandleHelo
    <3> QED BY <2>2, <3>1, <3>2, <3>3 DEF GInv, RouteInv, Known
  <2>4. MainInv' /\ main'.at = "helo"
    BY <1>2, <1>7, <2>1 DEF GInv, MainInv, MainAts, HandleHelo
  <2>5. RouteFileCurrent'
    BY <2>4 DEF RouteFileCurrent
  <2> QED BY <1>7, <2>3, <2>4, <2>5, Frames DEF GInv, HandleHelo
<1>8. CASE FinishHelo
  <2>1. /\ Head(clientQ).sid \in Strategy
        /\ internalQ' = Append(internalQ, Reply(Head(clientQ).sid, "STRATEGY_HELO_ACK", NoRpt))
    BY <1>2, <1>8 DEF GoodMsg, FinishHelo
  <2>2. internalQ' \in Seq(GoodReply) /\ internalQ' # <<>>
    BY <1>3, <1>5, <2>1
  <2>3. QueueInv'
    BY <1>2, <1>4, <1>8, <2>2 DEF QueueInv, FinishHelo
  <2>4. MainInv' /\ main'.at # "helo"
    BY <1>2, <1>8, <2>2, AfterClientKeeps DEF FinishHelo
  <2>5. RouteInv'
    BY <1>8 DEF GInv, RouteInv, Known, FinishHelo
  <2>6. RouteFileCurrent'
    BY <1>8 DEF RouteFileCurrent, FinishHelo
  <2> QED BY <1>8, <2>3, <2>4, <2>5, <2>6, Frames DEF GInv, FinishHelo
<1>9. CASE HandleHeartbeat
  <2>1. /\ Head(clientQ).sid \in Strategy
        /\ internalQ' = Append(internalQ, Reply(Head(clientQ).sid, "HEARTBEAT_ACK", NoRpt))
    BY <1>2, <1>9 DEF GoodMsg, HandleHeartbeat
  <2>2. internalQ' \in Seq(GoodReply) /\ internalQ' # <<>>
    BY <1>3, <1>5, <2>1
  <2>3. QueueInv'
    BY <1>2, <1>4, <1>9, <2>2 DEF QueueInv, HandleHeartbeat
  <2>4. MainInv' /\ main'.at # "helo"
    BY <1>2, <1>9, <2>2, AfterClientKeeps DEF HandleHeartbeat
  <2>5. RouteFileCurrent'
    BY <1>9, <2>4 DEF GInv, RouteFileCurrent, HandleHeartbeat
  <2> QED BY <1>9, <2>3, <2>4, <2>5, Frames DEF GInv, HandleHeartbeat
<1> QED BY <1>1, <1>6, <1>7, <1>8, <1>9

\* An order on its way through the main thread: only the request's own
\* strategy becomes its owner.
LEMMA OrderKeeps ==
  ASSUME GInv, HandleOrder \/ CacheOrder \/ Dispatch \/ MainSerialize
  PROVE  GInv'
<1> USE GatewayAssumption DEF life, caches, serial, session, venue, clients
<1>1. CASE HandleOrder
  <2>1. CASE Die("assert_type")
    BY <2>1, DieKeeps DEF Deaths
  <2>2. CASE ~Die("assert_type")
    <3>1. /\ main.at = "client" /\ Head(clientQ).type = "ORDER"
          /\ main' = [main EXCEPT !.at = "add", !.req = Head(clientQ).req]
          /\ clientQ' = Tail(clientQ)
          /\ UNCHANGED <<life, caches, fix, internalQ, serial, session, venue, clients, delivered>>
      BY <1>1, <2>2 DEF HandleOrder
    <3>2. clientQ # <<>> /\ Head(clientQ) \in GoodMsg /\ Tail(clientQ) \in Seq(GoodMsg)
      BY <3>1 DEF GInv, MainInv, QueueInv
    <3>3. Head(clientQ).req \in Request
      BY <3>1, <3>2 DEF GoodMsg
    <3>4. QueueInv'
      BY <3>1, <3>2 DEF GInv, QueueInv, GoodMsg, Known
    <3>5. MainInv'
      BY <3>1, <3>3 DEF GInv, MainInv, MainAts
    <3>6. RouteFileCurrent'
      BY <3>1 DEF GInv, RouteFileCurrent
    <3> QED BY <3>1, <3>4, <3>5, <3>6, Frames DEF GInv
  <2> QED BY <2>1, <2>2
<1>2. CASE CacheOrder
  <2> DEFINE q == main.req
  <2>1. q \in Request /\ q.oid \in OrderId /\ q.sid \in Strategy
    BY <1>2 DEF GInv, MainInv, ReqShape, CacheOrder
  <2>2. OwnerInv'
    <3>1. ocache' = Put(ocache, q.oid, q.sid) /\ IsCache(ocache, OrderId, Strategy)
      BY <1>2 DEF GInv, OwnerInv, CacheOrder
    <3>2. Owns(q.sid, q.oid)
      BY <2>1 DEF Owns
    <3> HIDE DEF q
    <3>3. /\ IsCache(ocache', OrderId, Strategy)
          /\ DOMAIN ocache' = DOMAIN ocache \cup {q.oid}
          /\ ocache'[q.oid] = q.sid
          /\ \A x \in DOMAIN ocache : x # q.oid => ocache'[x] = ocache[x]
      <4>1. PICK c : c = ocache
        OBVIOUS
      <4>2. PICK k, v : k = q.oid /\ v = q.sid
        OBVIOUS
      <4>3. /\ IsCache(Put(c, k, v), OrderId, Strategy)
            /\ DOMAIN Put(c, k, v) = DOMAIN c \cup {k}
            /\ Put(c, k, v)[k] = v
            /\ \A x \in DOMAIN c : x # k => Put(c, k, v)[x] = c[x]
        <5>1. IsCache(c, OrderId, Strategy) /\ k \in OrderId /\ v \in Strategy
          BY <2>1, <3>1, <4>1, <4>2
        <5> QED BY <5>1, PutCache
      <4> QED BY <3>1, <4>1, <4>2, <4>3, Zenon
    <3> QED BY <3>2, <3>3 DEF GInv, OwnerInv
  <2>3. MainInv'
    BY <1>2 DEF GInv, MainInv, MainAts, CacheOrder
  <2>4. RouteFileCurrent'
    BY <1>2 DEF GInv, RouteFileCurrent, CacheOrder
  <2> QED BY <1>2, <2>2, <2>3, <2>4, Frames DEF GInv, CacheOrder
<1>3. CASE Dispatch
  <2>1. main.at = "dispatch" /\ main.req \in Request /\ main.req.oid \in OrderId
        /\ phase = "running"
    BY <1>3 DEF GInv, MainInv, ReqShape, Dispatch
  <2>2. /\ main' = AfterClient \/ main' = [main EXCEPT !.at = "ser1"]
        /\ SendToTarget(main.req) \/ UNCHANGED <<sent, store, sentNow>>
    BY <1>3 DEF Dispatch, NewOrderSingle42, OrderCancel42, OrderCancelReplace42, OrderStatus42
  <2>3. UNCHANGED <<life, caches, fix, clientQ, internalQ, serial, logged, venue, clients, delivered>>
    BY <1>3 DEF Dispatch
  <2>4. SessionInv'
    <3>1. CASE SendToTarget(main.req)
      <4> DEFINE new == [req |-> main.req, dup |-> FALSE]
      <4>1. new \in SentMsg
        BY <2>1, Zenon DEF SentMsg
      <4>2. sent' = sent \/ sent' = Append(sent, new)
        BY <3>1 DEF SendToTarget
      <4>3. store' = store \/ store' = Append(store, main.req)
        BY <3>1 DEF SendToTarget
      <4>4. sent' \in Seq(SentMsg) /\ store' \in Seq(Request)
        <5> HIDE DEF new
        <5>1. sent \in Seq(SentMsg) /\ store \in Seq(Request)
          BY DEF GInv, SessionInv
        <5>2. Append(sent, new) \in Seq(SentMsg) /\ Append(store, main.req) \in Seq(Request)
          BY <2>1, <4>1, <5>1, AppendProperties
        <5> QED BY <4>2, <4>3, <5>1, <5>2
      <4>5. sentNow' \subseteq OrderId
        BY <2>1, <3>1 DEF GInv, SessionInv, SendToTarget
      <4> QED BY <2>3, <4>4, <4>5 DEF GInv, SessionInv
    <3>2. CASE UNCHANGED <<sent, store, sentNow>>
      BY <2>3, <3>2 DEF GInv, SessionInv
    <3> QED BY <2>2, <3>1, <3>2
  <2>5. MainInv' /\ main'.at # "helo"
    <3>1. CASE main' = AfterClient
      BY <2>1, <2>3, <3>1, AfterClientKeeps
    <3>2. CASE main' = [main EXCEPT !.at = "ser1"]
      BY <2>1, <2>3, <3>2 DEF GInv, MainInv, MainAts
    <3> QED BY <2>2, <3>1, <3>2
  <2>6. RouteFileCurrent'
    BY <2>1, <2>3 DEF GInv, RouteFileCurrent
  <2> QED BY <2>3, <2>4, <2>5, <2>6, Frames DEF GInv
<1>4. CASE MainSerialize
  <2>1. /\ main.at \in {"ser1", "ser2", "ser3"}
        /\ \/ main' = AfterClient
           \/ main' = [main EXCEPT !.at = "ser2"]
           \/ main' = [main EXCEPT !.at = "ser3"]
        /\ UNCHANGED <<life, caches, fix, clientQ, internalQ, session, venue, clients, delivered>>
    BY <1>4 DEF MainSerialize
  <2>2. phase = "running" /\ main.req \in Request
    BY <2>1 DEF GInv, MainInv
  <2>3. MainInv' /\ main'.at # "helo"
    <3>1. CASE main' = AfterClient
      BY <2>1, <2>2, <3>1, AfterClientKeeps
    <3>2. CASE main' = [main EXCEPT !.at = "ser2"] \/ main' = [main EXCEPT !.at = "ser3"]
      BY <2>1, <2>2, <3>2 DEF GInv, MainInv, MainAts
    <3> QED BY <2>1, <3>1, <3>2
  <2>4. RouteFileCurrent'
    BY <2>1 DEF GInv, RouteFileCurrent
  <2> QED BY <2>1, <2>3, <2>4, Frames DEF GInv
<1> QED BY <1>1, <1>2, <1>3, <1>4

\* The frames an orphan leaves are about no order and for nobody.
LEMMA LeftoverFrames ==
  ASSUME NEW m
  PROVE  /\ Leftover(m) \in Seq(GoodReply)
         /\ \A i \in DOMAIN Leftover(m) : Leftover(m)[i].rpt = NoRpt
<1>1. PICK f : f = Reply(NO_SID, "FRAME", NoRpt)
  OBVIOUS
<1>2. f \in GoodReply /\ f.rpt = NoRpt
  BY <1>1 DEF Reply, GoodReply, ReplyKind, Reports
<1>3. PICK a \in Nat : a = FramesBehindSid(m.kind)
  BY DEF FramesBehindSid
<1>4. PICK n \in Nat : (1 .. a) \cap (1 .. MaxFrames) = 1 .. n
  <2>1. MaxFrames \in Nat
    BY GatewayAssumption
  <2>2. CASE a <= MaxFrames
    <3>1. (1 .. a) \cap (1 .. MaxFrames) = 1 .. a
      BY <2>1, <2>2
    <3> QED BY <3>1
  <2>3. CASE ~(a <= MaxFrames)
    <3>1. (1 .. a) \cap (1 .. MaxFrames) = 1 .. MaxFrames
      BY <2>1, <2>3
    <3> QED BY <2>1, <3>1
  <2> QED BY <2>2, <2>3
<1>5. Leftover(m) = [i \in 1 .. n |-> f]
  BY <1>1, <1>3, <1>4 DEF Leftover
<1> QED BY <1>2, <1>5

\* What rcv_internal leaves at the inproc socket: an orphan's frames, and the
\* messages that waited.
Routed(q) == (IF RouteOf(Head(q).sid) = {} THEN Leftover(Head(q)) ELSE <<>>) \o Tail(q)

LEMMA RoutedQueue ==
  ASSUME NEW q \in Seq(GoodReply), q # <<>>
  PROVE  /\ Routed(q) \in Seq(GoodReply)
         /\ \A i \in DOMAIN Routed(q) :
              Routed(q)[i].rpt = NoRpt \/ \E j \in DOMAIN q : Routed(q)[i] = q[j]
<1>0. PICK t : t = Routed(q)
  OBVIOUS
<1>1. PICK f \in Seq(GoodReply) :
        /\ t = f \o Tail(q)
        /\ \A i \in DOMAIN f : f[i].rpt = NoRpt
  <2>1. CASE RouteOf(Head(q).sid) = {}
    BY <1>0, <2>1, LeftoverFrames, Zenon DEF Routed
  <2>2. CASE RouteOf(Head(q).sid) # {}
    <3>1. <<>> \in Seq(GoodReply) /\ DOMAIN <<>> = {}
      OBVIOUS
    <3> QED BY <1>0, <2>2, <3>1, Zenon DEF Routed
  <2> QED BY <2>1, <2>2
<1>2. /\ Tail(q) \in Seq(GoodReply)
      /\ \A i \in DOMAIN Tail(q) : \E j \in DOMAIN q : Tail(q)[i] = q[j]
  <2>1. Len(q) \in Nat /\ DOMAIN q = 1 .. Len(q)
        /\ DOMAIN Tail(q) = 1 .. Len(q) - 1
        /\ \A i \in 1 .. Len(q) - 1 : i + 1 \in 1 .. Len(q) /\ Tail(q)[i] = q[i + 1]
    OBVIOUS
  <2> QED BY <2>1
<1>3. PICK u \in Seq(GoodReply) : u = Tail(q)
  BY <1>2
<1>4. PICK a \in Nat, b \in Nat : a = Len(f) /\ b = Len(u)
  OBVIOUS
<1>5. /\ t \in Seq(GoodReply) /\ DOMAIN t = 1 .. a + b
      /\ \A i \in 1 .. a + b : t[i] = IF i <= a THEN f[i] ELSE u[i - a]
  <2>1. t = f \o u
    BY <1>1, <1>3
  <2>2. /\ t \in Seq(GoodReply) /\ Len(t) = Len(f) + Len(u)
        /\ \A i \in 1 .. Len(f) + Len(u) : t[i] = IF i <= Len(f) THEN f[i] ELSE u[i - Len(f)]
    BY <2>1, ConcatProperties, Zenon
  <2>3. DOMAIN t = 1 .. Len(t)
    BY <2>2
  <2> QED BY <1>4, <2>2, <2>3
<1>6. DOMAIN f = 1 .. a /\ DOMAIN u = 1 .. b
  BY <1>4
<1>7. ASSUME NEW i \in 1 .. a + b
      PROVE  t[i].rpt = NoRpt \/ \E j \in DOMAIN q : t[i] = q[j]
  <2>1. CASE i \in 1 .. a
    <3>1. t[i] = f[i]
      BY <1>5, <2>1
    <3> QED BY <1>1, <1>6, <2>1, <3>1
  <2>2. CASE i \notin 1 .. a
    <3>1. i - a \in 1 .. b /\ ~(i <= a)
      BY <2>2
    <3>2. t[i] = u[i - a]
      BY <1>5, <3>1
    <3> QED BY <1>2, <1>3, <1>6, <3>1, <3>2
  <2> QED BY <2>1, <2>2
<1> QED BY <1>0, <1>5, <1>7, Zenon

\* Routing: the one connection with the cached route is a connection of the
\* strategy the message is for.
LEMMA RoutingKeeps ==
  ASSUME GInv, RcvInternal
  PROVE  GInv'
<1> USE GatewayAssumption DEF life, caches, serial, session, venue, clients
<1> DEFINE m == Head(internalQ)
<1>1. CASE Die("assert_route")
  BY <1>1, DieKeeps DEF Deaths
<1>2. CASE ~Die("assert_route")
  <2>1. /\ main.at = "internal"
        /\ delivered' =
             {[to |-> s, msg |-> m] : s \in {t \in Strategy : conn[t] \in RouteOf(m.sid)}}
        /\ internalQ' = (IF RouteOf(m.sid) = {} THEN Leftover(m) ELSE <<>>) \o Tail(internalQ)
        /\ main' = MainIdle
        /\ UNCHANGED <<life, caches, fix, clientQ, serial, session, venue, clients>>
    BY <1>2 DEF RcvInternal
  <2>2. m \in GoodReply /\ internalQ' \in Seq(GoodReply)
    <3>1. internalQ # <<>> /\ internalQ \in Seq(GoodReply)
      BY <2>1 DEF GInv, MainInv, QueueInv
    <3>2. internalQ' = Routed(internalQ)
      BY <2>1 DEF Routed
    <3> QED BY <3>1, <3>2, RoutedQueue
  <2>3. QueueInv'
    BY <2>1, <2>2 DEF GInv, QueueInv, GoodMsg, Known
  <2>4. MainInv' /\ main'.at # "helo"
    BY <2>1 DEF GInv, MainInv, MainIdle, MainAt, MainAts
  <2>5. RouteFileCurrent'
    BY <2>1 DEF GInv, RouteFileCurrent
  <2>6. \A t \in Strategy : conn[t] \in RouteOf(m.sid) => t = m.sid
    BY DEF GInv, RouteInv, RouteOf, Known
  <2>7. OnlyTheOwnerIsTold'
    <3> SUFFICES ASSUME NEW d \in delivered'
                 PROVE  /\ d.msg.sid = d.to
                        /\ d.msg.kind \in Reports =>
                             \E q \in Request : q.oid = d.msg.rpt.oid /\ q.sid = d.to
      BY DEF OnlyTheOwnerIsTold
    <3>1. PICK t \in Strategy : d = [to |-> t, msg |-> m] /\ conn[t] \in RouteOf(m.sid)
      BY <2>1
    <3>2. d.msg = m /\ d.to = t /\ t = m.sid
      BY <2>6, <3>1
    <3> QED BY <2>2, <3>2 DEF GoodReply, Owns
  <2> QED BY <2>1, <2>3, <2>4, <2>5, <2>7, Frames DEF GInv
<1> QED BY <1>1, <1>2

\* The callbacks of the FIX thread.
LEMMA FixKeeps ==
  ASSUME GInv, FixStep
  PROVE  GInv'
<1> USE GatewayAssumption DEF life, caches, serial, session, venue, clients
<1>1. ASSUME fix' = FixIdle, fromVenue' = Tail(fromVenue), fromVenue # <<>>, reports' = reports
      PROVE  FixInv'
  BY <1>1 DEF GInv, FixInv, FixIdle, FixAts
<1>2. CASE FixDone
  <2>1. FixInv'
    BY <1>1, <1>2 DEF GInv, FixInv, FixDone, FixReturn
  <2> QED BY <1>2, <2>1, Frames DEF GInv, FixDone
<1>3. CASE FixDrop
  <2>1. FixInv'
    BY <1>1, <1>3 DEF FixDrop, FixReturn, CanDeliver
  <2> QED BY <1>3, <2>1, Frames DEF GInv, FixDrop
<1>4. CASE FixUnsetSocket
  BY <1>4, DieKeeps DEF FixUnsetSocket, Deaths
<1>5. CASE FixLookup
  <2>1. Head(fromVenue) \in Report /\ fromVenue # <<>>
    BY <1>5 DEF GInv, FixInv, FixLookup, CanDeliver
  <2>2. \A oid : Owner(oid) = NO_SID \/ (Owner(oid) \in Strategy /\ Owns(Owner(oid), oid))
    BY DEF GInv, OwnerInv, IsCache, Owner
  <2>3. FixInv'
    BY <1>5, <2>1, <2>2 DEF GInv, FixInv, FixAts, FixLookup
  <2> QED BY <1>5, <2>3, Frames DEF GInv, FixLookup
<1>6. CASE FixLookupRace
  <2>1. CASE Die("race")
    BY <2>1, DieKeeps DEF Deaths
  <2>2. CASE ~Die("race")
    <3>1. Head(fromVenue) \in Report /\ fromVenue # <<>>
      BY <1>6 DEF GInv, FixInv, FixLookupRace, CanDeliver
    <3>2. FixInv'
      BY <1>6, <2>2, <3>1 DEF GInv, FixInv, FixAts, FixLookupRace
    <3> QED BY <1>6, <2>2, <3>2, Frames DEF GInv, FixLookupRace
  <2> QED BY <2>1, <2>2
<1>7. CASE FixReply
  <2> DEFINE r == Reply(fix.sid, fix.rpt.kind, fix.rpt)
  <2>1. fix.rpt \in Report /\ (fix.sid = NO_SID \/ Owns(fix.sid, fix.rpt.oid))
    BY <1>7 DEF GInv, FixInv, FixReply
  <2>2. fix.rpt.kind \in ReplyKind
    BY <2>1 DEF Report, ReplyKind
  <2>3. r \in GoodReply
    BY <2>1, <2>2 DEF GInv, FixInv, GoodReply, Reply
  <2>4. internalQ' = Append(internalQ, r) /\ clientQ' = clientQ /\ routes' = routes
    BY <1>7 DEF FixReply
  <2> HIDE DEF r
  <2>5. internalQ' \in Seq(GoodReply) /\ internalQ' # <<>>
    BY <2>3, <2>4 DEF GInv, QueueInv
  <2>6. QueueInv'
    BY <2>4, <2>5 DEF GInv, QueueInv, GoodMsg, Known
  <2>7. MainInv'
    BY <1>7, <2>4, <2>5 DEF GInv, MainInv, FixReply
  <2>8. FixInv'
    BY <1>7 DEF GInv, FixInv, FixAts, FixReply
  <2> QED BY <1>7, <2>6, <2>7, <2>8, Frames DEF GInv, FixReply
<1>8. CASE FixSerialize
  <2>1. FixInv'
    BY <1>8 DEF GInv, FixInv, FixAts, FixSerialize
  <2> QED BY <1>8, <2>1, Frames DEF GInv, FixSerialize
<1> QED BY <1>2, <1>3, <1>4, <1>5, <1>6, <1>7, <1>8 DEF FixStep

\* Every step keeps the invariant.
LEMMA GStep == GInv /\ [Next]_vars => GInv'
<1> SUFFICES ASSUME GInv, [Next]_vars PROVE GInv'
  OBVIOUS
<1>1. CASE Process
  BY <1>1, ProcessKeeps
<1>2. CASE Strategies
  BY <1>2, ConnectKeeps, SendKeeps DEF Strategies
<1>3. CASE MainStep
  BY <1>3, AdminKeeps, OrderKeeps, RoutingKeeps DEF MainStep
<1>4. CASE FixStep
  BY <1>4, FixKeeps
<1>5. CASE Logon \/ Logout \/ \E rpt \in Report : VenueReport(rpt)
  BY <1>5, SessionKeeps
<1>6. CASE UNCHANGED vars
  BY <1>6, Frames DEF GInv, vars, life, caches, serial, session, venue, clients
<1> QED BY <1>1, <1>2, <1>3, <1>4, <1>5, <1>6 DEF Next

\* The gateway starts in the invariant.
LEMMA GInit == Init => GInv
<1> SUFFICES ASSUME Init PROVE GInv
  OBVIOUS
<1> USE GatewayAssumption
<1>1. LifeInv /\ QueueInv
  BY DEF Init, LifeInv, Deaths, QueueInv
<1>2. RouteInv
  BY EmptyCache DEF Init, RouteInv, Routes
<1>3. MainInv
  BY DEF Init, MainInv, MainIdle, MainAt, MainAts
<1>4. FixInv
  BY DEF Init, FixInv, FixIdle, FixAts
<1>5. OwnerInv
  BY EmptyCache DEF Init, OwnerInv
<1>6. logged \in BOOLEAN
  BY Zenon DEF Init
<1>7. SessionInv
  BY <1>6 DEF Init, SessionInv
<1>8. OnlyTheOwnerIsTold /\ RouteFileCurrent
  BY DEF Init, OnlyTheOwnerIsTold, RouteFileCurrent
<1> QED BY <1>1, <1>2, <1>3, <1>4, <1>5, <1>7, <1>8 DEF GInv

\* The invariant gives the types.
LEMMA GType == GInv => TypeOK
<1> SUFFICES ASSUME GInv PROVE TypeOK
  OBVIOUS
<1>1. \A i \in DOMAIN clientQ : clientQ[i] \in GoodMsg
  BY DEF GInv, QueueInv
<1>2. \A i \in DOMAIN clientQ :
        /\ clientQ[i].type \in ClientType /\ clientQ[i].sid \in Strategy
        /\ clientQ[i].route \in Routes /\ IsRequest(clientQ[i].req)
  BY <1>1 DEF GoodMsg, IsRequest
<1>3. \A i \in DOMAIN internalQ : internalQ[i] \in GoodReply
  BY DEF GInv, QueueInv
<1>4. \A i \in DOMAIN internalQ :
        /\ internalQ[i].kind \in ReplyKind /\ IsReport(internalQ[i].rpt)
        /\ internalQ[i].sid \in Strategy \cup {NO_SID}
  BY <1>3 DEF GoodReply, IsReport
<1>5. /\ \A i \in DOMAIN sent : sent[i] \in SentMsg
      /\ \A i \in DOMAIN store : store[i] \in Request
      /\ \A i \in DOMAIN fromVenue : fromVenue[i] \in Report
  BY DEF GInv, SessionInv, FixInv
<1>6. \A i \in DOMAIN sent : sent[i].req \in Request /\ sent[i].dup \in BOOLEAN
  BY <1>5 DEF SentMsg
<1>7. main.at \in MainAts /\ IsRequest(main.req) /\ main.internal \in BOOLEAN
  BY DEF GInv, MainInv, IsRequest
<1>8. fix.at \in FixAts /\ IsReport(fix.rpt) /\ fix.sid \in Strategy \cup {NO_SID}
  BY DEF GInv, FixInv, IsReport
<1> QED
  BY <1>2, <1>4, <1>5, <1>6, <1>7, <1>8
  DEF GInv, LifeInv, RouteInv, OwnerInv, SessionInv, FixInv, MainAts, FixAts, Deaths, TypeOK

\* For every number of strategies, requests, reports, connections and
\* crashes, with both threads running at once and racing on the order cache:
\* the state keeps its types, no strategy receives a message addressed to
\* another or a report on another's order, and except while a HELO is being
\* written the route file holds exactly the routes in use.
THEOREM GatewayCorrect ==
  Spec => [](TypeOK /\ OnlyTheOwnerIsTold /\ RouteFileCurrent)
<1>1. GInv => TypeOK /\ OnlyTheOwnerIsTold /\ RouteFileCurrent
  BY GType DEF GInv
<1> QED BY <1>1, GInit, GStep, PTL DEF Spec

-----------------------------------------------------------------------------
(* A request is sent once.                                                 *)
(*                                                                         *)
(* The invariant follows a request from the ROUTER socket to the venue:    *)
(* while it waits nothing was sent under its id, and it is handed to the   *)
(* FIX session once, which has it either sent or stored.                   *)

SentOids == {sent[i].req.oid : i \in DOMAIN sent}
StoreOids == {store[i].oid : i \in DOMAIN store}

\* The ids of requests that were given to the FIX session.
Gone == SentOids \cup StoreOids

GoneInv == \A oid \in Gone : \E q \in used : q.oid = oid

Waits(i) == clientQ[i].type = "ORDER"

\* A request waits once, and is not sent while it waits.
PendingInv ==
  /\ \A i \in DOMAIN clientQ :
       Waits(i) => clientQ[i].req \in used /\ clientQ[i].req.oid \notin Gone
  /\ \A i, j \in DOMAIN clientQ :
       Waits(i) /\ Waits(j) /\ i # j => clientQ[i].req # clientQ[j].req
  /\ main.at \in {"add", "dispatch"} =>
       /\ main.req \in used /\ main.req.oid \notin Gone
       /\ \A i \in DOMAIN clientQ : Waits(i) => clientQ[i].req # main.req

\* No two of the requests given to the FIX session have the same id.
UniqueInv ==
  /\ \A i, j \in DOMAIN sent : sent[i].req.oid = sent[j].req.oid => i = j
  /\ \A i, j \in DOMAIN store : store[i].oid = store[j].oid => i = j
  /\ \A i \in DOMAIN sent, j \in DOMAIN store : sent[i].req.oid # store[j].oid

UInv == GInv /\ GoneInv /\ PendingInv /\ UniqueInv

-----------------------------------------------------------------------------
\* Each part depends on its own variables only, and of the main thread only
\* on whether it holds a request that is not sent yet.
LEMMA UFrames ==
  ASSUME UInv
  PROVE  /\ UNCHANGED <<sent, store, used>> => GoneInv'
         /\ UNCHANGED <<sent, store>> => UniqueInv'
         /\ /\ UNCHANGED <<clientQ, used, sent, store>>
            /\ UNCHANGED main \/ main'.at \notin {"add", "dispatch"}
            => PendingInv'
<1>1. UNCHANGED <<sent, store, used>> => GoneInv'
  BY DEF UInv, GoneInv, Gone, SentOids, StoreOids
<1>2. UNCHANGED <<sent, store>> => UniqueInv'
  BY DEF UInv, UniqueInv
<1>3. /\ UNCHANGED <<clientQ, used, sent, store>>
      /\ UNCHANGED main \/ main'.at \notin {"add", "dispatch"}
      => PendingInv'
  BY DEF UInv, PendingInv, Waits, Gone, SentOids, StoreOids
<1> QED BY <1>1, <1>2, <1>3

LEMMA AfterClientAt == AfterClient.at \in {"poll", "internal"}
BY DEF AfterClient, MainAt, MainIdle

\* A waiting message leaves the ROUTER socket.
LEMMA TakeKeeps ==
  ASSUME UInv, clientQ # <<>>, clientQ' = Tail(clientQ), UNCHANGED <<used, sent, store>>,
         main'.at \notin {"add", "dispatch"}
  PROVE  PendingInv'
<1>1. /\ clientQ \in Seq(GoodMsg) /\ Len(clientQ) \in Nat
      /\ DOMAIN clientQ = 1 .. Len(clientQ) /\ DOMAIN clientQ' = 1 .. Len(clientQ) - 1
      /\ \A i \in DOMAIN clientQ' : i + 1 \in DOMAIN clientQ /\ clientQ'[i] = clientQ[i + 1]
  BY DEF UInv, GInv, QueueInv
<1>2. Gone' = Gone
  BY DEF Gone, SentOids, StoreOids
<1>3. \A i \in DOMAIN clientQ' :
        Waits(i)' => clientQ'[i].req \in used' /\ clientQ'[i].req.oid \notin Gone'
  BY <1>1, <1>2 DEF UInv, PendingInv, Waits
<1>4. \A i, j \in DOMAIN clientQ' :
        Waits(i)' /\ Waits(j)' /\ i # j => clientQ'[i].req # clientQ'[j].req
  BY <1>1 DEF UInv, PendingInv, Waits
<1> QED BY <1>3, <1>4 DEF PendingInv

\* A process that ends forgets what waited; the venue does not forget.
LEMMA DieRequests ==
  ASSUME UInv, NEW why \in Deaths, Die(why)
  PROVE  UInv'
<1>1. GInv'
  BY DieKeeps DEF UInv
<1>2. sent' = sent /\ (store' = store \/ store' = <<>>) /\ used' = used
  BY DEF Die
<1>3. SentOids' = SentOids /\ StoreOids' \subseteq StoreOids
  BY <1>2 DEF SentOids, StoreOids
<1>4. GoneInv'
  BY <1>2, <1>3 DEF UInv, GoneInv, Gone
<1>5. PendingInv'
  BY DEF Die, PendingInv, MainIdle, MainAt
<1>6. UniqueInv'
  BY <1>2 DEF UInv, UniqueInv
<1> QED BY <1>1, <1>4, <1>5, <1>6 DEF UInv

\* A message arrives at the ROUTER socket: a request that was never sent.
LEMMA SendRequests ==
  ASSUME UInv, GInv',
         \/ \E s \in Strategy, type \in AdminType : SendAdmin(s, type)
         \/ \E req \in Request : SendRequest(req)
  PROVE  UInv'
<1> USE GatewayAssumption DEF life, caches, serial, session, venue, clients
<1>0. /\ clientQ \in Seq(GoodMsg) /\ Len(clientQ) \in Nat /\ DOMAIN clientQ = 1 .. Len(clientQ)
  BY DEF UInv, GInv, QueueInv
<1>1. Gone' = Gone /\ UNCHANGED <<main, sent, store>>
  BY DEF SendAdmin, SendRequest, Gone, SentOids, StoreOids
<1>2. PICK m : /\ clientQ' = Append(clientQ, m) /\ used \subseteq used'
               /\ m.type = "ORDER" =>
                    /\ m.req \in used' /\ m.req \notin used /\ m.req \in Request
  <2>1. CASE \E s \in Strategy, type \in AdminType : SendAdmin(s, type)
    BY <2>1 DEF SendAdmin, ClientMsg, AdminTypes
  <2>2. CASE \E req \in Request : SendRequest(req)
    BY <2>2 DEF SendRequest, ClientMsg
  <2> QED BY <2>1, <2>2
<1>3. /\ DOMAIN clientQ' = 1 .. Len(clientQ) + 1 /\ clientQ'[Len(clientQ) + 1] = m
      /\ \A i \in DOMAIN clientQ : clientQ'[i] = clientQ[i]
  BY <1>0, <1>2
<1>4. m.type = "ORDER" => m.req.oid \notin Gone
  <2> SUFFICES ASSUME m.type = "ORDER", m.req.oid \in Gone PROVE FALSE
    OBVIOUS
  <2>1. PICK q \in used : q.oid = m.req.oid
    BY DEF UInv, GoneInv
  <2>2. q \in Request /\ m.req \in Request
    BY <1>2 DEF UInv, GInv, SessionInv
  <2> QED BY <1>2, <2>1, <2>2
<1>5. GoneInv'
  BY <1>1, <1>2 DEF UInv, GoneInv
<1>6. PendingInv'
  <2>1. \A i \in DOMAIN clientQ' :
          \/ i \in DOMAIN clientQ /\ clientQ'[i] = clientQ[i]
          \/ i = Len(clientQ) + 1 /\ clientQ'[i] = m
    BY <1>0, <1>3
  <2>2. \A i \in DOMAIN clientQ' :
          Waits(i)' => clientQ'[i].req \in used' /\ clientQ'[i].req.oid \notin Gone'
    BY <1>1, <1>2, <1>4, <2>1 DEF UInv, PendingInv, Waits
  <2>3. \A i, j \in DOMAIN clientQ' :
          Waits(i)' /\ Waits(j)' /\ i # j => clientQ'[i].req # clientQ'[j].req
    BY <1>2, <2>1 DEF UInv, PendingInv, Waits
  <2>4. main.at \in {"add", "dispatch"} =>
          /\ main.req \in used' /\ main.req.oid \notin Gone'
          /\ \A i \in DOMAIN clientQ' : Waits(i)' => clientQ'[i].req # main.req
    BY <1>1, <1>2, <2>1 DEF UInv, PendingInv, Waits
  <2> QED BY <1>1, <2>2, <2>3, <2>4 DEF PendingInv
<1> QED BY <1>1, <1>5, <1>6, UFrames DEF UInv

\* Logging on moves what was stored to the end of what was sent.
LEMMA LogonMoves ==
  ASSUME GInv, Logon
  PROVE  /\ store' = <<>> /\ Len(sent) \in Nat
         /\ DOMAIN sent = 1 .. Len(sent) /\ DOMAIN store = 1 .. Len(store)
         /\ DOMAIN sent \subseteq DOMAIN sent'
         /\ \A i \in DOMAIN sent : sent'[i] = sent[i]
         /\ \A i \in DOMAIN sent' :
              \/ i \in DOMAIN sent
              \/ /\ i \in Nat /\ i - Len(sent) \in DOMAIN store
                 /\ sent'[i].req = store[i - Len(sent)]
         /\ \A i \in DOMAIN store :
              Len(sent) + i \in DOMAIN sent' /\ sent'[Len(sent) + i].req = store[i]
<1>1. sent \in Seq(SentMsg) /\ store \in Seq(Request)
  BY DEF GInv, SessionInv
<1>2. sent' = sent \o Resent(store) /\ store' = <<>>
  BY DEF Logon
<1>3. PICK r : r = Resent(store)
  OBVIOUS
<1>4. /\ r \in Seq(SentMsg) /\ Len(r) = Len(store)
      /\ \A i \in 1 .. Len(store) : r[i].req = store[i]
  BY <1>1, <1>3, ResentType DEF Resent
<1>5. PICK a \in Nat, b \in Nat : a = Len(sent) /\ b = Len(store)
  BY <1>1
<1>6. DOMAIN sent = 1 .. a /\ DOMAIN store = 1 .. b
  BY <1>1, <1>5
<1>7. /\ DOMAIN sent' = 1 .. a + b
      /\ \A i \in 1 .. a + b : sent'[i] = IF i <= a THEN sent[i] ELSE r[i - a]
  <2>1. Len(r) = b /\ sent' = sent \o r
    BY <1>2, <1>3, <1>4, <1>5
  <2>2. /\ sent \o r \in Seq(SentMsg) /\ Len(sent \o r) = Len(sent) + Len(r)
        /\ \A i \in 1 .. Len(sent) + Len(r) :
             (sent \o r)[i] = IF i <= Len(sent) THEN sent[i] ELSE r[i - Len(sent)]
    BY <1>1, <1>4, ConcatProperties, Zenon
  <2>3. DOMAIN sent' = 1 .. Len(sent')
    BY <2>1, <2>2
  <2> QED BY <1>5, <2>1, <2>2, <2>3
<1>8. \A i \in 1 .. a + b : i \in 1 .. a \/ (~(i <= a) /\ i - a \in 1 .. b)
  OBVIOUS
<1>9. \A i \in 1 .. a : i \in 1 .. a + b /\ i <= a
  OBVIOUS
<1>10. \A i \in 1 .. b : a + i \in 1 .. a + b /\ ~(a + i <= a) /\ (a + i) - a = i
  OBVIOUS
<1>11. \A i \in DOMAIN store : Len(sent) + i \in DOMAIN sent' /\ sent'[Len(sent) + i].req = store[i]
  BY <1>4, <1>5, <1>6, <1>7, <1>10
<1> QED BY <1>2, <1>4, <1>5, <1>6, <1>7, <1>8, <1>9, <1>11

LEMMA LogonRequests ==
  ASSUME UInv, GInv', Logon
  PROVE  UInv'
<1> USE DEF life, caches, serial, session, venue, clients
<1>1. UNCHANGED <<used, main, clientQ>>
  BY DEF Logon
<1>2. Gone' \subseteq Gone
  <2>1. StoreOids' = {}
    BY LogonMoves DEF StoreOids, UInv
  <2>2. \A i \in DOMAIN sent' : sent'[i].req.oid \in Gone
    BY LogonMoves DEF Gone, SentOids, StoreOids, UInv
  <2> QED BY <2>1, <2>2 DEF Gone, SentOids
<1>3. GoneInv' /\ PendingInv'
  BY <1>1, <1>2 DEF UInv, GoneInv, PendingInv, Waits
<1>4. UniqueInv'
  <2>1. \A i, j \in DOMAIN sent' : sent'[i].req.oid = sent'[j].req.oid => i = j
    <3> SUFFICES ASSUME NEW i \in DOMAIN sent', NEW j \in DOMAIN sent',
                        sent'[i].req.oid = sent'[j].req.oid
                 PROVE  i = j
      OBVIOUS
    <3>1. /\ \/ i \in DOMAIN sent /\ sent'[i] = sent[i]
             \/ /\ i \in Nat /\ i - Len(sent) \in DOMAIN store
                /\ sent'[i].req = store[i - Len(sent)]
          /\ \/ j \in DOMAIN sent /\ sent'[j] = sent[j]
             \/ /\ j \in Nat /\ j - Len(sent) \in DOMAIN store
                /\ sent'[j].req = store[j - Len(sent)]
          /\ Len(sent) \in Nat
      BY LogonMoves DEF UInv
    <3>2. i \in Nat /\ j \in Nat /\ i - Len(sent) = j - Len(sent) => i = j
      BY <3>1
    <3> QED BY <3>1, <3>2 DEF UInv, UniqueInv
  <2>2. store' = <<>>
    BY LogonMoves DEF UInv
  <2> QED BY <2>1, <2>2 DEF UniqueInv
<1> QED BY <1>3, <1>4 DEF UInv

\* What is appended is at a new place, the last.
LEMMA AppendAt ==
  ASSUME NEW S, NEW t \in Seq(S), NEW x \in S, NEW u, u = Append(t, x)
  PROVE  /\ Len(t) + 1 \notin DOMAIN t /\ DOMAIN u = DOMAIN t \cup {Len(t) + 1}
         /\ u[Len(t) + 1] = x /\ \A i \in DOMAIN t : u[i] = t[i]
OBVIOUS

\* A request given to the FIX session becomes the last of what was sent, or
\* of what is stored.
SentAt(n, q) ==
  /\ n \notin DOMAIN sent /\ DOMAIN sent' = DOMAIN sent \cup {n}
  /\ sent'[n].req = q /\ \A i \in DOMAIN sent : sent'[i] = sent[i]

StoredAt(n, q) ==
  /\ n \notin DOMAIN store /\ DOMAIN store' = DOMAIN store \cup {n}
  /\ store'[n] = q /\ \A i \in DOMAIN store : store'[i] = store[i]

LEMMA SendAppends ==
  ASSUME GInv, NEW q \in Request, SendToTarget(q)
  PROVE  \E n \in Nat : \/ SentAt(n, q) /\ store' = store
                        \/ StoredAt(n, q) /\ sent' = sent
<1>1. sent \in Seq(SentMsg) /\ store \in Seq(Request)
  BY DEF GInv, SessionInv
<1>2. PICK m : m = [req |-> q, dup |-> FALSE]
  OBVIOUS
<1>3. m.req = q /\ m \in SentMsg
  BY <1>2, Zenon DEF SentMsg
<1>4. CASE sent' = Append(sent, m) /\ store' = store
  <2>1. PICK n \in Nat : n = Len(sent) + 1
    BY <1>1
  <2>2. SentAt(n, q)
    BY <1>1, <1>3, <1>4, <2>1, AppendAt DEF SentAt
  <2> QED BY <1>4, <2>2
<1>5. CASE store' = Append(store, q) /\ sent' = sent
  <2>1. PICK n \in Nat : n = Len(store) + 1
    BY <1>1
  <2>2. StoredAt(n, q)
    BY <1>1, <1>5, <2>1, AppendAt DEF StoredAt
  <2> QED BY <1>5, <2>2
<1>6. (sent' = Append(sent, m) /\ store' = store) \/ (store' = Append(store, q) /\ sent' = sent)
  BY <1>2 DEF SendToTarget
<1> QED BY <1>4, <1>5, <1>6

LEMMA SendGone ==
  ASSUME GInv, NEW q \in Request, SendToTarget(q)
  PROVE  SentOids \subseteq SentOids' /\ Gone' = Gone \cup {q.oid}
<1>1. PICK n \in Nat : \/ SentAt(n, q) /\ store' = store
                       \/ StoredAt(n, q) /\ sent' = sent
  BY SendAppends
<1>2. CASE SentAt(n, q) /\ store' = store
  <2>1. SentOids' = SentOids \cup {q.oid}
    BY <1>2 DEF SentAt, SentOids
  <2> QED BY <1>2, <2>1 DEF Gone, StoreOids
<1>3. CASE StoredAt(n, q) /\ sent' = sent
  <2>1. StoreOids' = StoreOids \cup {q.oid}
    BY <1>3 DEF StoredAt, StoreOids
  <2> QED BY <1>3, <2>1 DEF Gone, SentOids
<1> QED BY <1>1, <1>2, <1>3

\* What a dispatched request changes.
LEMMA DispatchSends ==
  ASSUME GInv, Dispatch
  PROVE  /\ main.at = "dispatch" /\ main.req \in Request /\ main'.at \notin {"add", "dispatch"}
         /\ SendToTarget(main.req) \/ UNCHANGED <<sent, store, sentNow>>
         /\ UNCHANGED <<caches, fix, clientQ, internalQ, venue, clients>>
BY AfterClientAt
DEF Dispatch, NewOrderSingle42, OrderCancel42, OrderCancelReplace42, OrderStatus42, GInv, MainInv

\* A request on its way through the main thread.
LEMMA OrderRequests ==
  ASSUME UInv, GInv', HandleOrder \/ CacheOrder \/ Dispatch \/ MainSerialize
  PROVE  UInv'
<1> USE GatewayAssumption DEF life, caches, serial, session, venue, clients
<1>1. CASE HandleOrder
  <2>1. CASE Die("assert_type")
    BY <2>1, DieRequests DEF Deaths
  <2>2. CASE ~Die("assert_type")
    <3>1. /\ main.at = "client" /\ Head(clientQ).type = "ORDER"
          /\ main' = [main EXCEPT !.at = "add", !.req = Head(clientQ).req]
          /\ clientQ' = Tail(clientQ)
          /\ UNCHANGED <<life, caches, fix, internalQ, serial, session, venue, clients, delivered>>
      BY <1>1, <2>2 DEF HandleOrder
    <3>2. clientQ # <<>> /\ main'.at = "add" /\ main'.req = Head(clientQ).req
      BY <3>1 DEF UInv, GInv, MainInv
    <3>3. /\ DOMAIN clientQ = 1 .. Len(clientQ) /\ 1 \in DOMAIN clientQ
          /\ Head(clientQ) = clientQ[1]
          /\ \A i \in DOMAIN clientQ' :
               i + 1 \in DOMAIN clientQ /\ i + 1 # 1 /\ clientQ'[i] = clientQ[i + 1]
      BY <3>1, <3>2 DEF UInv, GInv, QueueInv
    <3>4. Gone' = Gone
      BY <3>1 DEF Gone, SentOids, StoreOids
    <3>5. \A i \in DOMAIN clientQ' :
            Waits(i)' => /\ clientQ'[i].req \in used' /\ clientQ'[i].req.oid \notin Gone'
                         /\ clientQ'[i].req # main'.req
      BY <3>1, <3>2, <3>3, <3>4 DEF UInv, PendingInv, Waits
    <3>6. \A i, j \in DOMAIN clientQ' :
            Waits(i)' /\ Waits(j)' /\ i # j => clientQ'[i].req # clientQ'[j].req
      <4> SUFFICES ASSUME NEW i \in DOMAIN clientQ', NEW j \in DOMAIN clientQ',
                          Waits(i)', Waits(j)', i # j
                   PROVE  clientQ'[i].req # clientQ'[j].req
        OBVIOUS
      <4>1. i + 1 # j + 1
        BY <3>1, <3>2 DEF UInv, GInv, QueueInv
      <4> QED BY <3>3, <4>1 DEF UInv, PendingInv, Waits
    <3>7. main'.req \in used' /\ main'.req.oid \notin Gone'
      BY <3>1, <3>2, <3>3, <3>4 DEF UInv, PendingInv, Waits
    <3>8. PendingInv'
      BY <3>5, <3>6, <3>7 DEF PendingInv
    <3> QED BY <3>1, <3>8, UFrames DEF UInv
  <2> QED BY <2>1, <2>2
<1>2. CASE CacheOrder
  <2>1. /\ main.at = "add" /\ main'.at = "dispatch" /\ main'.req = main.req
        /\ UNCHANGED <<clientQ, used, sent, store>>
    BY <1>2 DEF CacheOrder, UInv, GInv, MainInv
  <2>2. PendingInv'
    BY <2>1 DEF UInv, PendingInv, Waits, Gone, SentOids, StoreOids
  <2> QED BY <2>1, <2>2, UFrames DEF UInv
<1>3. CASE Dispatch
  <2>1. /\ main.at = "dispatch" /\ main.req \in Request /\ main'.at \notin {"add", "dispatch"}
        /\ SendToTarget(main.req) \/ UNCHANGED <<sent, store, sentNow>>
        /\ UNCHANGED <<clientQ, used>>
    BY <1>3, DispatchSends DEF UInv
  <2>2. CASE UNCHANGED <<sent, store, sentNow>>
    BY <2>1, <2>2, UFrames DEF UInv
  <2>3. CASE SendToTarget(main.req)
    <3>1. PICK q \in Request : q = main.req
      BY <2>1
    <3>2. q \in used /\ q.oid \notin Gone
      BY <2>1, <3>1 DEF UInv, PendingInv
    <3>3. Gone' = Gone \cup {q.oid}
      BY <2>3, <3>1, SendGone DEF UInv
    <3>4. GoneInv'
      BY <2>1, <3>2, <3>3 DEF UInv, GoneInv
    <3>5. PendingInv'
      <4>1. \A i \in DOMAIN clientQ : Waits(i) => clientQ[i].req.oid # q.oid
        BY <2>1, <3>1 DEF UInv, PendingInv, GInv, SessionInv
      <4> QED BY <2>1, <3>3, <4>1 DEF UInv, PendingInv, Waits
    <3>6. UniqueInv'
      <4>1. /\ \A i \in DOMAIN sent : sent[i].req.oid # q.oid
            /\ \A i \in DOMAIN store : store[i].oid # q.oid
        BY <3>2 DEF Gone, SentOids, StoreOids
      <4>2. PICK n \in Nat : \/ SentAt(n, q) /\ store' = store
                             \/ StoredAt(n, q) /\ sent' = sent
        BY <2>3, <3>1, SendAppends DEF UInv
      <4>3. CASE SentAt(n, q) /\ store' = store
        BY <4>1, <4>3 DEF SentAt, UInv, UniqueInv
      <4>4. CASE StoredAt(n, q) /\ sent' = sent
        BY <4>1, <4>4 DEF StoredAt, UInv, UniqueInv
      <4> QED BY <4>2, <4>3, <4>4
    <3> QED BY <3>4, <3>5, <3>6 DEF UInv
  <2> QED BY <2>1, <2>2, <2>3
<1>4. CASE MainSerialize
  <2>1. /\ main'.at \notin {"add", "dispatch"}
        /\ UNCHANGED <<life, caches, fix, clientQ, internalQ, session, venue, clients, delivered>>
    BY <1>4, AfterClientAt DEF MainSerialize, UInv, GInv, MainInv
  <2> QED BY <2>1, UFrames DEF UInv
<1> QED BY <1>1, <1>2, <1>3, <1>4

\* The main thread on messages that are not requests.
LEMMA AdminRequests ==
  ASSUME UInv, GInv', Poll \/ HandleBad \/ HandleHelo \/ FinishHelo \/ HandleHeartbeat \/ RcvInternal
  PROVE  UInv'
<1> USE DEF life, caches, serial, session, venue, clients
<1>1. CASE Poll
  <2>1. main'.at \in {"client", "internal"}
    BY <1>1 DEF Poll, MainAt
  <2> QED BY <1>1, <2>1, UFrames DEF UInv, Poll
<1>2. CASE HandleBad \/ FinishHelo \/ HandleHeartbeat
  <2>1. /\ main'.at \in {"poll", "internal"} /\ clientQ # <<>> /\ clientQ' = Tail(clientQ)
        /\ UNCHANGED <<used, sent, store>>
    BY <1>2, AfterClientAt DEF HandleBad, FinishHelo, HandleHeartbeat, UInv, GInv, MainInv
  <2> QED BY <2>1, TakeKeeps, UFrames DEF UInv
<1>3. CASE HandleHelo
  <2>1. main'.at = "helo"
    BY <1>3 DEF HandleHelo, UInv, GInv, MainInv
  <2> QED BY <1>3, <2>1, UFrames DEF UInv, HandleHelo
<1>4. CASE RcvInternal
  <2>1. CASE Die("assert_route")
    BY <2>1, DieRequests DEF Deaths
  <2>2. CASE ~Die("assert_route")
    <3>1. main' = MainIdle /\ UNCHANGED <<clientQ, session, clients>>
      BY <1>4, <2>2 DEF RcvInternal
    <3>2. main'.at = "poll"
      BY <3>1 DEF MainIdle, MainAt
    <3> QED BY <3>1, <3>2, UFrames DEF UInv
  <2> QED BY <2>1, <2>2
<1> QED BY <1>1, <1>2, <1>3, <1>4

\* Every step of the gateway, with its threads running at once.
LEMMA UStep == UInv /\ [Next]_vars => UInv'
<1> SUFFICES ASSUME UInv, [Next]_vars PROVE UInv'
  OBVIOUS
<1> USE DEF life, caches, serial, session, venue, clients
<1>1. GInv'
  BY GStep DEF UInv
<1>2. CASE Process
  <2>1. CASE Kill
    BY <2>1, DieRequests DEF Kill, Deaths
  <2>2. CASE Start \/ MakeMsgProcessor \/ FinishInit
    BY <1>1, <2>2, UFrames DEF UInv, Start, MakeMsgProcessor, FinishInit
  <2> QED BY <1>2, <2>1, <2>2 DEF Process
<1>3. CASE Strategies
  <2>1. CASE \E s \in Strategy : Connect(s)
    BY <1>1, <2>1, UFrames DEF UInv, Connect
  <2> QED BY <1>1, <1>3, <2>1, SendRequests DEF Strategies
<1>4. CASE MainStep
  BY <1>1, <1>4, AdminRequests, OrderRequests DEF MainStep
<1>5. CASE FixStep
  <2>1. CASE \E why \in Deaths : Die(why)
    BY <2>1, DieRequests
  <2>2. CASE ~ \E why \in Deaths : Die(why)
    <3>1. UNCHANGED <<clientQ, main, sent, store, used>>
      BY <1>5, <2>2
      DEF FixStep, FixDrop, FixUnsetSocket, FixLookup, FixLookupRace, FixReply, FixSerialize,
          FixDone, Deaths
    <3> QED BY <1>1, <3>1, UFrames DEF UInv
  <2> QED BY <2>1, <2>2
<1>6. CASE Logon
  BY <1>1, <1>6, LogonRequests
<1>7. CASE Logout \/ \E rpt \in Report : VenueReport(rpt)
  BY <1>1, <1>7, UFrames DEF UInv, Logout, VenueReport
<1>8. CASE UNCHANGED vars
  BY <1>1, <1>8, UFrames DEF UInv, vars
<1> QED BY <1>2, <1>3, <1>4, <1>5, <1>6, <1>7, <1>8 DEF Next

LEMMA UInit == Init => UInv
<1> SUFFICES ASSUME Init PROVE UInv
  OBVIOUS
<1>1. GoneInv /\ PendingInv /\ UniqueInv
  BY DEF Init, GoneInv, Gone, SentOids, StoreOids, PendingInv, UniqueInv, MainIdle, MainAt
<1> QED BY <1>1, GInit DEF UInv

-----------------------------------------------------------------------------
(* What a lookup finds, with both threads running at once.                 *)
(*                                                                         *)
(* An order is in the cache before it is handed to the venue, and nothing  *)
(* but the end of the process removes it; an order that is being inserted  *)
(* was not handed to the venue yet.                                        *)

CachedInv ==
  /\ sentNow \subseteq DOMAIN ocache /\ sentNow \subseteq Gone
  /\ main.at = "dispatch" => main.req.oid \in DOMAIN ocache

LInv == UInv /\ CachedInv

-----------------------------------------------------------------------------
\* Steps that touch neither the cache nor the session.
LEMMA CachedFrame ==
  ASSUME LInv, UNCHANGED <<sent, store, sentNow, ocache>>,
         UNCHANGED main \/ main'.at # "dispatch"
  PROVE  CachedInv'
BY DEF LInv, CachedInv, Gone, SentOids, StoreOids

\* A process that ends forgets both.
LEMMA CachedDies ==
  ASSUME LInv, NEW why, Die(why)
  PROVE  CachedInv'
BY DEF Die, CachedInv, MainIdle, MainAt

LEMMA CachedMain ==
  ASSUME LInv, MainStep
  PROVE  CachedInv'
<1> USE DEF life, caches, serial, session, venue, clients
<1>1. CASE \E why : Die(why)
  BY <1>1, CachedDies
<1>2. CASE CacheOrder
  <2>1. /\ main'.req = main.req /\ DOMAIN ocache' = DOMAIN ocache \cup {main.req.oid}
        /\ UNCHANGED <<sent, store, sentNow>>
    BY <1>2 DEF CacheOrder, LInv, UInv, GInv, MainInv, Put
  <2> QED BY <2>1 DEF LInv, CachedInv, Gone, SentOids, StoreOids
<1>3. CASE Dispatch
  <2>1. /\ main.at = "dispatch" /\ main.req \in Request /\ main'.at \notin {"add", "dispatch"}
        /\ SendToTarget(main.req) \/ UNCHANGED <<sent, store, sentNow>>
        /\ UNCHANGED ocache
    BY <1>3, DispatchSends DEF LInv, UInv
  <2>2. CASE SendToTarget(main.req)
    <3>1. sentNow' = sentNow \cup {main.req.oid}
      BY <2>2 DEF SendToTarget
    <3>2. Gone' = Gone \cup {main.req.oid}
      BY <2>1, <2>2, SendGone DEF LInv, UInv
    <3> QED BY <2>1, <3>1, <3>2 DEF LInv, CachedInv
  <2> QED BY <2>1, <2>2, CachedFrame
<1>4. CASE ~Dispatch /\ ~CacheOrder /\ ~ \E why : Die(why)
  <2>1. UNCHANGED <<sent, store, sentNow, ocache>>
    BY <1>4
    DEF MainStep, Poll, HandleBad, HandleHelo, FinishHelo, HandleHeartbeat, HandleOrder,
        MainSerialize, RcvInternal
  <2>2. main'.at # "dispatch"
    <3>1. main \in [at : MainAts, req : Request \cup {NoReq}, internal : BOOLEAN]
      BY DEF LInv, UInv, GInv, MainInv
    <3>2. CASE main' = AfterClient
      BY <3>2, AfterClientAt
    <3>3. CASE main' = MainIdle \/ Poll
      BY <3>3 DEF Poll, MainAt, MainIdle
    <3>4. CASE HandleHelo \/ HandleOrder \/ MainSerialize
      BY <1>4, <3>1, <3>4, AfterClientAt DEF HandleHelo, HandleOrder, MainSerialize
    <3> QED BY <1>4, <3>2, <3>3, <3>4
        DEF MainStep, HandleBad, FinishHelo, HandleHeartbeat, RcvInternal
  <2> QED BY <2>1, <2>2, CachedFrame
<1> QED BY <1>1, <1>2, <1>3, <1>4

\* Every step of the gateway, with its threads running at once.
LEMMA LStep == LInv /\ [Next]_vars => LInv'
<1> SUFFICES ASSUME LInv, [Next]_vars PROVE LInv'
  OBVIOUS
<1> USE DEF life, caches, serial, session, venue, clients
<1>1. UInv'
  BY UStep DEF LInv
<1>2. CASE MainStep
  BY <1>1, <1>2, CachedMain DEF LInv
<1>3. CASE Logon
  <2>1. UNCHANGED <<sentNow, ocache, main>>
    BY <1>3 DEF Logon
  <2>2. Gone \subseteq Gone'
    <3>1. \A i \in DOMAIN sent : sent[i].req.oid \in SentOids'
      BY <1>3, LogonMoves DEF SentOids, LInv, UInv
    <3>2. \A i \in DOMAIN store : store[i].oid \in SentOids'
      BY <1>3, LogonMoves DEF SentOids, LInv, UInv
    <3> QED BY <3>1, <3>2 DEF Gone, SentOids, StoreOids
  <2> QED BY <1>1, <2>1, <2>2 DEF LInv, CachedInv
<1>4. CASE \E why : Die(why)
  BY <1>1, <1>4, CachedDies DEF LInv
<1>5. CASE (Process \/ Strategies \/ FixStep) /\ ~ \E why : Die(why)
  <2>1. UNCHANGED <<main, sent, store, sentNow, ocache>>
    <3>1. CASE Process \/ Strategies
      BY <1>5, <3>1
      DEF Process, Start, MakeMsgProcessor, FinishInit, Kill, Strategies, Connect, SendAdmin,
          SendRequest
    <3>2. CASE FixStep
      BY <1>5, <3>2
      DEF FixStep, FixDrop, FixUnsetSocket, FixLookup, FixLookupRace, FixReply, FixSerialize,
          FixDone
    <3> QED BY <1>5, <3>1, <3>2
  <2> QED BY <1>1, <2>1, CachedFrame DEF LInv
<1>6. CASE Logout \/ (\E rpt \in Report : VenueReport(rpt)) \/ UNCHANGED vars
  <2>1. UNCHANGED <<main, sent, store, sentNow, ocache>>
    BY <1>6 DEF Logout, VenueReport, vars
  <2> QED BY <1>1, <2>1, CachedFrame DEF LInv
<1> QED BY <1>2, <1>3, <1>4, <1>5, <1>6 DEF Next

LEMMA LInit == Init => LInv
<1> SUFFICES ASSUME Init PROVE LInv
  OBVIOUS
<1>1. CachedInv
  BY DEF Init, CachedInv, MainIdle, MainAt
<1> QED BY <1>1, UInit DEF LInv

\* What a lookup finds is the owner of the order, or nothing while another
\* order is inserted: whatever the main thread does between and during the
\* callbacks, through crashes, resent orders and reports delivered again.
THEOREM LookupsFindOwners == Spec => LookupFindsOwner
<1> DEFINE Found ==
      fix.at = "idle" /\ fix'.at = "reply" /\ fix'.rpt.oid \in sentNow =>
        \/ \E q \in Request : q.oid = fix'.rpt.oid /\ q.sid = fix'.sid
        \/ main.at = "add" /\ main.req.oid # fix'.rpt.oid /\ fix'.sid = NO_SID
<1>1. LInv /\ [Next]_vars => [Found]_vars
  <2> SUFFICES ASSUME LInv, Next, fix.at = "idle", fix'.at = "reply", fix'.rpt.oid \in sentNow
               PROVE  \/ \E q \in Request : q.oid = fix'.rpt.oid /\ q.sid = fix'.sid
                      \/ main.at = "add" /\ main.req.oid # fix'.rpt.oid /\ fix'.sid = NO_SID
    OBVIOUS
  <2> USE DEF life, caches, serial, session, venue, clients
  <2>1. \A why : ~Die(why)
    BY DEF Die, FixIdle
  <2>2. fix' # fix
    OBVIOUS
  <2>3. FixLookup \/ FixLookupRace
    <3>1. CASE Process \/ Strategies \/ Logon \/ Logout \/ \E rpt \in Report : VenueReport(rpt)
      BY <2>1, <2>2, <3>1
      DEF Process, Start, MakeMsgProcessor, FinishInit, Kill, Strategies, Connect, SendAdmin,
          SendRequest, Logon, Logout, VenueReport
    <3>2. CASE MainStep
      BY <2>1, <2>2, <3>2
      DEF MainStep, Poll, HandleBad, HandleHelo, FinishHelo, HandleHeartbeat, HandleOrder,
          CacheOrder, Dispatch, MainSerialize, RcvInternal
    <3>3. CASE FixStep
      BY <2>1, <3>3
      DEF FixStep, FixDrop, FixUnsetSocket, FixReply, FixSerialize, FixDone, FixReturn, FixIdle
    <3> QED BY <3>1, <3>2, <3>3 DEF Next
  <2>4. CASE FixLookup
    <3>1. fix'.sid = Owner(fix'.rpt.oid)
      BY <2>4 DEF FixLookup
    <3>2. fix'.rpt.oid \in DOMAIN ocache
      BY DEF LInv, CachedInv
    <3>3. Owns(fix'.sid, fix'.rpt.oid)
      BY <3>1, <3>2 DEF Owner, LInv, UInv, GInv, OwnerInv
    <3> QED BY <3>3 DEF Owns
  <2>5. CASE FixLookupRace
    <3>1. main.at = "add" /\ fix'.sid = NO_SID
      BY <2>1, <2>5 DEF FixLookupRace
    <3>2. main.req.oid \notin Gone
      BY <3>1 DEF LInv, UInv, PendingInv
    <3> QED BY <3>1, <3>2 DEF LInv, CachedInv
  <2> QED BY <2>3, <2>4, <2>5
<1> QED BY <1>1, LInit, LStep, PTL DEF Spec, LookupFindsOwner

-----------------------------------------------------------------------------
(* The owner of a report is found while the threads do not overlap.        *)
(*                                                                         *)
(* The order is cached before it is sent, but that is not enough: a report *)
(* that missed (on an order of an earlier process) must not be about an    *)
(* order this process sends later.  So what is reported was sent, and by   *)
(* UInv what waits was not.                                                *)

\* What is reported was sent.
ReportedInv ==
  /\ \A i \in DOMAIN fromVenue : fromVenue[i].oid \in SentOids
  /\ fix.at # "idle" => fix.rpt.oid \in SentOids
  /\ \A i \in DOMAIN internalQ : internalQ[i].rpt.oid \in SentOids \cup {NO_OID}

\* And a report on an order of this process has an owner, while no lookup
\* meets an insertion.
OwnerFound ==
  /\ fix.at # "idle" /\ fix.rpt.oid \in sentNow => fix.sid # NO_SID
  /\ \A i \in DOMAIN internalQ :
       internalQ[i].rpt.oid \in sentNow => internalQ[i].sid # NO_SID

OInv == LInv /\ ReportedInv /\ OwnerFound

-----------------------------------------------------------------------------
\* Each part depends on its own variables only.
LEMMA OFrames ==
  ASSUME OInv
  PROVE  /\ UNCHANGED <<fromVenue, fix, internalQ, sent>> => ReportedInv'
         /\ UNCHANGED <<fix, internalQ, sentNow>> => OwnerFound'
<1>1. UNCHANGED <<fromVenue, fix, internalQ, sent>> => ReportedInv'
  BY DEF OInv, ReportedInv, SentOids
<1>2. UNCHANGED <<fix, internalQ, sentNow>> => OwnerFound'
  BY DEF OInv, OwnerFound
<1> QED BY <1>1, <1>2

\* An acknowledgement is about no order.
LEMMA AckKeeps ==
  ASSUME OInv, NEW t, NEW k, internalQ' = Append(internalQ, Reply(t, k, NoRpt)),
         UNCHANGED <<fromVenue, fix, sent, sentNow>>
  PROVE  ReportedInv' /\ OwnerFound'
<1>1. NO_OID \notin sentNow
  BY GatewayAssumption DEF OInv, LInv, UInv, GInv, SessionInv
<1>2. PICK m : m = Reply(t, k, NoRpt)
  OBVIOUS
<1>3. m.rpt.oid = NO_OID
  BY <1>2 DEF Reply, NoRpt
<1>4. /\ DOMAIN internalQ = 1 .. Len(internalQ) /\ Len(internalQ) \in Nat
      /\ DOMAIN internalQ' = 1 .. Len(internalQ) + 1
      /\ \A i \in DOMAIN internalQ' : internalQ'[i] = m \/ (i \in DOMAIN internalQ /\ internalQ'[i] = internalQ[i])
  BY <1>2 DEF OInv, LInv, UInv, GInv, QueueInv
<1>5. SentOids' = SentOids
  BY DEF SentOids
<1> QED BY <1>1, <1>3, <1>4, <1>5 DEF OInv, ReportedInv, OwnerFound

\* A process that ends forgets what waited; the venue does not forget.
LEMMA DieKeepsOwners ==
  ASSUME OInv, NEW why \in Deaths, Die(why)
  PROVE  OInv'
<1>1. LInv'
  BY DieRequests, CachedDies DEF OInv, LInv
<1>2. SentOids' = SentOids
  BY DEF Die, SentOids
<1>3. ReportedInv'
  BY <1>2 DEF OInv, ReportedInv, Die, FixIdle
<1>4. OwnerFound'
  BY DEF Die, OwnerFound
<1> QED BY <1>1, <1>3, <1>4 DEF OInv

\* Everything but the two threads and the venue's session.
LEMMA QuietOwners ==
  ASSUME OInv, LInv', Process \/ Strategies
  PROVE  OInv'
<1> USE DEF life, caches, serial, session, venue, clients
<1>1. CASE Start \/ MakeMsgProcessor \/ FinishInit
  BY <1>1, OFrames DEF OInv, Start, MakeMsgProcessor, FinishInit
<1>2. CASE Kill
  BY <1>2, DieKeepsOwners DEF Kill, Deaths
<1>3. CASE Strategies
  BY <1>3, OFrames DEF OInv, Strategies, Connect, SendAdmin, SendRequest
<1> QED BY <1>1, <1>2, <1>3 DEF Process

\* The session: a report is on what was sent.
LEMMA SessionOwners ==
  ASSUME OInv, LInv', Logon \/ Logout \/ \E rpt \in Report : VenueReport(rpt)
  PROVE  OInv'
<1> USE DEF life, caches, serial, session, venue, clients
<1>1. CASE Logon
  <2>1. UNCHANGED <<main, fix, internalQ, fromVenue, ocache, sentNow>>
    BY <1>1 DEF Logon
  <2>2. SentOids \subseteq SentOids'
    BY <1>1, LogonMoves DEF SentOids, OInv, LInv, UInv
  <2>3. ReportedInv'
    BY <2>1, <2>2 DEF OInv, ReportedInv
  <2> QED BY <2>1, <2>3, OFrames DEF OInv
<1>2. CASE Logout
  BY <1>2, OFrames DEF OInv, Logout
<1>3. ASSUME NEW rpt \in Report, VenueReport(rpt) PROVE OInv'
  <2>1. rpt.oid \in SentOids /\ fromVenue' = Append(fromVenue, rpt) /\ fromVenue \in Seq(Report)
    BY <1>3 DEF VenueReport, SentOids, OInv, LInv, UInv, GInv, FixInv
  <2>2. \A i \in DOMAIN fromVenue' :
          fromVenue'[i] = rpt \/ (i \in DOMAIN fromVenue /\ fromVenue'[i] = fromVenue[i])
    BY <2>1
  <2>3. SentOids' = SentOids /\ UNCHANGED <<fix, internalQ>>
    BY <1>3 DEF VenueReport, SentOids
  <2>4. ReportedInv'
    BY <2>1, <2>2, <2>3 DEF OInv, ReportedInv
  <2> QED BY <1>3, <2>4, OFrames DEF OInv, VenueReport
<1> QED BY <1>1, <1>2, <1>3

\* The main thread on messages that are not requests.
LEMMA AdminOwners ==
  ASSUME OInv, LInv', Poll \/ HandleBad \/ HandleHelo \/ FinishHelo \/ HandleHeartbeat \/ RcvInternal
  PROVE  OInv'
<1> USE DEF life, caches, serial, session, venue, clients
<1>1. CASE Poll \/ HandleBad \/ HandleHelo
  BY <1>1, OFrames DEF OInv, Poll, HandleBad, HandleHelo
<1>2. CASE FinishHelo \/ HandleHeartbeat
  BY <1>2, AckKeeps DEF OInv, FinishHelo, HandleHeartbeat
<1>3. CASE RcvInternal
  <2>1. CASE Die("assert_route")
    BY <2>1, DieKeepsOwners DEF Deaths
  <2>2. CASE ~Die("assert_route")
    <3>1. /\ main.at = "internal" /\ internalQ' = Routed(internalQ)
          /\ UNCHANGED <<life, caches, fix, clientQ, serial, session, venue, clients>>
      BY <1>3, <2>2 DEF RcvInternal, Routed
    <3>2. internalQ # <<>> /\ internalQ \in Seq(GoodReply)
      BY <3>1 DEF OInv, LInv, UInv, GInv, MainInv, QueueInv
    <3>3. \A i \in DOMAIN internalQ' :
            internalQ'[i].rpt.oid = NO_OID \/ \E j \in DOMAIN internalQ : internalQ'[i] = internalQ[j]
      BY <3>1, <3>2, RoutedQueue DEF NoRpt
    <3>4. SentOids' = SentOids /\ NO_OID \notin sentNow
      BY <3>1, GatewayAssumption DEF SentOids, OInv, LInv, UInv, GInv, SessionInv
    <3>5. ReportedInv' /\ OwnerFound'
      BY <3>1, <3>3, <3>4 DEF OInv, ReportedInv, OwnerFound
    <3> QED BY <3>5 DEF OInv
  <2> QED BY <2>1, <2>2
<1> QED BY <1>1, <1>2, <1>3

\* A request on its way through the main thread: cached first, then sent,
\* under an id nothing was reported on before.
LEMMA OrderOwners ==
  ASSUME OInv, LInv', HandleOrder \/ CacheOrder \/ Dispatch \/ MainSerialize
  PROVE  OInv'
<1> USE GatewayAssumption DEF life, caches, serial, session, venue, clients
<1>1. CASE HandleOrder
  <2>1. CASE Die("assert_type")
    BY <2>1, DieKeepsOwners DEF Deaths
  <2>2. CASE ~Die("assert_type")
    <3>1. UNCHANGED <<fix, internalQ, session, venue>>
      BY <1>1, <2>2 DEF HandleOrder
    <3> QED BY <3>1, OFrames DEF OInv
  <2> QED BY <2>1, <2>2
<1>2. CASE CacheOrder \/ MainSerialize
  <2>1. UNCHANGED <<fix, internalQ, session, venue>>
    BY <1>2 DEF CacheOrder, MainSerialize
  <2> QED BY <2>1, OFrames DEF OInv
<1>3. CASE Dispatch
  <2>1. /\ main.at = "dispatch" /\ main.req \in Request /\ main'.at \notin {"add", "dispatch"}
        /\ SendToTarget(main.req) \/ UNCHANGED <<sent, store, sentNow>>
        /\ UNCHANGED <<caches, fix, clientQ, internalQ, venue, clients>>
    BY <1>3, DispatchSends DEF OInv, LInv, UInv
  <2>2. CASE UNCHANGED <<sent, store, sentNow>>
    BY <2>1, <2>2, OFrames DEF OInv
  <2>3. CASE SendToTarget(main.req)
    <3> DEFINE o == main.req.oid
    <3>1. o \notin Gone /\ o \in OrderId
      BY <2>1 DEF OInv, LInv, UInv, PendingInv, ReqShape
    <3>2. sentNow' = sentNow \cup {o}
      BY <2>3 DEF SendToTarget
    <3>3. SentOids \subseteq SentOids'
      BY <2>1, <2>3, SendGone DEF OInv, LInv, UInv
    <3>4. ReportedInv'
      BY <2>1, <3>3 DEF OInv, ReportedInv
    <3>5. OwnerFound'
      <4>1. o \notin SentOids /\ o # NO_OID
        BY <3>1 DEF Gone
      <4> QED BY <2>1, <3>2, <4>1 DEF OInv, ReportedInv, OwnerFound
    <3> QED BY <3>4, <3>5 DEF OInv
  <2> QED BY <2>1, <2>2, <2>3
<1> QED BY <1>1, <1>2, <1>3

\* The FIX thread, called back while the main thread waits: the owner of what
\* this process sent is in the cache.
LEMMA FixOwners ==
  ASSUME OInv, LInv', FixStep, main.at = "poll"
  PROVE  OInv'
<1> USE GatewayAssumption DEF life, caches, serial, session, venue, clients
<1>1. fromVenue \in Seq(Report) /\ \A i \in DOMAIN fromVenue : fromVenue[i].oid \in SentOids
  BY DEF OInv, LInv, UInv, GInv, FixInv, ReportedInv
<1>2. CASE FixDone \/ FixDrop
  <2>1. /\ fix'.at = "idle" /\ fromVenue' = Tail(fromVenue) /\ fromVenue # <<>>
        /\ UNCHANGED <<internalQ, sent, main, ocache, sentNow>>
    BY <1>2 DEF FixDone, FixDrop, FixReturn, FixIdle, CanDeliver, OInv, LInv, UInv, GInv, FixInv
  <2>2. \A i \in DOMAIN fromVenue' : fromVenue'[i].oid \in SentOids
    BY <1>1, <2>1
  <2>3. ReportedInv'
    BY <2>1, <2>2 DEF OInv, ReportedInv, SentOids
  <2>4. OwnerFound'
    BY <2>1 DEF OInv, OwnerFound
  <2> QED BY <2>3, <2>4 DEF OInv
<1>3. CASE FixUnsetSocket
  BY <1>3, DieKeepsOwners DEF FixUnsetSocket, Deaths
<1>4. CASE FixLookup
  <2>1. /\ Head(fromVenue).oid \in SentOids
        /\ fix'.rpt = Head(fromVenue) /\ fix'.sid = Owner(Head(fromVenue).oid)
        /\ UNCHANGED <<fromVenue, internalQ, sent, main, ocache, sentNow>>
    BY <1>1, <1>4 DEF FixLookup, CanDeliver
  <2>2. \A oid \in sentNow : Owner(oid) # NO_SID
    BY DEF OInv, LInv, UInv, CachedInv, GInv, OwnerInv, IsCache, Owner
  <2>3. ReportedInv' /\ OwnerFound'
    BY <2>1, <2>2 DEF OInv, ReportedInv, OwnerFound, SentOids
  <2> QED BY <2>3 DEF OInv
<1>5. CASE FixReply
  <2>1. PICK m : m = Reply(fix.sid, fix.rpt.kind, fix.rpt)
    OBVIOUS
  <2>2. m.sid = fix.sid /\ m.rpt = fix.rpt
    BY <2>1 DEF Reply
  <2>3. /\ fix.at = "reply" /\ internalQ' = Append(internalQ, m)
        /\ fix'.rpt = fix.rpt /\ fix'.sid = fix.sid
        /\ UNCHANGED <<fromVenue, sent, main, ocache, sentNow>>
    BY <1>5, <2>1 DEF FixReply, OInv, LInv, UInv, GInv, FixInv
  <2>4. \A i \in DOMAIN internalQ' :
          internalQ'[i] = m \/ (i \in DOMAIN internalQ /\ internalQ'[i] = internalQ[i])
    BY <2>3 DEF OInv, LInv, UInv, GInv, QueueInv
  <2>5. ReportedInv' /\ OwnerFound'
    BY <2>2, <2>3, <2>4 DEF OInv, ReportedInv, OwnerFound, SentOids
  <2> QED BY <2>5 DEF OInv
<1>6. CASE FixSerialize
  <2>1. /\ fix.at # "idle" /\ fix'.rpt = fix.rpt /\ fix'.sid = fix.sid
        /\ UNCHANGED <<internalQ, fromVenue, sent, main, ocache, sentNow>>
    BY <1>6 DEF FixSerialize, OInv, LInv, UInv, GInv, FixInv
  <2>2. ReportedInv' /\ OwnerFound'
    BY <2>1 DEF OInv, ReportedInv, OwnerFound, SentOids
  <2> QED BY <2>2 DEF OInv
<1> QED BY <1>2, <1>3, <1>4, <1>5, <1>6 DEF FixStep, FixLookupRace

\* Every step of a gateway whose threads do not overlap.
LEMMA OStep == OInv /\ [Next /\ NoOverlap]_vars => OInv'
<1> SUFFICES ASSUME OInv, [Next /\ NoOverlap]_vars PROVE OInv'
  OBVIOUS
<1>1. LInv'
  BY LStep DEF OInv
<1>2. CASE Process \/ Strategies
  BY <1>1, <1>2, QuietOwners
<1>3. CASE MainStep
  BY <1>1, <1>3, AdminOwners, OrderOwners DEF MainStep
<1>4. CASE FixStep /\ NoOverlap
  BY <1>1, <1>4, FixOwners DEF NoOverlap
<1>5. CASE Logon \/ Logout \/ \E rpt \in Report : VenueReport(rpt)
  BY <1>1, <1>5, SessionOwners
<1>6. CASE UNCHANGED vars
  BY <1>1, <1>6, OFrames DEF OInv, vars, life, caches, serial, session, venue, clients
<1> QED BY <1>2, <1>3, <1>4, <1>5, <1>6 DEF Next

LEMMA OInit == Init => OInv
<1> SUFFICES ASSUME Init PROVE OInv
  OBVIOUS
<1>1. ReportedInv /\ OwnerFound
  BY DEF Init, SentOids, ReportedInv, OwnerFound, FixIdle
<1> QED BY <1>1, LInit DEF OInv

-----------------------------------------------------------------------------
(* The report of an execution passes through five places: the session's    *)
(* queue, the unflushed parts of the gateway's socket, the wire, the       *)
(* statements of the serializer and the table.  The invariant says that    *)
(* it is in one of them only, at one position only.  It leaves the queue   *)
(* when the last part of its message is written, although the session      *)
(* removes it later, when the callback returns: a crash between the two    *)
(* would deliver it again out of a file store.                             *)

Fills == {"FILL", "PARTIAL_FILL"}
IsFill(r) == r.body.status \in Fills
IsFillPart(p) == p.part = "body" /\ "kind" \in DOMAIN p.val /\ IsFill(p.val)

Sids == Strategy \cup {NO_SID}
Oids == OrderId \cup {NO_OID}
Execs == Exec \cup {NO_OID}

Part ==
  {SidPart(s) : s \in Sids} \cup {TypePart(t) : t \in {"ORDER_NEW", "EXEC_RPT"}}
    \cup {BodyPart(b) : b \in Request \cup Report}

Statement ==
  [op : {"insert", "status", "trade"}, sid : Sids, oid : Oids, arg : Status \cup Execs]

Trade == [sid : Sids, oid : Oids, exec : Status \cup Execs]

SerTypes ==
  /\ pending \in Seq(Part) /\ wire \in Seq(Part)
  /\ strategyId \in Sids /\ todo \in Seq(Statement) /\ trades \in Seq(Trade)

\* The FIX thread works on the report at the head of the session's queue.
FixHead == fix.at # "idle" => fix.rpt = Head(fromVenue)

\* The report of execution e of order o is at position i of place w.
InVenue(i, e, o) ==
  /\ i \in DOMAIN fromVenue /\ (i = 1 => fix.at # "done")
  /\ IsFill(fromVenue[i]) /\ fromVenue[i].body.exec = e /\ fromVenue[i].oid = o

PartFills(p, e, o) == IsFillPart(p) /\ p.val.body.exec = e /\ p.val.oid = o

InPending(i, e, o) == i \in DOMAIN pending /\ PartFills(pending[i], e, o)
InWire(i, e, o) == i \in DOMAIN wire /\ PartFills(wire[i], e, o)
InTodo(i, e, o) == i \in DOMAIN todo /\ todo[i].op = "trade" /\ todo[i].arg = e /\ todo[i].oid = o
InTrades(i, e, o) == i \in DOMAIN trades /\ trades[i].exec = e /\ trades[i].oid = o

Carries(w, i, e, o) ==
  \/ w = "venue" /\ InVenue(i, e, o)
  \/ w = "pending" /\ InPending(i, e, o)
  \/ w = "wire" /\ InWire(i, e, o)
  \/ w = "todo" /\ InTodo(i, e, o)
  \/ w = "trades" /\ InTrades(i, e, o)

Genuine == \A w, i, e, o : Carries(w, i, e, o) => e \in DOMAIN executed /\ executed[e] = o

Once ==
  \A v, w, i, j, e, o, p : Carries(v, i, e, o) /\ Carries(w, j, e, p) => v = w /\ i = j

TInv == GInv /\ SerTypes /\ taken \in Nat /\ FixHead /\ Genuine /\ Once

-----------------------------------------------------------------------------
\* The invariant gives the property.
LEMMA TProperty == TInv => NoFalseTrades
<1> SUFFICES ASSUME TInv PROVE NoFalseTrades
  OBVIOUS
<1>1. \A i \in DOMAIN trades : Carries("trades", i, trades[i].exec, trades[i].oid)
  BY DEF Carries, InTrades
<1> QED BY <1>1 DEF TInv, Genuine, Once, NoFalseTrades

\* What only disappears stays genuine and single.
LEMMA Fewer ==
  ASSUME TInv, executed' = executed,
         \A w, i, e, o : Carries(w, i, e, o)' => Carries(w, i, e, o)
  PROVE  Genuine' /\ Once'
<1>1. Genuine'
  BY DEF TInv, Genuine
<1>2. Once'
  BY DEF TInv, Once
<1> QED BY <1>1, <1>2

\* What moves up by d in place c does as well.
LEMMA MovesUp ==
  ASSUME TInv, executed' = executed, NEW c, NEW d \in Nat,
         \A w, i, e, o : Carries(w, i, e, o)' =>
           IF w = c THEN i \in Nat /\ Carries(c, i + d, e, o) ELSE Carries(w, i, e, o)
  PROVE  Genuine' /\ Once'
<1>1. Genuine'
  <2> SUFFICES ASSUME NEW w, NEW i, NEW e, NEW o, Carries(w, i, e, o)'
               PROVE  (e \in DOMAIN executed /\ executed[e] = o)'
    BY DEF Genuine
  <2> QED BY DEF TInv, Genuine
<1>2. Once'
  <2> SUFFICES ASSUME NEW v, NEW w, NEW i, NEW j, NEW e, NEW o, NEW p,
                      Carries(v, i, e, o)', Carries(w, j, e, p)'
               PROVE  v = w /\ i = j
    BY DEF Once
  <2>1. IF v = c THEN i \in Nat /\ Carries(c, i + d, e, o) ELSE Carries(v, i, e, o)
    OBVIOUS
  <2>2. IF w = c THEN j \in Nat /\ Carries(c, j + d, e, p) ELSE Carries(w, j, e, p)
    OBVIOUS
  <2>3. CASE v = c /\ w = c
    <3>1. i + d = j + d /\ i \in Nat /\ j \in Nat
      BY <2>1, <2>2, <2>3 DEF TInv, Once
    <3> QED BY <2>3, <3>1
  <2>4. CASE v # c \/ w # c
    BY <2>1, <2>2, <2>4 DEF TInv, Once
  <2> QED BY <2>3, <2>4
<1> QED BY <1>1, <1>2

\* The first element of a place leaves it for position n of place t, and the
\* others move up by d.
LEMMA HeadMoves ==
  ASSUME TInv, executed' = executed, NEW c, NEW t, NEW n, NEW d \in Nat, NEW k \in Nat, c # t, k <= d,
         \A w, i, e, o : Carries(w, i, e, o)' =>
           \/ w = c /\ i \in Nat \ {0} /\ Carries(c, i + d, e, o)
           \/ w = t /\ i = n /\ Carries(c, k, e, o)
           \/ w # c /\ Carries(w, i, e, o)
  PROVE  Genuine' /\ Once'
<1>1. Genuine'
  <2> SUFFICES ASSUME NEW w, NEW i, NEW e, NEW o, Carries(w, i, e, o)'
               PROVE  (e \in DOMAIN executed /\ executed[e] = o)'
    BY DEF Genuine
  <2> QED BY DEF TInv, Genuine
<1>2. Once'
  <2> SUFFICES ASSUME NEW v, NEW w, NEW i, NEW j, NEW e, NEW o, NEW p,
                      Carries(v, i, e, o)', Carries(w, j, e, p)'
               PROVE  v = w /\ i = j
    BY DEF Once
  <2>1. \/ v = c /\ i \in Nat \ {0} /\ Carries(c, i + d, e, o)
        \/ v = t /\ i = n /\ Carries(c, k, e, o)
        \/ v # c /\ Carries(v, i, e, o)
    OBVIOUS
  <2>2. \/ w = c /\ j \in Nat \ {0} /\ Carries(c, j + d, e, p)
        \/ w = t /\ j = n /\ Carries(c, k, e, p)
        \/ w # c /\ Carries(w, j, e, p)
    OBVIOUS
  <2>3. \A x, y, a, b : Carries(x, a, e, o) /\ Carries(y, b, e, p) => x = y /\ a = b
    BY DEF TInv, Once
  <2>4. \A a \in Nat \ {0} : a + d # k
    OBVIOUS
  <2>5. i \in Nat /\ j \in Nat /\ i + d = j + d => i = j
    OBVIOUS
  <2> QED BY <2>1, <2>2, <2>3, <2>4, <2>5
<1> QED BY <1>1, <1>2

\* What depends on the places only.
LEMMA PlaceFrame ==
  ASSUME UNCHANGED <<fromVenue, pending, wire, todo, trades, executed>>,
         fix.at = "done" => fix'.at = "done",
         NEW w, NEW i, NEW e, NEW o, Carries(w, i, e, o)'
  PROVE  Carries(w, i, e, o)
BY DEF Carries, InVenue, InPending, InWire, InTodo, InTrades

LEMMA TFrame ==
  ASSUME TInv, UNCHANGED <<fix, fromVenue, pending, wire, serVars, venueVars>>
  PROVE  SerTypes' /\ FixHead' /\ Genuine' /\ Once'
<1>1. UNCHANGED <<strategyId, todo, trades, executed>>
  BY DEF serVars, venueVars
<1>2. SerTypes' /\ FixHead'
  BY <1>1 DEF TInv, SerTypes, FixHead
<1> QED BY <1>1, <1>2, Fewer, PlaceFrame

\* A crash of the gateway loses what it has not flushed and, without a file
\* store, what the session has not finished delivering; with one, only steps
\* without a crash are covered.
LEMMA DieTrades ==
  ASSUME TInv, ~FileStore \/ UNCHANGED crashes, NEW why, Die(why),
         UNCHANGED <<serVars, venueVars>>
  PROVE  SerTypes' /\ FixHead' /\ Genuine' /\ Once'
<1>1. /\ fix'.at = "idle" /\ fromVenue' = <<>> /\ pending' = <<>>
      /\ UNCHANGED <<wire, strategyId, todo, trades, executed>>
  <2>1. crashes' # crashes
    BY DEF Die, TInv, GInv, LifeInv
  <2> QED BY <2>1 DEF Die, FixIdle, serVars, venueVars
<1>2. SerTypes' /\ FixHead'
  BY <1>1 DEF TInv, SerTypes, FixHead
<1>3. \A w, i, e, o : Carries(w, i, e, o)' => Carries(w, i, e, o)
  BY <1>1 DEF Carries, InVenue, InPending, InWire, InTodo, InTrades
<1> QED BY <1>1, <1>2, <1>3, Fewer

-----------------------------------------------------------------------------
(* The gateway *)

LEMMA PartTypes ==
  /\ \A s \in Sids : SidPart(s) \in Part /\ SidPart(s).part = "sid"
  /\ \A t \in {"ORDER_NEW", "EXEC_RPT"} : TypePart(t) \in Part /\ TypePart(t).part = "type"
  /\ \A b \in Request \cup Report :
       BodyPart(b) \in Part /\ BodyPart(b).part = "body" /\ BodyPart(b).val = b
BY DEF Part, SidPart, TypePart, BodyPart

\* A part that waits for the rest of its message.
LEMMA WriteKeeps ==
  ASSUME TInv, NEW part \in Part, part.part # "body", WritePart(part),
         UNCHANGED <<fromVenue, serVars, venueVars>>, fix.at = "done" => fix'.at = "done"
  PROVE  SerTypes' /\ Genuine' /\ Once'
<1>1. /\ pending' = Append(pending, part) /\ pending \in Seq(Part)
      /\ UNCHANGED <<wire, strategyId, todo, trades, executed, fromVenue>>
  BY DEF WritePart, TInv, SerTypes, serVars, venueVars
<1>2. /\ pending' \in Seq(Part)
      /\ \A i \in DOMAIN pending' :
           pending'[i] = part \/ (i \in DOMAIN pending /\ pending'[i] = pending[i])
  BY <1>1
<1>3. \A i, e, o : InPending(i, e, o)' => InPending(i, e, o)
  BY <1>2 DEF InPending, PartFills, IsFillPart
<1>4. \A w, i, e, o : Carries(w, i, e, o)' => Carries(w, i, e, o)
  BY <1>1, <1>3 DEF Carries, InVenue, InWire, InTodo, InTrades
<1>5. SerTypes'
  BY <1>1, <1>2 DEF TInv, SerTypes
<1> QED BY <1>1, <1>4, <1>5, Fewer

\* The parts after the last part of a message is written.
LEMMA FlushedParts ==
  ASSUME SerTypes, NEW part \in Part, WriteLastPart(part)
  PROVE  /\ wire' \in Seq(Part) /\ pending' = <<>>
         /\ Len(wire) \in Nat /\ Len(pending) \in Nat
         /\ \A i \in DOMAIN wire' :
              \/ i \in DOMAIN wire /\ wire'[i] = wire[i]
              \/ /\ i \in Nat /\ i <= Len(wire) + Len(pending)
                 /\ i - Len(wire) \in DOMAIN pending /\ wire'[i] = pending[i - Len(wire)]
              \/ i = Len(wire) + Len(pending) + 1 /\ wire'[i] = part
<1>1. /\ wire' = wire \o Append(pending, part) /\ pending' = <<>>
      /\ wire \in Seq(Part) /\ pending \in Seq(Part)
  BY DEF WriteLastPart, SerTypes
<1>2. PICK a \in Nat, b \in Nat : a = Len(wire) /\ b = Len(pending)
  BY <1>1
<1>3. PICK t : t = Append(pending, part)
  OBVIOUS
<1>4. /\ t \in Seq(Part) /\ Len(t) = b + 1 /\ t[b + 1] = part
      /\ \A i \in 1 .. b : t[i] = pending[i]
  BY <1>1, <1>2, <1>3
<1>5. /\ wire' \in Seq(Part) /\ DOMAIN wire' = 1 .. a + (b + 1)
      /\ \A i \in 1 .. a + (b + 1) : wire'[i] = IF i <= a THEN wire[i] ELSE t[i - a]
  BY <1>1, <1>2, <1>3, <1>4
<1>6. ASSUME NEW i \in 1 .. a + (b + 1)
      PROVE  \/ i \in DOMAIN wire /\ wire'[i] = wire[i]
             \/ i \in Nat /\ i <= a + b /\ i - a \in DOMAIN pending /\ wire'[i] = pending[i - a]
             \/ i = a + b + 1 /\ wire'[i] = part
  <2>1. CASE i <= a
    BY <1>1, <1>2, <1>5, <2>1
  <2>2. CASE i > a /\ i <= a + b
    <3>1. PICK j \in 1 .. b : j = i - a
      BY <2>2
    <3>2. wire'[i] = pending[j] /\ j \in DOMAIN pending
      BY <1>1, <1>2, <1>4, <1>5, <2>2, <3>1
    <3> QED BY <2>2, <3>1, <3>2
  <2>3. CASE i = a + b + 1
    <3>1. i - a = b + 1 /\ ~(i <= a)
      BY <2>3
    <3> QED BY <1>4, <1>5, <2>3, <3>1
  <2> QED BY <2>1, <2>2, <2>3
<1> QED BY <1>1, <1>2, <1>5, <1>6

\* The positions of reports after the last part is written.
LEMMA Flushed ==
  ASSUME TInv, NEW part \in Part, WriteLastPart(part)
  PROVE  /\ wire' \in Seq(Part) /\ pending' = <<>>
         /\ Len(wire) \in Nat /\ Len(pending) \in Nat
         /\ \A i, e, o : InWire(i, e, o)' =>
              \/ InWire(i, e, o)
              \/ i \in Nat /\ i <= Len(wire) + Len(pending) /\ InPending(i - Len(wire), e, o)
              \/ i = Len(wire) + Len(pending) + 1 /\ PartFills(part, e, o)
<1>1. SerTypes
  BY DEF TInv
<1> QED BY <1>1, FlushedParts DEF InWire, InPending, PartFills, IsFillPart

\* The last part of a message of the main thread, which is no report, or of
\* the FIX thread, whose report leaves the queue for the wire.
LEMMA FlushKeeps ==
  ASSUME TInv, NEW part \in Part, WriteLastPart(part),
         UNCHANGED <<fromVenue, serVars, venueVars>>,
         \/ UNCHANGED fix /\ \A e, o : ~PartFills(part, e, o)
         \/ /\ fix.at = "ser3" /\ fix'.at = "done"
            /\ \A e, o : PartFills(part, e, o) => InVenue(1, e, o)
  PROVE  SerTypes' /\ Genuine' /\ Once'
<1>1. UNCHANGED <<strategyId, todo, trades, executed, fromVenue>>
  BY DEF serVars, venueVars
<1>2. PICK a \in Nat, b \in Nat : a = Len(wire) /\ b = Len(pending)
  BY Flushed
<1>3. /\ wire' \in Seq(Part) /\ pending' = <<>>
      /\ \A i, e, o : InWire(i, e, o)' =>
           \/ InWire(i, e, o)
           \/ i \in Nat /\ i <= a + b /\ InPending(i - a, e, o)
           \/ i = a + b + 1 /\ PartFills(part, e, o)
  BY <1>2, Flushed
<1>4. SerTypes'
  BY <1>1, <1>3 DEF TInv, SerTypes
<1>5. \A i, e, o : InVenue(i, e, o)' => InVenue(i, e, o)
  BY <1>1 DEF InVenue
<1>6. \A e, o : PartFills(part, e, o) => InVenue(1, e, o) /\ fix'.at = "done"
  OBVIOUS
<1>7. \A w, i, e, o : Carries(w, i, e, o)' =>
        \/ Carries(w, i, e, o) /\ (w = "venue" => InVenue(i, e, o)') /\ w # "pending"
        \/ w = "wire" /\ i \in Nat /\ Carries("pending", i - a, e, o)
        \/ w = "wire" /\ i = a + b + 1 /\ Carries("venue", 1, e, o) /\ fix'.at = "done"
  <2>1. \A i, e, o : ~InPending(i, e, o)'
    BY <1>3 DEF InPending
  <2>2. \A i, e, o : (InTodo(i, e, o)' => InTodo(i, e, o)) /\ (InTrades(i, e, o)' => InTrades(i, e, o))
    BY <1>1 DEF InTodo, InTrades
  <2> QED BY <1>3, <1>5, <1>6, <2>1, <2>2 DEF Carries
<1>8. Genuine'
  <2> SUFFICES ASSUME NEW w, NEW i, NEW e, NEW o, Carries(w, i, e, o)'
               PROVE  (e \in DOMAIN executed /\ executed[e] = o)'
    BY DEF Genuine
  <2> QED BY <1>1, <1>7 DEF TInv, Genuine
<1>9. Once'
  <2> SUFFICES ASSUME NEW v, NEW w, NEW i, NEW j, NEW e, NEW o, NEW p,
                      Carries(v, i, e, o)', Carries(w, j, e, p)'
               PROVE  v = w /\ i = j
    BY DEF Once
  <2>1. \A x, y, k, l : Carries(x, k, e, o) /\ Carries(y, l, e, p) => x = y /\ k = l
    BY DEF TInv, Once
  <2>2. fix'.at = "done" => ~InVenue(1, e, o)' /\ ~InVenue(1, e, p)'
    BY DEF InVenue
  <2>3. \/ Carries(v, i, e, o) /\ (v = "venue" => InVenue(i, e, o)') /\ v # "pending"
        \/ v = "wire" /\ i \in Nat /\ Carries("pending", i - a, e, o)
        \/ v = "wire" /\ i = a + b + 1 /\ Carries("venue", 1, e, o) /\ fix'.at = "done"
    BY <1>7
  <2>4. \/ Carries(w, j, e, p) /\ (w = "venue" => InVenue(j, e, p)') /\ w # "pending"
        \/ w = "wire" /\ j \in Nat /\ Carries("pending", j - a, e, p)
        \/ w = "wire" /\ j = a + b + 1 /\ Carries("venue", 1, e, p) /\ fix'.at = "done"
    BY <1>7
  <2>5. i \in Nat /\ j \in Nat /\ i - a = j - a => i = j
    OBVIOUS
  <2> QED BY <2>1, <2>2, <2>3, <2>4, <2>5
<1> QED BY <1>4, <1>8, <1>9

\* The callback returns, or found no MsgProcessor.
LEMMA ReturnKeeps ==
  ASSUME TInv, FixReturn, fromVenue # <<>>, UNCHANGED <<serial, serVars, venueVars>>
  PROVE  SerTypes' /\ FixHead' /\ Genuine' /\ Once'
<1>1. /\ fix'.at = "idle" /\ fromVenue' = Tail(fromVenue) /\ fromVenue \in Seq(Report)
      /\ UNCHANGED <<pending, wire, strategyId, todo, trades, executed>>
  BY DEF FixReturn, FixIdle, serial, serVars, venueVars, TInv, GInv, FixInv
<1>2. SerTypes' /\ FixHead'
  BY <1>1 DEF TInv, SerTypes, FixHead
<1>3. \A i \in DOMAIN fromVenue' :
        /\ i \in Nat /\ i + 1 # 1
        /\ i + 1 \in DOMAIN fromVenue /\ fromVenue'[i] = fromVenue[i + 1]
  BY <1>1
<1>4. \A i, e, o : InVenue(i, e, o)' => i \in Nat /\ InVenue(i + 1, e, o)
  BY <1>3 DEF InVenue, IsFill
<1>5. \A w, i, e, o : Carries(w, i, e, o)' =>
        IF w = "venue" THEN i \in Nat /\ Carries("venue", i + 1, e, o) ELSE Carries(w, i, e, o)
  BY <1>1, <1>4 DEF Carries, InPending, InWire, InTodo, InTrades
<1> QED BY <1>1, <1>2, <1>5, MovesUp

\* The threads of the gateway, which may mix up the parts of their messages.
LEMMA ThreadsTrades ==
  ASSUME TInv, ~FileStore \/ UNCHANGED crashes, MainStep \/ FixStep,
         UNCHANGED <<serVars, venueVars>>
  PROVE  SerTypes' /\ FixHead' /\ Genuine' /\ Once'
<1> USE DEF life, caches, serial, session, venue, clients
<1>1. CASE Poll \/ HandleBad \/ HandleHelo \/ FinishHelo \/ HandleHeartbeat \/ CacheOrder \/ Dispatch
  BY <1>1, TFrame
  DEF Poll, HandleBad, HandleHelo, FinishHelo, HandleHeartbeat, CacheOrder, Dispatch
<1>2. CASE HandleOrder \/ RcvInternal
  BY <1>2, TFrame, DieTrades DEF HandleOrder, RcvInternal
<1>3. CASE MainSerialize
  <2>1. /\ main.req \in Request /\ UNCHANGED <<fix, fromVenue>>
        /\ main.req.sid \in Sids /\ "kind" \notin DOMAIN main.req
    BY <1>3, GatewayAssumption DEF MainSerialize, TInv, GInv, MainInv, ReqShape, Sids
  <2>2. FixHead'
    BY <2>1 DEF TInv, FixHead
  <2>3. CASE WritePart(SidPart(main.req.sid)) \/ WritePart(TypePart("ORDER_NEW"))
    <3>1. PICK part \in Part : part.part # "body" /\ WritePart(part)
      BY <2>1, <2>3, PartTypes
    <3> QED BY <2>1, <2>2, <3>1, WriteKeeps
  <2>4. CASE WriteLastPart(BodyPart(main.req))
    <3>1. PICK part \in Part : part.val = main.req /\ WriteLastPart(part)
      BY <2>1, <2>4, PartTypes
    <3>2. \A e, o : ~PartFills(part, e, o)
      BY <2>1, <3>1 DEF PartFills, IsFillPart
    <3> QED BY <2>1, <2>2, <3>1, <3>2, FlushKeeps
  <2> QED BY <1>3, <2>3, <2>4 DEF MainSerialize
<1>4. CASE FixDone \/ FixDrop
  <2>1. FixReturn /\ fromVenue # <<>> /\ UNCHANGED <<serial, serVars, venueVars>>
    BY <1>4 DEF FixDone, FixDrop, CanDeliver, TInv, GInv, FixInv
  <2> QED BY <2>1, ReturnKeeps
<1>5. CASE FixUnsetSocket
  BY <1>5, DieTrades DEF FixUnsetSocket
<1>6. CASE FixLookup \/ FixLookupRace \/ FixReply
  <2>1. CASE Die("race")
    BY <2>1, DieTrades
  <2>2. CASE ~Die("race")
    <3>1. /\ UNCHANGED <<fromVenue, pending, wire, serVars, venueVars>>
          /\ fix.at # "done" /\ (fix.at # "idle" \/ fix'.rpt = Head(fromVenue))
          /\ fix.at # "idle" => fix'.rpt = fix.rpt
      BY <1>6, <2>2 DEF FixLookup, FixLookupRace, FixReply, CanDeliver, TInv, GInv, FixInv
    <3>2. FixHead'
      BY <3>1 DEF TInv, FixHead
    <3>3. UNCHANGED <<fromVenue, pending, wire, strategyId, todo, trades, executed>>
      BY <3>1 DEF serVars, venueVars
    <3>4. SerTypes'
      BY <3>3 DEF TInv, SerTypes
    <3> QED BY <3>1, <3>2, <3>3, <3>4, Fewer, PlaceFrame
  <2> QED BY <2>1, <2>2
<1>7. CASE FixSerialize
  <2>1. /\ fix.rpt \in Report /\ fix.sid \in Sids /\ fix.rpt = Head(fromVenue) /\ fromVenue # <<>>
        /\ fix.at \in {"ser1", "ser2", "ser3"} /\ fix'.rpt = fix.rpt
        /\ fromVenue' = fromVenue /\ fromVenue \in Seq(Report)
    BY <1>7 DEF FixSerialize, TInv, GInv, FixInv, FixHead, Sids
  <2>2. FixHead'
    BY <2>1 DEF FixHead
  <2>3. CASE WritePart(SidPart(fix.sid)) \/ WritePart(TypePart("EXEC_RPT"))
    <3>1. PICK part \in Part : part.part # "body" /\ WritePart(part)
      BY <2>1, <2>3, PartTypes
    <3> QED BY <2>1, <2>2, <3>1, WriteKeeps
  <2>4. CASE fix.at = "ser3" /\ WriteLastPart(BodyPart(fix.rpt)) /\ fix' = [fix EXCEPT !.at = "done"]
    <3>1. PICK part \in Part : part.val = fix.rpt /\ WriteLastPart(part)
      BY <2>1, <2>4, PartTypes
    <3>2. fix'.at = "done"
      BY <2>4 DEF TInv, GInv, FixInv
    <3>3. 1 \in DOMAIN fromVenue /\ fix.rpt = fromVenue[1]
      BY <2>1
    <3>4. \A e, o : PartFills(part, e, o) => InVenue(1, e, o)
      BY <2>4, <3>1, <3>3 DEF PartFills, IsFillPart, InVenue
    <3> QED BY <2>1, <2>2, <2>4, <3>1, <3>2, <3>4, FlushKeeps
  <2> QED BY <1>7, <2>3, <2>4 DEF FixSerialize
<1> QED BY <1>1, <1>2, <1>3, <1>4, <1>5, <1>6, <1>7 DEF MainStep, FixStep

LEMMA GatewayTrades ==
  ASSUME TInv, ~FileStore \/ UNCHANGED crashes, GatewayNext
  PROVE  TInv'
<1> USE DEF life, caches, serial, session, venue, clients
<1>1. GInv'
  BY GStep DEF TInv, GatewayNext, Next
<1>2. UNCHANGED <<serVars, venueVars>> /\ taken' \in Nat
  BY DEF GatewayNext, venueVars, TInv
<1>3. CASE MainStep \/ FixStep
  BY <1>1, <1>2, <1>3, ThreadsTrades DEF TInv
<1>4. CASE Process
  <2>1. CASE Kill
    BY <1>1, <1>2, <2>1, DieTrades DEF Kill, TInv
  <2>2. CASE Start \/ MakeMsgProcessor \/ FinishInit
    BY <1>1, <1>2, <2>2, TFrame DEF Start, MakeMsgProcessor, FinishInit, TInv
  <2> QED BY <1>4, <2>1, <2>2 DEF Process
<1>5. CASE Strategies \/ Logon \/ Logout
  <2>1. UNCHANGED <<fix, fromVenue, pending, wire>>
    BY <1>5 DEF Strategies, Connect, SendAdmin, SendRequest, Logon, Logout
  <2> QED BY <1>1, <1>2, <2>1, TFrame DEF TInv
<1> QED BY <1>3, <1>4, <1>5 DEF GatewayNext

-----------------------------------------------------------------------------
(* The venue *)

LEMMA NextIsRequest ==
  ASSUME TInv, NEW type, NextRequest(type)
  PROVE  TakenReq.oid \in OrderId /\ TakenReq.orig \in Oids
<1>1. taken < Len(sent) /\ sent \in Seq(SentMsg)
  BY DEF NextRequest, TInv, GInv, SessionInv
<1>2. taken + 1 \in DOMAIN sent
  BY <1>1 DEF TInv
<1>3. TakenReq \in Request
  <2>1. PICK m : m = sent[taken + 1]
    OBVIOUS
  <2>2. m \in SentMsg
    BY <1>1, <1>2, <2>1
  <2> QED BY <2>1, <2>2 DEF TakenReq, SentMsg
<1> QED BY <1>3, GatewayAssumption DEF ReqShape, Oids

\* A report of the venue is the first of a new execution, or of none.
LEMMA VenueReports ==
  ASSUME TInv, VenueNext
  PROVE  \E rpt \in Report :
           /\ VenueReport(rpt)
           /\ \/ ~IsFill(rpt) /\ executed' = executed
              \/ /\ rpt.body.exec \notin DOMAIN executed
                 /\ executed' = Put(executed, rpt.body.exec, rpt.oid)
<1>1. ASSUME NEW oid \in OrderId, NEW st \in Status, NEW orig \in Oids, NEW exec \in Execs
      PROVE  /\ ExecReport(oid, Body(st, orig, exec)) \in Report
             /\ ExecReport(oid, Body(st, orig, exec)).oid = oid
             /\ ExecReport(oid, Body(st, orig, exec)).body.status = st
             /\ ExecReport(oid, Body(st, orig, exec)).body.exec = exec
  BY FlowAssumption DEF ExecReport, Body, Report, FlowBody, Oids, Execs
<1>2. ASSUME NEW oid \in OrderId, NEW orig \in Oids
      PROVE  CancelReject(oid, orig) \in Report /\ ~IsFill(CancelReject(oid, orig))
  BY FlowAssumption
  DEF CancelReject, Body, Report, FlowBody, Oids, Status, IsFill, Fills
<1>3. NO_OID \in Oids /\ NO_OID \in Execs /\ OrderId \subseteq Oids /\ Exec \subseteq Execs
  BY DEF Oids, Execs
<1>4. ASSUME NEW oid \in OrderId, NEW st \in Status \ Fills, NEW orig \in Oids,
             VenueReport(ExecReport(oid, Body(st, orig, NO_OID))), executed' = executed
      PROVE  \E rpt \in Report : VenueReport(rpt) /\ ~IsFill(rpt) /\ executed' = executed
  BY <1>1, <1>3, <1>4 DEF IsFill
<1>5. {"NEW", "REJECTED", "CANCELLED", "REPLACE", "EXPIRED"} \subseteq Status \ Fills
  BY DEF Status, Fills
<1>6. CASE AcceptNew \/ RejectNew
  BY <1>3, <1>4, <1>5, <1>6, NextIsRequest DEF AcceptNew, RejectNew
<1>7. CASE DoCancel \/ DoReplace
  BY <1>3, <1>4, <1>5, <1>7, NextIsRequest DEF DoCancel, DoReplace
<1>8. CASE TooLate
  BY <1>2, <1>8, NextIsRequest DEF TooLate
<1>9. ASSUME NEW oid \in OrderId, NEW exec \in Exec, NEW status \in {"PARTIAL_FILL", "FILL"},
             ExecuteOrder(oid, exec, status)
      PROVE  \E rpt \in Report :
               /\ VenueReport(rpt) /\ rpt.body.exec \notin DOMAIN executed
               /\ executed' = Put(executed, rpt.body.exec, rpt.oid)
  <2>1. status \in Status
    BY DEF Status
  <2> QED BY <1>1, <1>3, <1>9, <2>1 DEF ExecuteOrder
<1>10. ASSUME NEW oid \in OrderId, Withdraw(oid)
       PROVE  \E rpt \in Report : VenueReport(rpt) /\ ~IsFill(rpt) /\ executed' = executed
  BY <1>3, <1>4, <1>5, <1>10 DEF Withdraw
<1> QED BY <1>6, <1>7, <1>8, <1>9, <1>10 DEF VenueNext

LEMMA VenueTrades ==
  ASSUME TInv, VenueNext
  PROVE  TInv'
<1> USE DEF life, caches, serial, session, venue, clients
<1>1. PICK rpt \in Report :
        /\ VenueReport(rpt)
        /\ \/ ~IsFill(rpt) /\ executed' = executed
           \/ /\ rpt.body.exec \notin DOMAIN executed
              /\ executed' = Put(executed, rpt.body.exec, rpt.oid)
  BY VenueReports
<1>2. GInv'
  BY <1>1, GStep DEF TInv, Next
<1>3. /\ fromVenue' = Append(fromVenue, rpt) /\ fromVenue \in Seq(Report)
      /\ UNCHANGED <<fix, pending, wire>>
  BY <1>1 DEF VenueReport, TInv, GInv, FixInv
<1>4. UNCHANGED <<strategyId, todo, trades>> /\ taken' \in Nat
  <2>1. taken' = taken \/ taken' = taken + 1
    BY DEF VenueNext, AcceptNew, RejectNew, DoCancel, DoReplace, TooLate, ExecuteOrder, Withdraw,
           NextRequest
  <2> QED BY <2>1 DEF TInv, VenueNext, serVars
<1>5. SerTypes'
  BY <1>3, <1>4 DEF TInv, SerTypes
<1>6. FixHead'
  BY <1>3 DEF TInv, GInv, FixInv, FixHead
<1>7. PICK n \in Nat : n = Len(fromVenue) + 1
  BY <1>3
<1>8. \A i \in DOMAIN fromVenue' :
        \/ i \in DOMAIN fromVenue /\ fromVenue'[i] = fromVenue[i]
        \/ i = n /\ fromVenue'[i] = rpt
  BY <1>3, <1>7
<1>9. \A w, i, e, o : Carries(w, i, e, o)' =>
        \/ Carries(w, i, e, o)
        \/ w = "venue" /\ i = n /\ IsFill(rpt) /\ e = rpt.body.exec /\ o = rpt.oid
  <2>1. \A i, e, o : InVenue(i, e, o)' =>
          \/ InVenue(i, e, o)
          \/ i = n /\ IsFill(rpt) /\ e = rpt.body.exec /\ o = rpt.oid
    BY <1>3, <1>8 DEF InVenue, IsFill
  <2> QED BY <1>3, <1>4, <2>1 DEF Carries, InPending, InWire, InTodo, InTrades
<1>10. CASE ~IsFill(rpt) /\ executed' = executed
  BY <1>2, <1>4, <1>5, <1>6, <1>9, <1>10, Fewer DEF TInv
<1>11. CASE /\ rpt.body.exec \notin DOMAIN executed
            /\ executed' = Put(executed, rpt.body.exec, rpt.oid)
  <2>1. \A e, o : e \in DOMAIN executed /\ executed[e] = o =>
                    e \in DOMAIN executed' /\ executed'[e] = o /\ e # rpt.body.exec
    BY <1>11 DEF Put
  <2>2. rpt.body.exec \in DOMAIN executed' /\ executed'[rpt.body.exec] = rpt.oid
    BY <1>11 DEF Put
  <2>3. Genuine'
    <3> SUFFICES ASSUME NEW w, NEW i, NEW e, NEW o, Carries(w, i, e, o)'
                 PROVE  (e \in DOMAIN executed /\ executed[e] = o)'
      BY DEF Genuine
    <3> QED BY <1>9, <2>1, <2>2 DEF TInv, Genuine
  <2>4. Once'
    <3> SUFFICES ASSUME NEW v, NEW w, NEW i, NEW j, NEW e, NEW o, NEW p,
                        Carries(v, i, e, o)', Carries(w, j, e, p)'
                 PROVE  v = w /\ i = j
      BY DEF Once
    <3>1. \A x, k, q : Carries(x, k, e, q) => e # rpt.body.exec
      BY <2>1 DEF TInv, Genuine
    <3> QED BY <1>9, <3>1 DEF TInv, Once
  <2> QED BY <1>2, <1>4, <1>5, <1>6, <2>3, <2>4 DEF TInv
<1> QED BY <1>1, <1>10, <1>11

-----------------------------------------------------------------------------
(* The serializer *)

\* A statement sequence has at most one trade, that of the report's body.
LEMMA StatementsLemma ==
  ASSUME NEW s \in Sids, NEW type, NEW p \in Part
  PROVE  /\ Ser!Statements(s, type, p) \in Seq(Statement)
         /\ \A i, j \in DOMAIN Ser!Statements(s, type, p) :
              /\ Ser!Statements(s, type, p)[i].op = "trade" =>
                   /\ PartFills(p, Ser!Statements(s, type, p)[i].arg,
                                   Ser!Statements(s, type, p)[i].oid)
                   /\ Ser!Statements(s, type, p)[j].op = "trade" => i = j
<1>1. PICK t : t = Ser!Statements(s, type, p)
  OBVIOUS
<1>2. \A oid \in Oids :
        /\ Ser!InsertNew(s, oid) \in Statement /\ Ser!InsertNew(s, oid).op # "trade"
        /\ Ser!InsertReplacement(s, oid) \in Statement /\ Ser!InsertReplacement(s, oid).op # "trade"
        /\ \A arg \in Status \cup Execs :
             /\ Ser!SetStatus(s, oid, arg) \in Statement /\ Ser!SetStatus(s, oid, arg).op # "trade"
             /\ Ser!InsertTrade(s, oid, arg) \in Statement
             /\ Ser!InsertTrade(s, oid, arg).arg = arg /\ Ser!InsertTrade(s, oid, arg).oid = oid
  BY DEF Ser!InsertNew, Ser!InsertReplacement, Ser!SetStatus, Ser!InsertTrade, Statement, Status
<1>3. Ser!OidIn(p) \in Oids
  <2>1. p.part = "body" => p.val \in Request \cup Report
    BY DEF Part, SidPart, TypePart, BodyPart
  <2> QED BY <2>1, GatewayAssumption DEF Ser!OidIn, ReqShape, Report, Oids
<1>4. CASE type = "ORDER_NEW"
  <2>1. PICK a \in Statement : t = <<a>> /\ a.op # "trade"
    BY <1>1, <1>2, <1>3, <1>4 DEF Ser!Statements
  <2>2. t \in Seq(Statement) /\ DOMAIN t = {1} /\ t[1] = a
    BY <2>1
  <2> QED BY <1>1, <2>1, <2>2
<1>5. CASE type = "EXEC_RPT" /\ Ser!IsExecReport(p)
  <2>1. PICK o \in Oids : o = p.val.oid
    BY <1>3, <1>5 DEF Ser!OidIn, Ser!IsExecReport
  <2>2. PICK er \in FlowBody : er = p.val.body
    <3>1. p.val \in Report
      BY <1>5, GatewayAssumption DEF Part, SidPart, TypePart, BodyPart, Ser!IsExecReport, ReqShape
    <3> QED BY <3>1, FlowAssumption DEF Report
  <2>3. t = Ser!UpdateOrder(s, o, er)
    BY <1>1, <1>5, <2>1, <2>2 DEF Ser!Statements, Ser!OidIn, Ser!IsExecReport
  <2>4. er.status \in Fills => PartFills(p, er.exec, o)
    BY <1>5, <2>1, <2>2 DEF PartFills, IsFillPart, IsFill, Ser!IsExecReport
  <2>5. er.orig \in Oids /\ er.exec \in Execs /\ er.status \in Status /\ {"CANCELLED", "FILL"} \subseteq Status
    <3>1. er.orig \in Oids /\ er.exec \in Execs /\ er.status \in Status
      BY DEF FlowBody, Oids, Execs
    <3> QED BY <3>1 DEF Status
  <2>6. CASE er.status = "REPLACE"
    <3>1. PICK a \in Statement, b \in Statement : t = <<a, b>> /\ a.op # "trade" /\ b.op # "trade"
      BY <1>2, <2>1, <2>3, <2>5, <2>6 DEF Ser!UpdateOrder
    <3>2. t \in Seq(Statement) /\ DOMAIN t = {1, 2} /\ t[1] = a /\ t[2] = b
      BY <3>1
    <3> QED BY <1>1, <3>1, <3>2
  <2>7. CASE er.status \in {"CANCELLED", "REJECTED"}
    <3>1. PICK a \in Statement : t = <<a>> /\ a.op # "trade"
      BY <1>2, <2>1, <2>3, <2>5, <2>7 DEF Ser!UpdateOrder
    <3>2. t \in Seq(Statement) /\ DOMAIN t = {1} /\ t[1] = a
      BY <3>1
    <3> QED BY <1>1, <3>1, <3>2
  <2>8. CASE er.status = "FILL"
    <3>1. PICK a \in Statement, b \in Statement :
            t = <<a, b>> /\ a.op # "trade" /\ b.arg = er.exec /\ b.oid = o
      BY <1>2, <2>1, <2>3, <2>5, <2>8 DEF Ser!UpdateOrder
    <3>2. t \in Seq(Statement) /\ DOMAIN t = {1, 2} /\ t[1] = a /\ t[2] = b
      BY <3>1
    <3> QED BY <1>1, <2>4, <2>8, <3>1, <3>2 DEF Fills
  <2>9. CASE er.status = "PARTIAL_FILL"
    <3>1. PICK b \in Statement : t = <<b>> /\ b.arg = er.exec /\ b.oid = o
      BY <1>2, <2>1, <2>3, <2>5, <2>9 DEF Ser!UpdateOrder
    <3>2. t \in Seq(Statement) /\ DOMAIN t = {1} /\ t[1] = b
      BY <3>1
    <3> QED BY <1>1, <2>4, <2>9, <3>1, <3>2 DEF Fills
  <2>10. CASE er.status \notin {"REPLACE", "CANCELLED", "REJECTED", "FILL", "PARTIAL_FILL"}
    <3>1. t = <<>>
      BY <2>3, <2>10 DEF Ser!UpdateOrder
    <3> QED BY <1>1, <3>1
  <2> QED BY <2>6, <2>7, <2>8, <2>9, <2>10
<1>6. CASE ~(type = "ORDER_NEW") /\ ~(type = "EXEC_RPT" /\ Ser!IsExecReport(p))
  <2>1. t = <<>>
    BY <1>1, <1>6 DEF Ser!Statements
  <2> QED BY <1>1, <2>1
<1> QED BY <1>4, <1>5, <1>6

\* A message leaves the wire, and what it asks for is to be done.
LEMMA ReadTrades ==
  ASSUME TInv, Ser!ReadMessage, UNCHANGED <<fix, fromVenue, pending, executed>>
  PROVE  SerTypes' /\ Genuine' /\ Once'
<1>1. /\ wire \in Seq(Part) /\ Len(wire) >= 3 /\ wire' = SubSeq(wire, 4, Len(wire))
      /\ UNCHANGED trades
  BY DEF TInv, SerTypes, Ser!ReadMessage, Ser!Abort, Ser!db
<1>2. /\ wire' \in Seq(Part)
      /\ \A i \in DOMAIN wire' :
           i \in Nat \ {0} /\ i + 3 \in DOMAIN wire /\ wire'[i] = wire[i + 3]
  BY <1>1
<1>3. wire[1] \in Part /\ wire[3] \in Part /\ 3 \in DOMAIN wire
  BY <1>1
<1>4. PICK n : /\ todo' \in Seq(Statement) /\ strategyId' \in Sids
               /\ \A i \in DOMAIN todo' : todo'[i].op = "trade" =>
                    i = n /\ PartFills(wire[3], todo'[i].arg, todo'[i].oid)
  <2>1. CASE Ser!Abort
    BY <2>1 DEF Ser!Abort, Sids
  <2>2. CASE ~Ser!Abort
    <3>1. PICK sid, type : /\ sid = Ser!StrategyIdFrom(wire[1]) /\ strategyId' = sid
                           /\ todo' = Ser!Statements(sid, type, wire[3])
      BY <2>2 DEF Ser!ReadMessage
    <3>2. sid \in Sids
      BY <1>3, <3>1 DEF Ser!StrategyIdFrom, Part, SidPart, TypePart, BodyPart, TInv, SerTypes
    <3>3. /\ todo' \in Seq(Statement)
          /\ \A i, j \in DOMAIN todo' :
               todo'[i].op = "trade" =>
                 PartFills(wire[3], todo'[i].arg, todo'[i].oid) /\ (todo'[j].op = "trade" => i = j)
      BY <1>3, <3>1, <3>2, StatementsLemma
    <3>4. CASE \E k \in DOMAIN todo' : todo'[k].op = "trade"
      BY <3>1, <3>2, <3>3, <3>4
    <3>5. CASE \A k \in DOMAIN todo' : todo'[k].op # "trade"
      BY <3>1, <3>2, <3>3, <3>5
    <3> QED BY <3>4, <3>5
  <2> QED BY <2>1, <2>2
<1>5. SerTypes'
  BY <1>1, <1>2, <1>4 DEF TInv, SerTypes
<1>6. \A i, e, o : InWire(i, e, o)' => i \in Nat \ {0} /\ InWire(i + 3, e, o)
  BY <1>2 DEF InWire, PartFills, IsFillPart
<1>7. \A i, e, o : InTodo(i, e, o)' => i = n /\ InWire(3, e, o)
  BY <1>3, <1>4 DEF InTodo, InWire
<1>8. \A i, e, o : /\ InVenue(i, e, o)' => InVenue(i, e, o)
                   /\ InPending(i, e, o)' => InPending(i, e, o)
                   /\ InTrades(i, e, o)' => InTrades(i, e, o)
  BY <1>1 DEF InVenue, InPending, InTrades
<1>9. \A w, i, e, o : Carries(w, i, e, o)' =>
        \/ w = "wire" /\ i \in Nat \ {0} /\ Carries("wire", i + 3, e, o)
        \/ w = "todo" /\ i = n /\ Carries("wire", 3, e, o)
        \/ w # "wire" /\ Carries(w, i, e, o)
  BY <1>6, <1>7, <1>8 DEF Carries
<1>10. "wire" # "todo" /\ 3 \in Nat /\ 3 <= 3 /\ executed' = executed
  OBVIOUS
<1>11. Genuine' /\ Once'
  BY ONLY TInv, <1>9, <1>10, HeadMoves, ZenonT(60)
<1> QED BY <1>5, <1>11

\* A statement that is executed leaves at most a row.
LEMMA RunTrades ==
  ASSUME TInv, Ser!RunStatement, UNCHANGED <<fix, fromVenue, pending, executed>>
  PROVE  SerTypes' /\ Genuine' /\ Once'
<1>1. PICK st : st = Head(todo)
  OBVIOUS
<1>2. /\ todo \in Seq(Statement) /\ todo # <<>> /\ trades \in Seq(Trade)
      /\ todo' = Tail(todo) /\ Ser!Execute(st)
      /\ UNCHANGED <<wire, strategyId>>
  BY <1>1 DEF TInv, SerTypes, Ser!RunStatement
<1>3. st \in Statement /\ 1 \in DOMAIN todo /\ st = todo[1]
  BY <1>1, <1>2
<1>4. /\ todo' \in Seq(Statement)
      /\ \A i \in DOMAIN todo' :
           i \in Nat \ {0} /\ i + 1 \in DOMAIN todo /\ todo'[i] = todo[i + 1]
  BY <1>2
<1>5. PICK row : row = [sid |-> st.sid, oid |-> st.oid, exec |-> st.arg]
  OBVIOUS
<1>6. row \in Trade /\ row.oid = st.oid /\ row.exec = st.arg
  BY <1>3, <1>5 DEF Trade, Statement
<1>7. trades' = trades \/ (st.op = "trade" /\ trades' = Append(trades, row))
  BY <1>2, <1>3, <1>5 DEF Ser!Execute, Statement
<1>8. PICK n \in Nat : n = Len(trades) + 1
  BY <1>2
<1>9. /\ trades' \in Seq(Trade)
      /\ \A i \in DOMAIN trades' :
           \/ i \in DOMAIN trades /\ trades'[i] = trades[i]
           \/ i = n /\ trades'[i] = row /\ st.op = "trade"
  <2>1. CASE trades' = trades
    BY <1>2, <2>1
  <2>2. CASE st.op = "trade" /\ trades' = Append(trades, row)
    <3>1. trades' \in Seq(Trade)
      BY <1>2, <1>6, <2>2, AppendProperties
    <3>2. /\ Len(trades') = Len(trades) + 1 /\ trades'[Len(trades) + 1] = row
          /\ \A i \in 1 .. Len(trades) : trades'[i] = trades[i]
      BY <1>2, <1>6, <2>2, AppendProperties
    <3>3. DOMAIN trades = 1 .. Len(trades) /\ DOMAIN trades' = 1 .. Len(trades') /\ Len(trades) \in Nat
      BY <1>2, <3>1
    <3>4. \A i \in DOMAIN trades' :
            \/ i \in DOMAIN trades /\ trades'[i] = trades[i]
            \/ i = n /\ trades'[i] = row
      BY <1>8, <3>2, <3>3
    <3> QED BY <2>2, <3>1, <3>4
  <2> QED BY <1>7, <2>1, <2>2
<1>10. SerTypes'
  BY <1>2, <1>4, <1>9 DEF TInv, SerTypes
<1>11. \A i, e, o : InTodo(i, e, o)' => i \in Nat \ {0} /\ InTodo(i + 1, e, o)
  BY <1>4 DEF InTodo
<1>12. \A i, e, o : InTrades(i, e, o)' => InTrades(i, e, o) \/ (i = n /\ InTodo(1, e, o))
  BY <1>3, <1>6, <1>9 DEF InTrades, InTodo
<1>13. \A i, e, o : /\ InVenue(i, e, o)' => InVenue(i, e, o)
                    /\ InPending(i, e, o)' => InPending(i, e, o)
                    /\ InWire(i, e, o)' => InWire(i, e, o)
  BY <1>2 DEF InVenue, InPending, InWire
<1>14. \A w, i, e, o : Carries(w, i, e, o)' =>
         \/ w = "todo" /\ i \in Nat \ {0} /\ Carries("todo", i + 1, e, o)
         \/ w = "trades" /\ i = n /\ Carries("todo", 1, e, o)
         \/ w # "todo" /\ Carries(w, i, e, o)
  BY <1>11, <1>12, <1>13 DEF Carries
<1>15. "todo" # "trades" /\ 1 \in Nat /\ 1 <= 1 /\ executed' = executed
  OBVIOUS
<1>16. Genuine' /\ Once'
  BY ONLY TInv, <1>14, <1>15, HeadMoves, ZenonT(60)
<1> QED BY <1>10, <1>16

LEMMA SerializerTrades ==
  ASSUME TInv, SerializerNext
  PROVE  TInv'
<1>1. /\ Ser!SerNext
      /\ UNCHANGED <<life, caches, main, fix, clientQ, internalQ, pending, session, venue, clients,
                     delivered, taken, executed>>
  BY DEF SerializerNext, venueVars
<1>2. GInv' /\ taken' \in Nat /\ FixHead' /\ UNCHANGED <<fix, fromVenue, pending, executed>>
  BY <1>1, Frames DEF TInv, GInv, FixHead, life, caches, session, venue, clients
<1>3. CASE Ser!ReadMessage
  BY <1>2, <1>3, ReadTrades DEF TInv
<1>4. CASE Ser!RunStatement
  BY <1>2, <1>4, RunTrades DEF TInv
<1>5. CASE Ser!StatementThrows
  <2>1. UNCHANGED <<wire, trades>> /\ todo \in Seq(Statement) /\ todo # <<>> /\ strategyId \in Sids
    BY <1>5 DEF Ser!StatementThrows, Ser!db, TInv, SerTypes
  <2>2. CASE todo' = Tail(todo) /\ UNCHANGED strategyId
    <3>1. /\ todo' \in Seq(Statement)
          /\ \A i \in DOMAIN todo' :
               i \in Nat /\ i + 1 \in DOMAIN todo /\ todo'[i] = todo[i + 1]
      BY <2>1, <2>2
    <3>2. SerTypes'
      BY <1>2, <2>1, <2>2, <3>1 DEF TInv, SerTypes
    <3>3. \A i, e, o : InTodo(i, e, o)' => i \in Nat /\ InTodo(i + 1, e, o)
      BY <3>1 DEF InTodo
    <3>4. \A w, i, e, o : Carries(w, i, e, o)' =>
            IF w = "todo" THEN i \in Nat /\ Carries("todo", i + 1, e, o) ELSE Carries(w, i, e, o)
      BY <1>2, <2>1, <3>3 DEF Carries, InVenue, InPending, InWire, InTrades
    <3>5. Genuine' /\ Once'
      BY <1>2, <3>4, MovesUp
    <3> QED BY <1>2, <3>2, <3>5 DEF TInv
  <2>3. CASE todo' = <<>> /\ strategyId' = NO_SID
    <3>1. SerTypes'
      BY <1>2, <2>1, <2>3 DEF TInv, SerTypes, Sids
    <3>2. \A w, i, e, o : Carries(w, i, e, o)' => Carries(w, i, e, o)
      BY <1>2, <2>1, <2>3 DEF Carries, InVenue, InPending, InWire, InTodo, InTrades
    <3> QED BY <1>2, <3>1, <3>2, Fewer DEF TInv
  <2> QED BY <1>5, <2>2, <2>3 DEF Ser!StatementThrows
<1>6. CASE Ser!SerKilled
  <2>1. wire' \in {wire, <<>>} /\ todo' = <<>> /\ strategyId' = NO_SID /\ UNCHANGED trades
    BY <1>6 DEF Ser!SerKilled, Ser!Abort, Ser!db
  <2>2. SerTypes'
    <3>0. /\ wire \in Seq(Part) /\ trades \in Seq(Trade)
          /\ <<>> \in Seq(Part) /\ <<>> \in Seq(Statement)
      BY DEF TInv, SerTypes
    <3>1. wire' \in Seq(Part) /\ todo' \in Seq(Statement) /\ trades' \in Seq(Trade)
      BY <2>1, <3>0
    <3>2. pending' \in Seq(Part) /\ strategyId' \in Sids
      BY <1>2, <2>1 DEF TInv, SerTypes, Sids
    <3> QED BY <3>1, <3>2 DEF SerTypes
  <2>3. \A w, i, e, o : Carries(w, i, e, o)' => Carries(w, i, e, o)
    BY <1>2, <2>1 DEF Carries, InVenue, InPending, InWire, InTodo, InTrades
  <2> QED BY <1>2, <2>2, <2>3, Fewer DEF TInv
<1>7. CASE Ser!SerStart
  <2>1. UNCHANGED <<wire, strategyId, todo, trades>>
    BY <1>7 DEF Ser!SerStart, Ser!db
  <2>2. SerTypes'
    BY <1>2, <2>1 DEF TInv, SerTypes
  <2>3. \A w, i, e, o : Carries(w, i, e, o)' => Carries(w, i, e, o)
    BY <1>2, <2>1, PlaceFrame
  <2> QED BY <1>2, <2>2, <2>3, Fewer DEF TInv
<1> QED BY <1>1, <1>3, <1>4, <1>5, <1>6, <1>7 DEF Ser!SerNext

LEMMA TInvInit == FlowInit => TInv
<1> SUFFICES ASSUME FlowInit PROVE TInv
  OBVIOUS
<1>1. /\ fromVenue = <<>> /\ pending = <<>> /\ wire = <<>> /\ todo = <<>> /\ trades = <<>>
      /\ strategyId = NO_SID /\ taken = 0 /\ fix.at = "idle"
  BY DEF FlowInit, Init, Ser!SerInit, FixIdle
<1>2. \A w, i, e, o : ~Carries(w, i, e, o)
  BY <1>1 DEF Carries, InVenue, InPending, InWire, InTodo, InTrades
<1>3. SerTypes /\ FixHead /\ Genuine /\ Once
  BY <1>1, <1>2 DEF SerTypes, Sids, FixHead, Genuine, Once
<1> QED BY <1>1, <1>3, GInit DEF TInv, FlowInit

LEMMA TInvStutters ==
  ASSUME TInv, UNCHANGED flowVars
  PROVE  TInv'
<1>1. UNCHANGED <<vars, serVars, venueVars>>
  BY DEF flowVars
<1>2. GInv' /\ taken' \in Nat
  BY <1>1, GStep DEF TInv, venueVars
<1>3. SerTypes' /\ FixHead' /\ Genuine' /\ Once'
  BY <1>1, TFrame DEF vars, serial, venue
<1> QED BY <1>2, <1>3 DEF TInv

\* For every number of strategies, orders, executions, failed statements and
\* crashes of either process, with the threads of the gateway running at once
\* and mixing the parts of their messages: a row of trades is an execution of
\* the venue, under the order it executed, and no execution has two rows.
\* With a file store a report is delivered again when a crash comes between
\* its last part and the return of the callback, and is booked again.
THEOREM TradesAreExecutions ==
  ASSUME ~FileStore
  PROVE  FlowSpec => []NoFalseTrades
<1>1. TInv /\ [FlowNext]_flowVars => TInv'
  <2> SUFFICES ASSUME TInv, [FlowNext]_flowVars PROVE TInv'
    OBVIOUS
  <2>1. CASE VenueNext
    BY <2>1, VenueTrades
  <2>2. CASE GatewayNext
    BY <2>2, GatewayTrades
  <2>3. CASE SerializerNext
    BY <2>3, SerializerTrades
  <2>4. CASE UNCHANGED flowVars
    BY <2>4, TInvStutters
  <2> QED BY <2>1, <2>2, <2>3, <2>4 DEF FlowNext
<1> QED BY <1>1, TInvInit, TProperty, PTL DEF FlowSpec

-----------------------------------------------------------------------------
(* A replacement is recorded before the order it replaces is cancelled.    *)
(*                                                                         *)
(* The report of a replacement says the truth about the venue wherever it  *)
(* is, and what it says stays true: the venue accepts one replacement of   *)
(* an order, since it takes each request once (UInv) and the order is no   *)
(* longer live afterwards.  The statements of the serializer then keep the *)
(* replacement ahead of the cancellation.                                  *)

\* Order n is a replacement of order o that the venue has accepted.
Replaces(n, o) ==
  /\ n \in DOMAIN venueState
  /\ \E q \in Request : q.type = "ORDER_REPLACE" /\ q.oid = n /\ q.orig = o

\* The order was cancelled on request, or a report names none.
CancelledAt(o) == o = NO_OID \/ (o \in DOMAIN venueState /\ venueState[o] = "cancelled")

\* The venue knows the orders of the requests it took.
TakenInv ==
  /\ taken \in 0 .. Len(sent)
  /\ \A o \in DOMAIN venueState : \E i \in 1 .. taken : sent[i].req.oid = o

ReplacedInv ==
  /\ \A n, o : Replaces(n, o) => o \in DOMAIN venueState /\ venueState[o] = "replaced"
  /\ \A m, n, o : Replaces(m, o) /\ Replaces(n, o) => m = n

IsTrue(r) ==
  /\ r.body.status = "REPLACE" => Replaces(r.oid, r.body.orig)
  /\ r.body.status = "CANCELLED" => CancelledAt(r.body.orig)

\* A report on its way from the venue to the serializer.
InTransit(r) ==
  \/ \E i \in DOMAIN fromVenue : r = fromVenue[i]
  \/ \E i \in DOMAIN pending : Ser!IsExecReport(pending[i]) /\ r = pending[i].val
  \/ \E i \in DOMAIN wire : Ser!IsExecReport(wire[i]) /\ r = wire[i].val

TrueReports == \A r : InTransit(r) => IsTrue(r)

Cancels(st) == st.op # "trade" /\ st.arg = "CANCELLED"

\* Order o of strategy s may be marked CANCELLED.
MayCancel(s, o) ==
  CancelledAt(o) \/ \E n : Replaces(n, o) /\ <<s, n>> \in DOMAIN orders

\* The statement before the second one inserts the replacement.
InsertsFirst ==
  /\ todo[1].op = "insert" /\ todo[1].sid = todo[2].sid
  /\ Replaces(todo[1].oid, todo[2].oid)

TodoInv ==
  \A i \in DOMAIN todo :
    Cancels(todo[i]) => MayCancel(todo[i].sid, todo[i].oid) \/ (i = 2 /\ InsertsFirst)

RowsInv ==
  \A s, o : <<s, o>> \in DOMAIN orders /\ orders[<<s, o>>] = "CANCELLED" => MayCancel(s, o)

RecordedInv == sqlErrors = 0 => TodoInv /\ RowsInv

RInv ==
  /\ UInv /\ SerTypes /\ FixHead /\ sqlErrors \in Nat
  /\ TakenInv /\ ReplacedInv /\ TrueReports /\ RecordedInv

-----------------------------------------------------------------------------
\* The invariant gives the property: the one accepted replacement of an order
\* that was not cancelled is the one that has a row.
LEMMA RProperty == RInv => ReplacementRecordedFirst
<1> SUFFICES ASSUME RInv, sqlErrors = 0, NEW q \in used, NEW s \in Strategy \cup {NO_SID},
                    q.type = "ORDER_REPLACE", q.oid \in DOMAIN venueState,
                    <<s, q.orig>> \in DOMAIN orders, orders[<<s, q.orig>>] = "CANCELLED"
             PROVE  <<s, q.oid>> \in DOMAIN orders
  BY DEF ReplacementRecordedFirst
<1>1. q \in Request /\ Replaces(q.oid, q.orig)
  BY DEF RInv, UInv, GInv, SessionInv, Replaces
<1>2. q.orig \in DOMAIN venueState /\ venueState[q.orig] = "replaced"
  BY <1>1 DEF RInv, ReplacedInv
<1>3. q.orig # NO_OID
  <2>1. PICK i \in 1 .. taken : sent[i].req.oid = q.orig
    BY <1>2 DEF RInv, TakenInv
  <2>2. i \in 1 .. Len(sent) /\ sent \in Seq(SentMsg)
    BY DEF RInv, TakenInv, UInv, GInv, SessionInv
  <2>3. sent[i] \in SentMsg
    BY <2>2
  <2> QED BY <2>1, <2>3, GatewayAssumption DEF SentMsg, ReqShape
<1>4. ~CancelledAt(q.orig)
  BY <1>2, <1>3 DEF CancelledAt
<1>5. MayCancel(s, q.orig)
  BY DEF RInv, RecordedInv, RowsInv
<1>6. PICK n : Replaces(n, q.orig) /\ <<s, n>> \in DOMAIN orders
  BY <1>4, <1>5 DEF MayCancel
<1> QED BY <1>1, <1>6 DEF RInv, ReplacedInv

\* What the venue did stays done.
VenueKeeps ==
  /\ \A o : CancelledAt(o) => CancelledAt(o)'
  /\ \A n, o : Replaces(n, o) => Replaces(n, o)'

LEMMA VenueFrame ==
  ASSUME UNCHANGED venueState
  PROVE  VenueKeeps /\ (ReplacedInv => ReplacedInv')
BY DEF VenueKeeps, CancelledAt, Replaces, ReplacedInv

LEMMA RecordedFrame ==
  ASSUME RInv, VenueKeeps, UNCHANGED <<todo, orders, sqlErrors>>
  PROVE  RecordedInv'
<1>1. \A s, o : MayCancel(s, o) => MayCancel(s, o)'
  BY DEF MayCancel, VenueKeeps
<1>2. InsertsFirst => InsertsFirst'
  BY DEF InsertsFirst, VenueKeeps
<1> QED BY <1>1, <1>2 DEF RInv, RecordedInv, TodoInv, RowsInv, Cancels

LEMMA TruthFrame ==
  ASSUME RInv, VenueKeeps, NEW r, IsTrue(r)
  PROVE  IsTrue(r)'
BY DEF IsTrue, VenueKeeps

-----------------------------------------------------------------------------
(* The venue *)

\* A request is taken once, under an id the venue does not know.
LEMMA FreshRequest ==
  ASSUME RInv, NEW type, NextRequest(type), UNCHANGED sent
  PROVE  /\ TakenReq \in Request /\ TakenReq.type = type
         /\ TakenReq.oid \notin DOMAIN venueState
         /\ DOMAIN venueState' \subseteq DOMAIN venueState \cup {TakenReq.oid} => TakenInv'
<1>1. PICK n \in Nat : n = taken + 1
  BY DEF RInv, TakenInv
<1>2. /\ taken < Len(sent) /\ sent \in Seq(SentMsg) /\ taken \in Nat /\ taken' = n
      /\ Len(sent) \in Nat
  BY <1>1 DEF NextRequest, RInv, TakenInv, UInv, GInv, SessionInv
<1>3. n \in DOMAIN sent /\ n \in 1 .. Len(sent) /\ n \in 1 .. n /\ 1 .. taken \subseteq 1 .. n
      /\ 1 .. taken \subseteq DOMAIN sent /\ n \notin 1 .. taken
  BY <1>1, <1>2
<1>4. PICK m \in SentMsg : m = sent[n]
  BY <1>2, <1>3
<1>5. TakenReq = m.req /\ m.req \in Request
  BY <1>1, <1>4 DEF TakenReq, SentMsg
<1>6. TakenReq.type = type
  BY DEF NextRequest, TakenReq
<1>7. TakenReq.oid \notin DOMAIN venueState
  BY <1>3, <1>4, <1>5 DEF RInv, TakenInv, UInv, UniqueInv
<1>8. ASSUME DOMAIN venueState' \subseteq DOMAIN venueState \cup {TakenReq.oid}
      PROVE  TakenInv'
  <2>1. \A o \in DOMAIN venueState' : \E i \in 1 .. n : sent[i].req.oid = o
    BY <1>3, <1>4, <1>5, <1>8 DEF RInv, TakenInv
  <2> QED BY <1>2, <1>3, <2>1 DEF TakenInv
<1> QED BY <1>5, <1>6, <1>7, <1>8

\* A live order changes.
LEMMA LiveChanges ==
  ASSUME RInv, NEW o, IsLive(o), NEW x, venueState' = Put(venueState, o, x)
  PROVE  VenueKeeps /\ ReplacedInv' /\ DOMAIN venueState' = DOMAIN venueState /\ venueState'[o] = x
<1>1. /\ DOMAIN venueState' = DOMAIN venueState /\ venueState'[o] = x
      /\ \A p \in DOMAIN venueState : p # o => venueState'[p] = venueState[p]
  BY DEF IsLive, Put
<1>2. \A n, p : Replaces(n, p)' <=> Replaces(n, p)
  BY <1>1 DEF Replaces
<1>3. VenueKeeps
  BY <1>1, <1>2 DEF VenueKeeps, CancelledAt, IsLive
<1>4. ReplacedInv'
  BY <1>1, <1>2 DEF RInv, ReplacedInv, IsLive
<1> QED BY <1>1, <1>3, <1>4

\* A new order is accepted or rejected.
LEMMA NewDecided ==
  ASSUME RInv, NextRequest("ORDER_NEW"), UNCHANGED sent, NEW x,
         venueState' = Put(venueState, TakenReq.oid, x)
  PROVE  VenueKeeps /\ ReplacedInv' /\ TakenInv'
<1>1. PICK q \in Request : /\ q = TakenReq /\ q.type = "ORDER_NEW" /\ q.oid \notin DOMAIN venueState
  BY FreshRequest
<1>2. /\ DOMAIN venueState' = DOMAIN venueState \cup {q.oid}
      /\ \A p \in DOMAIN venueState : venueState'[p] = venueState[p]
  BY <1>1 DEF Put
<1>3. \A n, p : Replaces(n, p)' <=> Replaces(n, p)
  BY <1>1, <1>2, GatewayAssumption DEF Replaces
<1>4. VenueKeeps
  BY <1>2, <1>3 DEF VenueKeeps, CancelledAt
<1>5. ReplacedInv'
  BY <1>2, <1>3 DEF RInv, ReplacedInv
<1> QED BY <1>1, <1>2, <1>4, <1>5, FreshRequest

\* A replacement is accepted: the only one of a live order.
LEMMA ReplaceAccepted ==
  ASSUME RInv, DoReplace, UNCHANGED sent
  PROVE  /\ VenueKeeps /\ ReplacedInv' /\ TakenInv'
         /\ \A n, o : n = TakenReq.oid /\ o = TakenReq.orig => Replaces(n, o)'
<1>1. PICK q \in Request : /\ q = TakenReq /\ q.type = "ORDER_REPLACE"
                           /\ q.oid \notin DOMAIN venueState
  BY FreshRequest DEF DoReplace
<1>2. q.orig \in DOMAIN venueState /\ venueState[q.orig] = "live" /\ q.orig # q.oid
  BY <1>1 DEF DoReplace, IsLive
<1>3. /\ DOMAIN venueState' = DOMAIN venueState \cup {q.oid}
      /\ venueState'[q.orig] = "replaced"
      /\ \A p \in DOMAIN venueState : p # q.orig => venueState'[p] = venueState[p]
  BY <1>1, <1>2 DEF DoReplace, Put
<1>4. \A n, p : Replaces(n, p)' <=> Replaces(n, p) \/ (n = q.oid /\ p = q.orig)
  BY <1>1, <1>3, GatewayAssumption DEF Replaces
<1>5. \A n, p : Replaces(n, p) => p # q.orig
  BY <1>2 DEF RInv, ReplacedInv
<1>6. VenueKeeps
  BY <1>2, <1>3, <1>4 DEF VenueKeeps, CancelledAt
<1>7. ReplacedInv'
  BY <1>2, <1>3, <1>4, <1>5 DEF RInv, ReplacedInv
<1>8. TakenInv'
  BY <1>1, <1>3, FreshRequest DEF DoReplace
<1> QED BY <1>1, <1>4, <1>6, <1>7, <1>8

\* The parts of a report that the venue makes.
LEMMA VenueBodies ==
  ASSUME NEW oid \in OrderId, NEW st \in Status, NEW orig \in Oids, NEW exec \in Execs
  PROVE  /\ ExecReport(oid, Body(st, orig, exec)) \in Report
         /\ ExecReport(oid, Body(st, orig, exec)).oid = oid
         /\ ExecReport(oid, Body(st, orig, exec)).body.status = st
         /\ ExecReport(oid, Body(st, orig, exec)).body.orig = orig
         /\ CancelReject(oid, orig) \in Report
         /\ CancelReject(oid, orig).body.status = "REJECTED"
BY FlowAssumption
DEF ExecReport, CancelReject, Body, Report, FlowBody, Oids, Execs, Status

\* What the venue reports is true.
LEMMA VenueTells ==
  ASSUME RInv, VenueNext
  PROVE  /\ VenueKeeps /\ ReplacedInv' /\ TakenInv'
         /\ \E rpt \in Report : VenueReport(rpt) /\ IsTrue(rpt)'
<1>0. UNCHANGED sent
  BY DEF VenueNext, AcceptNew, RejectNew, DoCancel, DoReplace, TooLate, ExecuteOrder, Withdraw,
         VenueReport, session
<1>1. /\ NO_OID \in Oids /\ NO_OID \in Execs /\ OrderId \subseteq Oids /\ Exec \subseteq Execs
      /\ {"NEW", "REJECTED", "CANCELLED", "REPLACE", "EXPIRED", "FILL", "PARTIAL_FILL"} \subseteq Status
  BY DEF Oids, Execs, Status
<1>2. ASSUME DOMAIN venueState' = DOMAIN venueState, taken' = taken
      PROVE  TakenInv'
  BY <1>0, <1>2 DEF RInv, TakenInv
<1>3. ASSUME NEW type, NextRequest(type)
      PROVE  TakenReq.oid \in OrderId /\ TakenReq.orig \in Oids
  BY <1>0, <1>3, FreshRequest, GatewayAssumption DEF ReqShape, Oids
<1>4. CASE AcceptNew \/ RejectNew
  <2>1. PICK x : venueState' = Put(venueState, TakenReq.oid, x) /\ NextRequest("ORDER_NEW")
    BY <1>4 DEF AcceptNew, RejectNew
  <2>2. PICK o \in OrderId : o = TakenReq.oid
    BY <1>3, <2>1
  <2>3. \E st \in {"NEW", "REJECTED"} : VenueReport(ExecReport(o, Body(st, NO_OID, NO_OID)))
    BY <1>4, <2>2 DEF AcceptNew, RejectNew
  <2>4. \E rpt \in Report : VenueReport(rpt) /\ IsTrue(rpt)'
    BY <1>1, <2>3, VenueBodies DEF IsTrue
  <2> QED BY <1>0, <2>1, <2>4, NewDecided
<1>5. CASE DoCancel
  <2>1. PICK o \in OrderId, p \in Oids : o = TakenReq.oid /\ p = TakenReq.orig
    BY <1>3, <1>5 DEF DoCancel
  <2>2. /\ NextRequest("ORDER_CANCEL") /\ IsLive(p) /\ venueState' = Put(venueState, p, "cancelled")
        /\ VenueReport(ExecReport(o, Body("CANCELLED", p, NO_OID)))
    BY <1>5, <2>1 DEF DoCancel
  <2>3. VenueKeeps /\ ReplacedInv' /\ DOMAIN venueState' = DOMAIN venueState
        /\ venueState'[p] = "cancelled"
    BY <2>2, LiveChanges
  <2>4. TakenInv'
    BY <1>0, <2>2, <2>3, FreshRequest
  <2>5. CancelledAt(p)'
    BY <2>2, <2>3 DEF CancelledAt, IsLive
  <2>6. \E rpt \in Report : VenueReport(rpt) /\ IsTrue(rpt)'
    BY <1>1, <2>2, <2>5, VenueBodies DEF IsTrue
  <2> QED BY <2>3, <2>4, <2>6
<1>6. CASE DoReplace
  <2>1. PICK o \in OrderId, p \in Oids : o = TakenReq.oid /\ p = TakenReq.orig
    BY <1>3, <1>6 DEF DoReplace
  <2>2. VenueReport(ExecReport(o, Body("REPLACE", p, NO_OID)))
    BY <1>6, <2>1 DEF DoReplace
  <2>3. VenueKeeps /\ ReplacedInv' /\ TakenInv'
    BY <1>0, <1>6, ReplaceAccepted
  <2>4. Replaces(o, p)'
    BY <1>0, <1>6, <2>1, ReplaceAccepted
  <2>5. \E rpt \in Report : VenueReport(rpt) /\ IsTrue(rpt)'
    BY <1>1, <2>2, <2>4, VenueBodies DEF IsTrue
  <2> QED BY <2>3, <2>5
<1>7. CASE TooLate
  <2>1. PICK type : NextRequest(type) /\ UNCHANGED venueState
    BY <1>7 DEF TooLate
  <2>2. PICK o \in OrderId, p \in Oids : o = TakenReq.oid /\ p = TakenReq.orig
    BY <1>3, <2>1
  <2>3. VenueReport(CancelReject(o, p))
    BY <1>7, <2>2 DEF TooLate
  <2>4. \E rpt \in Report : VenueReport(rpt) /\ IsTrue(rpt)'
    BY <1>1, <2>3, VenueBodies DEF IsTrue
  <2>5. TakenInv'
    BY <1>0, <2>1, FreshRequest
  <2> QED BY <2>1, <2>4, <2>5, VenueFrame DEF RInv
<1>8. ASSUME NEW o \in OrderId, NEW exec \in Exec, NEW st \in {"PARTIAL_FILL", "FILL"},
             ExecuteOrder(o, exec, st)
      PROVE  /\ VenueKeeps /\ ReplacedInv' /\ TakenInv'
             /\ \E rpt \in Report : VenueReport(rpt) /\ IsTrue(rpt)'
  <2>1. VenueKeeps /\ ReplacedInv' /\ DOMAIN venueState' = DOMAIN venueState
    <3>1. CASE venueState' = venueState
      BY <3>1, VenueFrame DEF RInv
    <3>2. CASE venueState' = Put(venueState, o, "filled")
      BY <1>8, <3>2, LiveChanges DEF ExecuteOrder
    <3> QED BY <1>8, <3>1, <3>2 DEF ExecuteOrder
  <2>2. VenueReport(ExecReport(o, Body(st, NO_OID, exec))) /\ taken' = taken
    BY <1>8 DEF ExecuteOrder
  <2>3. \E rpt \in Report : VenueReport(rpt) /\ IsTrue(rpt)'
    BY <1>1, <2>2, VenueBodies DEF IsTrue
  <2> QED BY <1>2, <2>1, <2>2, <2>3
<1>9. ASSUME NEW o \in OrderId, Withdraw(o)
      PROVE  /\ VenueKeeps /\ ReplacedInv' /\ TakenInv'
             /\ \E rpt \in Report : VenueReport(rpt) /\ IsTrue(rpt)'
  <2>1. VenueKeeps /\ ReplacedInv' /\ DOMAIN venueState' = DOMAIN venueState
    BY <1>9, LiveChanges DEF Withdraw
  <2>2. /\ taken' = taken
        /\ \/ VenueReport(ExecReport(o, Body("CANCELLED", NO_OID, NO_OID)))
           \/ VenueReport(ExecReport(o, Body("EXPIRED", o, NO_OID)))
    BY <1>9 DEF Withdraw
  <2>3. CancelledAt(NO_OID)'
    BY DEF CancelledAt
  <2>4. \E rpt \in Report : VenueReport(rpt) /\ IsTrue(rpt)'
    BY <1>1, <2>2, <2>3, VenueBodies DEF IsTrue
  <2> QED BY <1>2, <2>1, <2>2, <2>4
<1> QED BY <1>4, <1>5, <1>6, <1>7, <1>8, <1>9 DEF VenueNext

LEMMA VenueRecorded ==
  ASSUME RInv, VenueNext
  PROVE  RInv'
<1> USE DEF life, caches, serial, session, venue, clients
<1>1. VenueKeeps /\ ReplacedInv' /\ TakenInv'
  BY VenueTells
<1>2. PICK rpt \in Report : VenueReport(rpt) /\ IsTrue(rpt)'
  BY VenueTells
<1>3. UInv'
  BY <1>2, UStep DEF RInv, Next
<1>4. /\ fromVenue' = Append(fromVenue, rpt) /\ fromVenue \in Seq(Report)
      /\ UNCHANGED <<fix, pending, wire, strategyId, todo, trades, orders, sqlErrors>>
  BY <1>2 DEF VenueReport, RInv, UInv, GInv, FixInv, VenueNext, serVars
<1>5. SerTypes' /\ FixHead' /\ sqlErrors' \in Nat
  BY <1>4 DEF RInv, SerTypes, UInv, GInv, FixInv, FixHead
<1>6. \A i \in DOMAIN fromVenue' :
        (i \in DOMAIN fromVenue /\ fromVenue'[i] = fromVenue[i]) \/ fromVenue'[i] = rpt
  BY <1>4
<1>7. \A r : InTransit(r)' => InTransit(r) \/ r = rpt
  BY <1>4, <1>6 DEF InTransit
<1>8. TrueReports'
  BY <1>1, <1>2, <1>7, TruthFrame DEF RInv, TrueReports
<1>9. RecordedInv'
  BY <1>1, <1>4, RecordedFrame
<1> QED BY <1>1, <1>3, <1>5, <1>8, <1>9 DEF RInv

-----------------------------------------------------------------------------
(* The gateway *)

\* It neither takes back a request nor changes the order of what it sent.
LEMMA SentStays ==
  ASSUME RInv, GatewayNext
  PROVE  DOMAIN sent \subseteq DOMAIN sent' /\ \A i \in DOMAIN sent : sent'[i] = sent[i]
<1> USE DEF life, caches, serial, session, venue, clients
<1>1. CASE Logon
  BY <1>1, LogonMoves DEF RInv, UInv
<1>2. CASE Dispatch
  <2>1. CASE UNCHANGED sent
    BY <2>1
  <2>2. CASE SendToTarget(main.req) /\ main.req \in Request
    <3>1. PICK q \in Request : SendToTarget(q)
      BY <2>2
    <3>2. PICK n \in Nat : SentAt(n, q) \/ sent' = sent
      BY <3>1, SendAppends DEF RInv, UInv
    <3> QED BY <3>2 DEF SentAt
  <2> QED BY <1>2, <2>1, <2>2, DispatchSends DEF RInv, UInv
<1>3. CASE ~Logon /\ ~Dispatch
  <2>1. CASE \E why : Die(why)
    BY <2>1 DEF Die
  <2>2. CASE ~ \E why : Die(why)
    <3>1. CASE Process \/ Strategies \/ Logout
      BY <2>2, <3>1
      DEF Process, Start, MakeMsgProcessor, FinishInit, Kill, Strategies, Connect, SendAdmin,
          SendRequest, Logout
    <3>2. CASE MainStep
      BY <1>3, <2>2, <3>2
      DEF MainStep, Poll, HandleBad, HandleHelo, FinishHelo, HandleHeartbeat, HandleOrder,
          CacheOrder, MainSerialize, RcvInternal
    <3>3. CASE FixStep
      BY <2>2, <3>3
      DEF FixStep, FixDrop, FixUnsetSocket, FixLookup, FixLookupRace, FixReply, FixSerialize,
          FixDone
    <3> QED BY <1>3, <3>1, <3>2, <3>3 DEF GatewayNext
  <2> QED BY <2>1, <2>2
<1> QED BY <1>1, <1>2, <1>3

LEMMA TakenStays ==
  ASSUME RInv, UInv', GatewayNext
  PROVE  TakenInv'
<1>1. UNCHANGED <<taken, venueState>> /\ taken \in Nat /\ taken <= Len(sent)
  BY DEF GatewayNext, venueVars, RInv, TakenInv
<1>2. sent \in Seq(SentMsg) /\ sent' \in Seq(SentMsg)
  BY DEF RInv, UInv, GInv, SessionInv
<1>3. PICK a \in Nat, b \in Nat : a = Len(sent) /\ b = Len(sent')
  BY <1>2
<1>4. /\ 1 .. a \subseteq 1 .. b /\ DOMAIN sent = 1 .. a
      /\ \A i \in 1 .. a : sent'[i] = sent[i]
  BY <1>2, <1>3, SentStays
<1>5. a <= b
  BY <1>4
<1> QED BY <1>1, <1>3, <1>4, <1>5 DEF RInv, TakenInv

\* Nothing enters the transit.
NoNews == \A r : InTransit(r)' => InTransit(r)

LEMMA TransitFrame ==
  ASSUME RInv, UNCHANGED <<fix, fromVenue, pending, wire, strategyId, todo, trades>>
  PROVE  SerTypes' /\ FixHead' /\ NoNews
BY DEF RInv, SerTypes, FixHead, NoNews, InTransit

\* A part that is no report waits for the rest of its message.
LEMMA WriteTransit ==
  ASSUME RInv, NEW part \in Part, ~Ser!IsExecReport(part), WritePart(part),
         UNCHANGED <<fromVenue, strategyId, todo, trades>>
  PROVE  SerTypes' /\ NoNews
<1>1. pending' = Append(pending, part) /\ pending \in Seq(Part) /\ wire' = wire
  BY DEF WritePart, RInv, SerTypes
<1>2. /\ pending' \in Seq(Part)
      /\ \A i \in DOMAIN pending' :
           pending'[i] = part \/ (i \in DOMAIN pending /\ pending'[i] = pending[i])
  BY <1>1
<1>3. SerTypes'
  BY <1>1, <1>2 DEF RInv, SerTypes
<1> QED BY <1>1, <1>2, <1>3 DEF NoNews, InTransit

\* The last part of a message: a request, or a report that was in transit.
LEMMA FlushTransit ==
  ASSUME RInv, NEW part \in Part, Ser!IsExecReport(part) => InTransit(part.val),
         WriteLastPart(part), UNCHANGED <<fromVenue, strategyId, todo, trades>>
  PROVE  SerTypes' /\ NoNews
<1>1. /\ wire' \in Seq(Part) /\ pending' = <<>>
      /\ \A i \in DOMAIN wire' :
           \/ i \in DOMAIN wire /\ wire'[i] = wire[i]
           \/ \E j \in DOMAIN pending : wire'[i] = pending[j]
           \/ wire'[i] = part
  BY FlushedParts DEF RInv
<1>2. <<>> \in Seq(Part)
  OBVIOUS
<1>3. SerTypes'
  BY <1>1, <1>2 DEF RInv, SerTypes
<1>4. NoNews
  BY <1>1 DEF NoNews, InTransit
<1> QED BY <1>3, <1>4

LEMMA DieTransit ==
  ASSUME RInv, NEW why, Die(why), UNCHANGED <<strategyId, todo, trades>>
  PROVE  SerTypes' /\ FixHead' /\ NoNews
<1>1. /\ fix'.at = "idle" /\ (fromVenue' = fromVenue \/ fromVenue' = <<>>) /\ pending' = <<>>
      /\ UNCHANGED wire
  BY DEF Die, FixIdle
<1>2. SerTypes' /\ FixHead'
  BY <1>1 DEF RInv, SerTypes, FixHead
<1>3. NoNews
  BY <1>1 DEF NoNews, InTransit
<1> QED BY <1>2, <1>3

LEMMA ThreadsTransit ==
  ASSUME RInv, MainStep \/ FixStep, UNCHANGED <<strategyId, todo, trades>>
  PROVE  SerTypes' /\ FixHead' /\ NoNews
<1> USE DEF life, caches, serial, session, venue, clients
<1>0. GInv /\ SerTypes /\ FixHead
  BY DEF RInv, UInv
<1>1. CASE Poll \/ HandleBad \/ HandleHelo \/ FinishHelo \/ HandleHeartbeat \/ CacheOrder \/ Dispatch
  BY <1>1, TransitFrame
  DEF Poll, HandleBad, HandleHelo, FinishHelo, HandleHeartbeat, CacheOrder, Dispatch
<1>2. CASE HandleOrder \/ RcvInternal
  BY <1>2, TransitFrame, DieTransit DEF HandleOrder, RcvInternal
<1>3. CASE MainSerialize
  <2>1. /\ main.req \in Request /\ UNCHANGED <<fix, fromVenue>>
        /\ main.req.sid \in Sids /\ "kind" \notin DOMAIN main.req
    BY <1>0, <1>3, GatewayAssumption DEF MainSerialize, GInv, MainInv, ReqShape, Sids
  <2>2. FixHead'
    BY <1>0, <2>1 DEF FixHead
  <2>3. CASE WritePart(SidPart(main.req.sid)) \/ WritePart(TypePart("ORDER_NEW"))
    <3>1. PICK part \in Part : part.part # "body" /\ WritePart(part)
      BY <2>1, <2>3, PartTypes
    <3>2. ~Ser!IsExecReport(part)
      BY <3>1 DEF Ser!IsExecReport
    <3> QED BY <2>1, <2>2, <3>1, <3>2, WriteTransit
  <2>4. CASE WriteLastPart(BodyPart(main.req))
    <3>1. PICK part \in Part : part.val = main.req /\ WriteLastPart(part)
      BY <2>1, <2>4, PartTypes
    <3>2. ~Ser!IsExecReport(part)
      BY <2>1, <3>1 DEF Ser!IsExecReport
    <3> QED BY <2>1, <2>2, <3>1, <3>2, FlushTransit
  <2> QED BY <1>3, <2>3, <2>4 DEF MainSerialize
<1>4. CASE FixDone \/ FixDrop
  <2>1. /\ fix'.at = "idle" /\ fromVenue' = Tail(fromVenue) /\ fromVenue # <<>>
        /\ fromVenue \in Seq(Report) /\ UNCHANGED <<pending, wire>>
    BY <1>0, <1>4 DEF FixDone, FixDrop, FixReturn, FixIdle, CanDeliver, GInv, FixInv
  <2>2. \A i \in DOMAIN fromVenue' : i + 1 \in DOMAIN fromVenue /\ fromVenue'[i] = fromVenue[i + 1]
    BY <2>1
  <2>3. NoNews
    BY <2>1, <2>2 DEF NoNews, InTransit
  <2> QED BY <1>0, <2>1, <2>3 DEF SerTypes, FixHead
<1>5. CASE FixUnsetSocket
  BY <1>5, DieTransit DEF FixUnsetSocket
<1>6. CASE FixLookup \/ FixLookupRace \/ FixReply
  <2>1. CASE Die("race")
    BY <2>1, DieTransit
  <2>2. CASE ~Die("race")
    <3>1. /\ UNCHANGED <<fromVenue, pending, wire>>
          /\ fix.at # "idle" \/ fix'.rpt = Head(fromVenue)
          /\ fix.at # "idle" => fix'.rpt = fix.rpt
      BY <1>0, <1>6, <2>2 DEF FixLookup, FixLookupRace, FixReply, CanDeliver, GInv, FixInv
    <3>2. FixHead' /\ SerTypes'
      BY <1>0, <3>1 DEF FixHead, SerTypes
    <3> QED BY <3>1, <3>2 DEF NoNews, InTransit
  <2> QED BY <2>1, <2>2
<1>7. CASE FixSerialize
  <2>1. /\ fix.rpt \in Report /\ fix.sid \in Sids /\ fix.rpt = Head(fromVenue) /\ fromVenue # <<>>
        /\ fix'.rpt = fix.rpt /\ fromVenue' = fromVenue /\ fromVenue \in Seq(Report)
    BY <1>0, <1>7 DEF FixSerialize, GInv, FixInv, FixHead, Sids
  <2>2. FixHead'
    BY <2>1 DEF FixHead
  <2>3. CASE WritePart(SidPart(fix.sid)) \/ WritePart(TypePart("EXEC_RPT"))
    <3>1. PICK part \in Part : part.part # "body" /\ WritePart(part)
      BY <2>1, <2>3, PartTypes
    <3>2. ~Ser!IsExecReport(part)
      BY <3>1 DEF Ser!IsExecReport
    <3> QED BY <2>1, <2>2, <3>1, <3>2, WriteTransit
  <2>4. CASE WriteLastPart(BodyPart(fix.rpt))
    <3>1. PICK part \in Part : part.val = fix.rpt /\ WriteLastPart(part)
      BY <2>1, <2>4, PartTypes
    <3>2. 1 \in DOMAIN fromVenue /\ fix.rpt = fromVenue[1]
      BY <2>1
    <3>3. InTransit(part.val)
      BY <3>1, <3>2 DEF InTransit
    <3> QED BY <2>1, <2>2, <3>1, <3>3, FlushTransit
  <2> QED BY <1>7, <2>3, <2>4 DEF FixSerialize
<1> QED BY <1>1, <1>2, <1>3, <1>4, <1>5, <1>6, <1>7 DEF MainStep, FixStep

LEMMA GatewayRecorded ==
  ASSUME RInv, GatewayNext
  PROVE  RInv'
<1> USE DEF life, caches, serial, session, venue, clients
<1>1. UNCHANGED <<strategyId, todo, trades, orders, sqlErrors, taken, venueState>>
  BY DEF GatewayNext, serVars, venueVars
<1>2. UInv'
  BY UStep DEF RInv, GatewayNext, Next
<1>3. SerTypes' /\ FixHead' /\ NoNews
  <2>1. CASE MainStep \/ FixStep
    BY <1>1, <2>1, ThreadsTransit
  <2>2. CASE Kill
    BY <1>1, <2>2, DieTransit DEF Kill
  <2>3. CASE Start \/ MakeMsgProcessor \/ FinishInit \/ Strategies \/ Logon \/ Logout
    <3>1. UNCHANGED <<fix, fromVenue, pending, wire>>
      BY <2>3
      DEF Start, MakeMsgProcessor, FinishInit, Strategies, Connect, SendAdmin, SendRequest, Logon,
          Logout
    <3> QED BY <1>1, <3>1, TransitFrame
  <2> QED BY <2>1, <2>2, <2>3 DEF GatewayNext, Process
<1>4. VenueKeeps /\ ReplacedInv'
  BY <1>1, VenueFrame DEF RInv
<1>5. TrueReports'
  BY <1>3, <1>4, TruthFrame DEF RInv, TrueReports, NoNews
<1>6. RecordedInv'
  BY <1>1, <1>4, RecordedFrame
<1>7. TakenInv'
  BY <1>2, TakenStays
<1> QED BY <1>1, <1>2, <1>3, <1>4, <1>5, <1>6, <1>7 DEF RInv

-----------------------------------------------------------------------------
(* The serializer *)

\* The statements that cancel an order are those of a report that says so,
\* and after a replacement is inserted.
LEMMA CancelStatements ==
  ASSUME NEW s \in Sids, NEW type, NEW p \in Part, NEW t, t = Ser!Statements(s, type, p),
         NEW i \in DOMAIN t, Cancels(t[i])
  PROVE  /\ Ser!IsExecReport(p) /\ t[i].oid = p.val.body.orig
         /\ \/ p.val.body.status = "CANCELLED"
            \/ /\ p.val.body.status = "REPLACE" /\ i = 2
               /\ t[1].op = "insert" /\ t[1].sid = t[2].sid /\ t[1].oid = p.val.oid
<1>1. \A oid, arg : /\ ~Cancels(Ser!InsertNew(s, oid)) /\ ~Cancels(Ser!InsertReplacement(s, oid))
                    /\ ~Cancels(Ser!InsertTrade(s, oid, arg))
                    /\ Ser!InsertReplacement(s, oid).op = "insert"
                    /\ Ser!InsertReplacement(s, oid).sid = s
                    /\ Ser!InsertReplacement(s, oid).oid = oid
                    /\ Ser!SetStatus(s, oid, arg).sid = s
                    /\ Ser!SetStatus(s, oid, arg).oid = oid
                    /\ Ser!SetStatus(s, oid, arg).arg = arg
  BY DEF Cancels, Ser!InsertNew, Ser!InsertReplacement, Ser!InsertTrade, Ser!SetStatus
<1>2. CASE type = "ORDER_NEW"
  <2>1. PICK a : t = <<a>> /\ ~Cancels(a)
    BY <1>1, <1>2 DEF Ser!Statements
  <2>2. t[i] = a
    BY <2>1
  <2> QED BY <2>1, <2>2
<1>3. CASE type = "EXEC_RPT" /\ Ser!IsExecReport(p)
  <2>1. PICK o, er : o = p.val.oid /\ er = p.val.body
    OBVIOUS
  <2>2. t = Ser!UpdateOrder(s, o, er)
    BY <1>3, <2>1 DEF Ser!Statements, Ser!OidIn, Ser!IsExecReport
  <2>3. CASE er.status = "REPLACE"
    <3>1. PICK a, b : t = <<a, b>> /\ a = Ser!InsertReplacement(s, o) /\ b = Ser!SetStatus(s, er.orig, "CANCELLED")
      BY <2>2, <2>3 DEF Ser!UpdateOrder
    <3>2. DOMAIN t = {1, 2} /\ t[1] = a /\ t[2] = b
      BY <3>1
    <3> QED BY <1>1, <1>3, <2>1, <2>3, <3>1, <3>2
  <2>4. CASE er.status \in {"CANCELLED", "REJECTED"}
    <3>1. PICK a : t = <<a>> /\ a = Ser!SetStatus(s, er.orig, er.status)
      BY <2>2, <2>4 DEF Ser!UpdateOrder
    <3>2. t[i] = a
      BY <3>1
    <3>3. a.arg = er.status /\ a.oid = er.orig /\ a.arg = "CANCELLED"
      BY <1>1, <3>1, <3>2 DEF Cancels
    <3> QED BY <1>3, <2>1, <3>2, <3>3
  <2>5. CASE er.status = "FILL"
    <3>1. PICK a, b : /\ t = <<a, b>> /\ a = Ser!SetStatus(s, o, "FILL")
                      /\ b = Ser!InsertTrade(s, o, er.exec)
      BY <2>2, <2>5 DEF Ser!UpdateOrder
    <3>2. t[i] = a \/ t[i] = b
      BY <3>1
    <3> QED BY <1>1, <3>1, <3>2 DEF Cancels
  <2>6. CASE er.status = "PARTIAL_FILL"
    <3>1. PICK b : t = <<b>> /\ b = Ser!InsertTrade(s, o, er.exec)
      BY <2>2, <2>6 DEF Ser!UpdateOrder
    <3>2. t[i] = b
      BY <3>1
    <3> QED BY <1>1, <3>1, <3>2
  <2>7. CASE er.status \notin {"REPLACE", "CANCELLED", "REJECTED", "FILL", "PARTIAL_FILL"}
    <3>1. t = <<>>
      BY <2>2, <2>7 DEF Ser!UpdateOrder
    <3> QED BY <3>1
  <2> QED BY <2>3, <2>4, <2>5, <2>6, <2>7
<1>4. CASE ~(type = "ORDER_NEW") /\ ~(type = "EXEC_RPT" /\ Ser!IsExecReport(p))
  <2>1. t = <<>>
    BY <1>4 DEF Ser!Statements
  <2> QED BY <2>1
<1> QED BY <1>2, <1>3, <1>4

\* What the serializer leaves alone.
LEMMA SerializerFrame ==
  ASSUME RInv, SerializerNext
  PROVE  /\ UInv' /\ FixHead' /\ TakenInv' /\ ReplacedInv' /\ VenueKeeps
         /\ UNCHANGED <<fix, fromVenue, pending, venueState>>
<1>1. UNCHANGED <<life, caches, main, fix, clientQ, internalQ, pending, session, venue, clients,
                  delivered, venueVars>>
  BY DEF SerializerNext
<1>2. UNCHANGED <<fix, fromVenue, pending, venueState, taken, sent, store, used, clientQ, main>>
  BY <1>1 DEF venueVars, venue, session, clients
<1>3. UInv'
  <2>1. GInv'
    BY <1>1, Frames DEF RInv, UInv, GInv, life, caches, session, venue, clients
  <2> QED BY <1>2, <2>1, UFrames DEF RInv, UInv
<1>4. FixHead' /\ TakenInv'
  BY <1>2 DEF RInv, FixHead, TakenInv
<1> QED BY <1>2, <1>3, <1>4, VenueFrame DEF RInv

\* Nothing enters the transit when the wire keeps, loses or hands over parts.
LEMMA WireTransit ==
  ASSUME RInv, VenueKeeps, UNCHANGED <<fromVenue, pending>>,
         wire' = wire \/ wire' = <<>> \/ (Len(wire) >= 3 /\ wire' = SubSeq(wire, 4, Len(wire)))
  PROVE  wire' \in Seq(Part) /\ TrueReports'
<1>1. wire \in Seq(Part) /\ <<>> \in Seq(Part)
  BY DEF RInv, SerTypes
<1>2. /\ wire' \in Seq(Part)
      /\ \A i \in DOMAIN wire' : \E j \in DOMAIN wire : wire'[i] = wire[j]
  <2>1. CASE wire' = wire
    BY <1>1, <2>1
  <2>2. CASE wire' = <<>>
    <3>1. DOMAIN wire' = {}
      BY <2>2
    <3> QED BY <1>1, <2>2, <3>1
  <2>3. CASE Len(wire) >= 3 /\ wire' = SubSeq(wire, 4, Len(wire))
    <3>1. /\ wire' \in Seq(Part)
          /\ \A i \in DOMAIN wire' : i + 3 \in DOMAIN wire /\ wire'[i] = wire[i + 3]
      BY <1>1, <2>3
    <3> QED BY <3>1
  <2> QED BY <2>1, <2>2, <2>3
<1>3. NoNews
  BY <1>2 DEF NoNews, InTransit
<1> QED BY <1>2, <1>3, TruthFrame DEF RInv, TrueReports, NoNews

\* A message is read: what it cancels was cancelled, or replaced by what it
\* inserts first.
LEMMA ReadRecorded ==
  ASSUME RInv, SerializerNext, Ser!ReadMessage
  PROVE  RInv'
<1>1. /\ UInv' /\ FixHead' /\ TakenInv' /\ ReplacedInv' /\ VenueKeeps
      /\ UNCHANGED <<fix, fromVenue, pending, venueState>>
  BY SerializerFrame
<1>2. /\ wire \in Seq(Part) /\ Len(wire) >= 3 /\ wire' = SubSeq(wire, 4, Len(wire))
      /\ UNCHANGED <<trades, orders, sqlErrors>>
  BY DEF RInv, SerTypes, Ser!ReadMessage, Ser!Abort, Ser!db
<1>3. wire[1] \in Part /\ wire[3] \in Part /\ 3 \in DOMAIN wire
  BY <1>2
<1>4. wire' \in Seq(Part) /\ TrueReports'
  BY <1>1, <1>2, WireTransit
<1>5. \A s, o : MayCancel(s, o) => MayCancel(s, o)'
  BY <1>1, <1>2 DEF MayCancel, VenueKeeps
<1>6. todo' \in Seq(Statement) /\ strategyId' \in Sids /\ TodoInv'
  <2>1. CASE Ser!Abort
    <3>1. todo' = <<>> /\ strategyId' \in Sids
      BY <2>1 DEF Ser!Abort, Sids
    <3> QED BY <3>1 DEF TodoInv
  <2>2. CASE ~Ser!Abort
    <3>1. PICK sid, type : /\ sid = Ser!StrategyIdFrom(wire[1]) /\ strategyId' = sid
                           /\ todo' = Ser!Statements(sid, type, wire[3])
      BY <2>2 DEF Ser!ReadMessage
    <3>2. sid \in Sids
      BY <1>3, <3>1 DEF Ser!StrategyIdFrom, Part, SidPart, TypePart, BodyPart, RInv, SerTypes
    <3>3. todo' \in Seq(Statement)
      BY <1>3, <3>1, <3>2, StatementsLemma
    <3>4. PICK p, t : p \in Part /\ p = wire[3] /\ t = todo' /\ t = Ser!Statements(sid, type, p)
      BY <1>3, <3>1
    <3>5. ASSUME NEW i \in DOMAIN t, Cancels(t[i])
          PROVE  \/ CancelledAt(t[i].oid)
                 \/ /\ i = 2 /\ t[1].op = "insert" /\ t[1].sid = t[2].sid
                    /\ Replaces(t[1].oid, t[2].oid)
      <4>1. /\ Ser!IsExecReport(p) /\ t[i].oid = p.val.body.orig
            /\ \/ p.val.body.status = "CANCELLED"
               \/ /\ p.val.body.status = "REPLACE" /\ i = 2
                  /\ t[1].op = "insert" /\ t[1].sid = t[2].sid /\ t[1].oid = p.val.oid
        BY <3>2, <3>4, <3>5, CancelStatements
      <4>2. IsTrue(p.val)
        BY <1>3, <3>4, <4>1 DEF RInv, TrueReports, InTransit
      <4> QED BY <4>1, <4>2 DEF IsTrue
    <3>6. \A n, o : /\ Replaces(n, o) => Replaces(n, o)'
                    /\ CancelledAt(o) => CancelledAt(o)'
      BY <1>1 DEF VenueKeeps
    <3>7. TodoInv'
      BY <3>4, <3>5, <3>6 DEF TodoInv, InsertsFirst, MayCancel, Cancels
    <3> QED BY <3>1, <3>2, <3>3, <3>7
  <2> QED BY <2>1, <2>2
<1>7. SerTypes'
  BY <1>1, <1>2, <1>4, <1>6 DEF RInv, SerTypes
<1>8. RecordedInv'
  BY <1>2, <1>5, <1>6 DEF RInv, RecordedInv, RowsInv
<1> QED BY <1>1, <1>2, <1>4, <1>7, <1>8 DEF RInv

\* What a statement does to the rows.
LEMMA StatementRows ==
  ASSUME NEW st \in Statement, NEW key, key = <<st.sid, st.oid>>, Ser!Execute(st)
  PROVE  /\ DOMAIN orders \subseteq DOMAIN orders'
         /\ st.op = "insert" => key \in DOMAIN orders'
         /\ \A k \in DOMAIN orders' : orders'[k] = "CANCELLED" =>
              \/ k \in DOMAIN orders /\ orders[k] = "CANCELLED"
              \/ k = key /\ Cancels(st)
<1>1. CASE st.op = "trade"
  BY <1>1 DEF Ser!Execute
<1>2. CASE st.op = "insert"
  <2>1. orders' = (IF <<st.sid, st.oid>> \in DOMAIN orders THEN orders ELSE Put(orders, <<st.sid, st.oid>>, st.arg))
    BY <1>2 DEF Ser!Execute, Ser!Put, Put
  <2> QED BY <1>2, <2>1 DEF Put, Cancels
<1>3. CASE st.op = "status"
  <2>1. orders' = (IF <<st.sid, st.oid>> \in DOMAIN orders THEN Put(orders, <<st.sid, st.oid>>, st.arg) ELSE orders)
    BY <1>3 DEF Ser!Execute, Ser!Put, Put
  <2> QED BY <1>3, <2>1 DEF Put, Cancels
<1> QED BY <1>1, <1>2, <1>3 DEF Statement

\* What a statement does to the trades.
LEMMA StatementTrades ==
  ASSUME NEW st \in Statement, trades \in Seq(Trade), Ser!Execute(st)
  PROVE  trades' \in Seq(Trade)
<1>1. CASE st.op = "trade"
  <2>1. PICK row : row = [sid |-> st.sid, oid |-> st.oid, exec |-> st.arg]
    OBVIOUS
  <2>2. row \in Trade
    BY <2>1 DEF Trade, Statement
  <2>3. trades' = Append(trades, row)
    BY <1>1, <2>1 DEF Ser!Execute
  <2> QED BY <2>2, <2>3, AppendProperties
<1>2. CASE st.op = "insert" \/ st.op = "status"
  BY <1>2 DEF Ser!Execute
<1> QED BY <1>1, <1>2 DEF Statement

\* A statement is executed.
LEMMA RunRecorded ==
  ASSUME RInv, SerializerNext, Ser!RunStatement
  PROVE  RInv'
<1>1. /\ UInv' /\ FixHead' /\ TakenInv' /\ ReplacedInv' /\ VenueKeeps
      /\ UNCHANGED <<fix, fromVenue, pending, venueState>>
  BY SerializerFrame
<1>2. PICK st : st = Head(todo)
  OBVIOUS
<1>3. /\ todo \in Seq(Statement) /\ todo # <<>> /\ trades \in Seq(Trade)
      /\ todo' = Tail(todo) /\ Ser!Execute(st)
      /\ UNCHANGED <<wire, strategyId, sqlErrors>>
  BY <1>2 DEF RInv, SerTypes, Ser!RunStatement
<1>4. st \in Statement /\ 1 \in DOMAIN todo /\ st = todo[1]
  BY <1>2, <1>3
<1>5. /\ todo' \in Seq(Statement)
      /\ \A i \in DOMAIN todo' :
           i \in Nat \ {0} /\ i + 1 \in DOMAIN todo /\ todo'[i] = todo[i + 1]
  BY <1>3
<1>6. trades' \in Seq(Trade)
  BY <1>3, <1>4, StatementTrades
<1>7. SerTypes'
  BY <1>1, <1>3, <1>5, <1>6 DEF RInv, SerTypes
<1>8. TrueReports'
  BY <1>1, <1>3, WireTransit
<1>9. PICK key : key = <<st.sid, st.oid>>
  OBVIOUS
<1>10. /\ DOMAIN orders \subseteq DOMAIN orders'
       /\ st.op = "insert" => key \in DOMAIN orders'
       /\ \A k \in DOMAIN orders' : orders'[k] = "CANCELLED" =>
            \/ k \in DOMAIN orders /\ orders[k] = "CANCELLED"
            \/ k = key /\ Cancels(st)
  BY <1>3, <1>4, <1>9, StatementRows
<1>11. \A s, o : MayCancel(s, o) => MayCancel(s, o)'
  BY <1>1, <1>10 DEF MayCancel, VenueKeeps
<1>12. ASSUME sqlErrors = 0
       PROVE  TodoInv' /\ RowsInv'
  <2>1. TodoInv /\ RowsInv
    BY <1>12 DEF RInv, RecordedInv
  <2>2. TodoInv'
    <3> SUFFICES ASSUME NEW i \in DOMAIN todo', Cancels(todo'[i]), NEW s, NEW o,
                        s = todo'[i].sid, o = todo'[i].oid
                 PROVE  MayCancel(s, o)'
      BY DEF TodoInv, Cancels, MayCancel
    <3>1. PICK j : j = i + 1 /\ j \in DOMAIN todo /\ todo'[i] = todo[j]
      BY <1>5
    <3>2. s = todo[j].sid /\ o = todo[j].oid /\ Cancels(todo[j])
      BY <3>1
    <3>3. MayCancel(s, o) \/ (j = 2 /\ InsertsFirst)
      BY <2>1, <3>1, <3>2 DEF TodoInv
    <3>4. ASSUME InsertsFirst, j = 2
          PROVE  MayCancel(s, o)'
      <4>1. PICK n : n = st.oid
        OBVIOUS
      <4>2. Replaces(n, o) /\ st.op = "insert" /\ st.sid = s
        BY <1>4, <3>2, <3>4, <4>1 DEF InsertsFirst
      <4>3. <<s, n>> \in DOMAIN orders' /\ Replaces(n, o)'
        BY <1>1, <1>9, <1>10, <4>1, <4>2 DEF VenueKeeps
      <4> QED BY <4>3 DEF MayCancel
    <3> QED BY <1>11, <3>3, <3>4
  <2>3. RowsInv'
    <3>1. Cancels(st) => MayCancel(st.sid, st.oid)
      BY <1>4, <2>1 DEF TodoInv
    <3> QED BY <1>9, <1>10, <1>11, <2>1, <3>1 DEF RowsInv
  <2> QED BY <2>2, <2>3
<1>13. RecordedInv'
  BY <1>3, <1>12 DEF RecordedInv
<1> QED BY <1>1, <1>3, <1>7, <1>8, <1>13 DEF RInv

LEMMA SerializerRecorded ==
  ASSUME RInv, SerializerNext
  PROVE  RInv'
<1>1. /\ UInv' /\ FixHead' /\ TakenInv' /\ ReplacedInv' /\ VenueKeeps
      /\ UNCHANGED <<fix, fromVenue, pending, venueState>>
  BY SerializerFrame
<1>2. Ser!SerNext /\ SerTypes /\ sqlErrors \in Nat
  BY DEF SerializerNext, RInv
<1>3. CASE Ser!ReadMessage
  BY <1>3, ReadRecorded
<1>4. CASE Ser!RunStatement
  BY <1>4, RunRecorded
<1>5. CASE Ser!StatementThrows
  <2>1. /\ sqlErrors' = sqlErrors + 1 /\ UNCHANGED <<wire, trades>>
        /\ \/ todo' = Tail(todo) /\ UNCHANGED strategyId
           \/ todo' = <<>> /\ strategyId' = NO_SID
        /\ todo # <<>>
    BY <1>5 DEF Ser!StatementThrows, Ser!db
  <2>2. /\ wire' \in Seq(Part) /\ TrueReports'
    BY <1>1, <2>1, WireTransit
  <2>3. todo' \in Seq(Statement) /\ strategyId' \in Sids
    <3>1. todo \in Seq(Statement) /\ <<>> \in Seq(Statement) /\ strategyId \in Sids /\ NO_SID \in Sids
      BY <1>2 DEF SerTypes, Sids
    <3>2. Tail(todo) \in Seq(Statement)
      BY <2>1, <3>1
    <3> QED BY <2>1, <3>1, <3>2
  <2>4. SerTypes'
    BY <1>1, <1>2, <2>1, <2>2, <2>3 DEF SerTypes
  <2>5. sqlErrors' \in Nat /\ RecordedInv'
    BY <1>2, <2>1 DEF RecordedInv
  <2> QED BY <1>1, <2>2, <2>4, <2>5 DEF RInv
<1>6. CASE Ser!SerKilled \/ Ser!SerStart
  <2>1. /\ wire' = wire \/ wire' = <<>>
        /\ todo' = todo \/ todo' = <<>>
        /\ strategyId' = strategyId \/ strategyId' = NO_SID
        /\ UNCHANGED <<orders, trades, sqlErrors>>
    BY <1>6 DEF Ser!SerKilled, Ser!SerStart, Ser!Abort, Ser!db
  <2>2. wire' \in Seq(Part) /\ TrueReports'
    BY <1>1, <2>1, WireTransit
  <2>3. todo' \in Seq(Statement) /\ strategyId' \in Sids
    <3>1. todo \in Seq(Statement) /\ <<>> \in Seq(Statement) /\ strategyId \in Sids /\ NO_SID \in Sids
      BY <1>2 DEF SerTypes, Sids
    <3> QED BY <2>1, <3>1
  <2>4. SerTypes'
    BY <1>1, <1>2, <2>1, <2>2, <2>3 DEF SerTypes
  <2>5. RecordedInv'
    <3>1. CASE todo' = todo
      BY <1>1, <2>1, <3>1, RecordedFrame
    <3>2. CASE todo' = <<>>
      <4>1. \A s, o : MayCancel(s, o) => MayCancel(s, o)'
        BY <1>1, <2>1 DEF MayCancel, VenueKeeps
      <4> QED BY <2>1, <3>2, <4>1 DEF RInv, RecordedInv, TodoInv, RowsInv
    <3> QED BY <2>1, <3>1, <3>2
  <2> QED BY <1>1, <1>2, <2>1, <2>2, <2>4, <2>5 DEF RInv
<1> QED BY <1>2, <1>3, <1>4, <1>5, <1>6 DEF Ser!SerNext

LEMMA RInvInit == FlowInit => RInv
<1> SUFFICES ASSUME FlowInit PROVE RInv
  OBVIOUS
<1>1. /\ fromVenue = <<>> /\ pending = <<>> /\ wire = <<>> /\ todo = <<>> /\ trades = <<>>
      /\ strategyId = NO_SID /\ taken = 0 /\ fix.at = "idle" /\ sqlErrors = 0 /\ sent = <<>>
      /\ orders = EmptyFcn /\ venueState = EmptyFcn
  BY DEF FlowInit, Init, Ser!SerInit, FixIdle, Ser!EmptyFcn, EmptyFcn
<1>2. DOMAIN orders = {} /\ DOMAIN venueState = {}
  BY <1>1 DEF EmptyFcn
<1>3. SerTypes /\ FixHead
  BY <1>1 DEF SerTypes, Sids, FixHead
<1>4. TakenInv /\ ReplacedInv
  BY <1>1, <1>2 DEF TakenInv, ReplacedInv, Replaces
<1>5. TrueReports /\ RecordedInv
  BY <1>1, <1>2 DEF TrueReports, InTransit, RecordedInv, TodoInv, RowsInv
<1> QED BY <1>1, <1>3, <1>4, <1>5, UInit DEF RInv, FlowInit

LEMMA RInvStutters ==
  ASSUME RInv, UNCHANGED flowVars
  PROVE  RInv'
<1>1. UNCHANGED <<vars, serVars, venueVars>>
  BY DEF flowVars
<1>2. UNCHANGED <<fix, fromVenue, pending, wire, strategyId, todo, trades, orders, sqlErrors,
                  taken, venueState, sent>>
  BY <1>1 DEF vars, serial, venue, session, serVars, venueVars
<1>3. UInv'
  BY <1>1, UStep DEF RInv
<1>4. SerTypes' /\ FixHead' /\ NoNews /\ VenueKeeps /\ ReplacedInv' /\ RecordedInv'
  BY <1>2, TransitFrame, VenueFrame, RecordedFrame DEF RInv
<1>5. TrueReports' /\ TakenInv' /\ sqlErrors' \in Nat
  BY <1>2, <1>4, TruthFrame DEF RInv, TrueReports, NoNews, TakenInv
<1> QED BY <1>3, <1>4, <1>5 DEF RInv

\* For every number of strategies, orders, executions and crashes of either
\* process, with or without a file store, with the threads of the gateway
\* running at once and mixing the parts of their messages: as long as no
\* statement threw, a row that is CANCELLED because the order was replaced
\* has the row of the replacement beside it, under the same strategy.
THEOREM ReplacementFirst == FlowSpec => []ReplacementRecordedFirst
<1>1. RInv /\ [FlowNext]_flowVars => RInv'
  <2> SUFFICES ASSUME RInv, [FlowNext]_flowVars PROVE RInv'
    OBVIOUS
  <2>1. CASE VenueNext
    BY <2>1, VenueRecorded
  <2>2. CASE GatewayNext
    BY <2>2, GatewayRecorded
  <2>3. CASE SerializerNext
    BY <2>3, SerializerRecorded
  <2>4. CASE UNCHANGED flowVars
    BY <2>4, RInvStutters
  <2> QED BY <2>1, <2>2, <2>3, <2>4 DEF FlowNext
<1> QED BY <1>1, RInvInit, RProperty, PTL DEF FlowSpec

-----------------------------------------------------------------------------
(* The database follows the venue.                                         *)
(*                                                                         *)
(* While its threads take turns the gateway puts whole messages on the     *)
(* wire, and nothing overtakes anything on the way from the venue to the   *)
(* tables: from the session's queue a report moves to the hand of the FIX  *)
(* thread, onto the wire, and becomes statements.  Only a new order joins  *)
(* in the middle, from the hand of the main thread.  The invariant says    *)
(* that what a table lacks is on this way, that an order is marked only as *)
(* it ended, and that its insertion is ahead of every mark: a status of an *)
(* order without a row is lost.                                            *)

\* A cancel or replace request is of the strategy whose order it names.  The
\* gateway does not check it; order ids are UUIDs that a strategy makes, and
\* by GatewayCorrect nobody else is told of them.
OwnOrders == \A q, r \in Request : q.orig = r.oid => q.sid = r.sid

\* No process has ended and no statement has thrown.
Faultless == crashes = 0 /\ aborts = 0 /\ sqlErrors = 0

SerAts == {"ser1", "ser2", "ser3"}

\* The type part that goes with a body.
TypeOf(b) == IF "kind" \in DOMAIN b THEN "EXEC_RPT" ELSE "ORDER_NEW"

\* The parts of the message with body b that are written at a stage.
Written(at, b, type) ==
  IF at = "ser2" THEN <<SidPart(OwnerOf(b.oid))>>
  ELSE IF at = "ser3" THEN <<SidPart(OwnerOf(b.oid)), TypePart(type)>>
  ELSE <<>>

\* The threads take turns, and what is not flushed is of the one at work.
TurnInv ==
  /\ main.at # "poll" => fix.at = "idle"
  /\ pending = IF main.at \in SerAts THEN Written(main.at, main.req, "ORDER_NEW")
                                     ELSE Written(fix.at, fix.rpt, "EXEC_RPT")

\* The parts on the wire, three by three, are whole messages.
Whole(k) ==
  \E b \in Request \cup Report :
    /\ wire[3 * k - 2] = SidPart(OwnerOf(b.oid)) /\ wire[3 * k - 1] = TypePart(TypeOf(b))
    /\ wire[3 * k] = BodyPart(b)

WireInv == \E n \in Nat : Len(wire) = 3 * n /\ \A k \in 1 .. n : Whole(k)

\* Nothing happens before the poll loop, and the process knows what it sent.
RunInv ==
  /\ phase # "running" => fromVenue = <<>> /\ sent = <<>> /\ store = <<>>
  /\ Gone \subseteq sentNow

\* The message with body b is the k-th on the wire, in the hand of a thread,
\* or the i-th report of the session's queue that no thread has yet.
OnWire(k, b) == k \in Nat /\ 3 * k \in DOMAIN wire /\ wire[3 * k] = BodyPart(b)

InHand(b) ==
  \/ main.at \in SerAts /\ b = main.req
  \/ /\ fix.at \in SerAts \/ (fix.at = "reply" /\ fix.rpt.kind = "EXEC_RPT")
     /\ b = fix.rpt

InQueue(i, b) ==
  /\ i \in DOMAIN fromVenue /\ (i = 1 => fix.at = "idle")
  /\ fromVenue[i].kind = "EXEC_RPT" /\ b = fromVenue[i]

\* The places in the order in which the serializer gets to them, the
\* statements it has read being the first.
At(w, i, b) ==
  \/ w = 1 /\ OnWire(i, b)
  \/ w = 2 /\ i = 0 /\ InHand(b)
  \/ w = 3 /\ InQueue(i, b)

Before(v, j, w, i) == v < w \/ (v = w /\ j < i)

\* Messages move on, none overtakes another, and only requests are new.
Moves ==
  /\ \A w, i, b : At(w, i, b) => \E v, j : At(v, j, b)'
  /\ \A w, i, b : At(w, i, b)' =>
       \/ b \in Request
       \/ \E v, j :
            /\ At(v, j, b)
            /\ \A x, k, c : At(x, k, c) /\ Before(x, k, v, j) =>
                 \E y, m : At(y, m, c)' /\ Before(y, m, w, i)

-----------------------------------------------------------------------------
LEMMA OwnerIs ==
  ASSUME NEW q \in Request
  PROVE  OwnerOf(q.oid) = q.sid
<1>1. \A r \in Request : r.oid = q.oid => r = q
  BY GatewayAssumption
<1> QED BY <1>1 DEF OwnerOf

LEMMA OwnerOwns ==
  ASSUME NEW s, NEW oid, Owns(s, oid)
  PROVE  s = OwnerOf(oid)
BY OwnerIs DEF Owns

LEMMA FixOwner ==
  ASSUME OInv, RunInv, fix.at # "idle"
  PROVE  fix.sid = OwnerOf(fix.rpt.oid)
<1>1. fix.rpt.oid \in sentNow
  BY DEF OInv, ReportedInv, RunInv, Gone
<1>2. fix.sid # NO_SID
  BY <1>1 DEF OInv, OwnerFound
<1> QED BY <1>2, OwnerOwns DEF OInv, LInv, UInv, GInv, FixInv

LEMMA Shape ==
  ASSUME NEW b
  PROVE  /\ b \in Request => "kind" \notin DOMAIN b
         /\ b \in Report => "kind" \in DOMAIN b
         /\ \A c : BodyPart(c) = BodyPart(b) => c = b
<1>1. b \in Request => "kind" \notin DOMAIN b
  BY GatewayAssumption DEF ReqShape
<1>2. b \in Report => "kind" \in DOMAIN b
  BY DEF Report
<1>3. \A c : BodyPart(c) = BodyPart(b) => c = b
  <2>1. \A c : BodyPart(c).val = c
    BY DEF BodyPart
  <2> QED BY <2>1
<1> QED BY <1>1, <1>2, <1>3

LEMMA ConcatAt ==
  ASSUME NEW S, NEW s \in Seq(S), NEW t \in Seq(S), NEW u, u = s \o t,
         NEW m \in Nat, NEW d \in Nat, m = Len(s), d = Len(t)
  PROVE  /\ u \in Seq(S) /\ Len(u) = m + d
         /\ \A i \in 1 .. m + d : u[i] = IF i <= m THEN s[i] ELSE t[i - m]
OBVIOUS

\* The last part completes a message.
LEMMA FlushPlaces ==
  ASSUME SerTypes, WireInv, NEW b \in Request \cup Report,
         pending = Written("ser3", b, TypeOf(b)), WriteLastPart(BodyPart(b))
  PROVE  /\ WireInv' /\ pending' = <<>>
         /\ \E n \in Nat :
              /\ \A k, c : OnWire(k, c)' <=> OnWire(k, c) \/ (k = n + 1 /\ c = b)
              /\ \A k, c : OnWire(k, c) => k <= n
<1>1. PICK x \in Part, y \in Part, z \in Part :
        x = SidPart(OwnerOf(b.oid)) /\ y = TypePart(TypeOf(b)) /\ z = BodyPart(b)
  <2>1. BodyPart(b) \in Part /\ TypePart(TypeOf(b)) \in Part
    BY PartTypes DEF TypeOf
  <2>2. pending \in Seq(Part) /\ pending = <<SidPart(OwnerOf(b.oid)), TypePart(TypeOf(b))>>
    BY DEF SerTypes, Written
  <2>3. 1 \in DOMAIN pending /\ pending[1] = SidPart(OwnerOf(b.oid))
    BY <2>2
  <2>4. SidPart(OwnerOf(b.oid)) \in Part
    BY <2>2, <2>3
  <2> QED BY <2>1, <2>4
<1>2. PICK t : t = Append(<<x, y>>, z)
  OBVIOUS
<1>3. PICK n \in Nat : Len(wire) = 3 * n /\ \A k \in 1 .. n : Whole(k)
  BY DEF WireInv
<1>4. /\ Len(wire') = 3 * (n + 1) /\ wire' \in Seq(Part)
      /\ \A i \in 1 .. 3 * n : wire'[i] = wire[i]
      /\ wire'[3 * n + 1] = x /\ wire'[3 * n + 2] = y /\ wire'[3 * n + 3] = z
      /\ wire \in Seq(Part) /\ pending' = <<>>
  <2>1. pending = <<x, y>>
    BY <1>1 DEF Written
  <2>2. wire' = wire \o t /\ wire \in Seq(Part) /\ pending' = <<>>
    BY <1>1, <1>2, <2>1 DEF WriteLastPart, SerTypes
  <2>3. t \in Seq(Part) /\ Len(t) = 3 /\ t[1] = x /\ t[2] = y /\ t[3] = z
    <3>1. <<x, y>> \in Seq(Part) /\ Len(<<x, y>>) = 2
      OBVIOUS
    <3> QED BY <1>2, <3>1
  <2>4. PICK m \in Nat : m = Len(wire)
    BY <2>2
  <2>5. /\ wire' \in Seq(Part) /\ Len(wire') = m + 3
        /\ \A i \in 1 .. m + 3 : wire'[i] = IF i <= m THEN wire[i] ELSE t[i - m]
    <3>1. PICK d \in Nat : d = Len(t)
      BY <2>3
    <3>2. /\ wire' \in Seq(Part) /\ Len(wire') = m + d
          /\ \A i \in 1 .. m + d : wire'[i] = IF i <= m THEN wire[i] ELSE t[i - m]
      <4>1. PICK u : u = wire'
        OBVIOUS
      <4>2. u = wire \o t /\ t \in Seq(Part) /\ wire \in Seq(Part) /\ m \in Nat /\ d \in Nat
        BY <2>2, <2>3, <4>1
      <4>3. /\ u \in Seq(Part) /\ Len(u) = m + d
            /\ \A i \in 1 .. m + d : u[i] = IF i <= m THEN wire[i] ELSE t[i - m]
        BY ONLY <2>4, <3>1, <4>2, ConcatAt, SMTT(30)
      <4> QED BY <4>1, <4>3
    <3>3. d = 3
      BY <2>3, <3>1
    <3> QED BY <3>2, <3>3
  <2>6. \A i \in 1 .. m : wire'[i] = wire[i]
    BY <2>4, <2>5
  <2>7. wire'[m + 1] = t[1] /\ wire'[m + 2] = t[2] /\ wire'[m + 3] = t[3]
    BY <2>4, <2>5
  <2> QED BY <1>3, <2>2, <2>3, <2>4, <2>5, <2>6, <2>7
<1>5. WireInv'
  <2>1. \A k \in 1 .. n : Whole(k)'
    <3> SUFFICES ASSUME NEW k \in 1 .. n PROVE Whole(k)'
      OBVIOUS
    <3>1. 3 * k - 2 \in 1 .. 3 * n /\ 3 * k - 1 \in 1 .. 3 * n /\ 3 * k \in 1 .. 3 * n
      OBVIOUS
    <3> QED BY <1>3, <1>4, <3>1 DEF Whole
  <2>2. Whole(n + 1)'
    <3>1. 3 * (n + 1) - 2 = 3 * n + 1 /\ 3 * (n + 1) - 1 = 3 * n + 2 /\ 3 * (n + 1) = 3 * n + 3
      OBVIOUS
    <3> QED BY <1>1, <1>4, <3>1 DEF Whole
  <2>3. \A k \in 1 .. n + 1 : k \in 1 .. n \/ k = n + 1
    OBVIOUS
  <2> QED BY <1>4, <2>1, <2>2, <2>3 DEF WireInv
<1>6. \A k, c : OnWire(k, c) => k <= n /\ k >= 1
  BY <1>3, <1>4 DEF OnWire
<1>7. \A k, c : OnWire(k, c)' <=> OnWire(k, c) \/ (k = n + 1 /\ c = b)
  <2>1. \A c : BodyPart(c) = z <=> c = b
    BY <1>1, Shape
  <2> SUFFICES ASSUME NEW k \in Nat, NEW c
               PROVE  OnWire(k, c)' <=> OnWire(k, c) \/ (k = n + 1 /\ c = b)
    BY DEF OnWire
  <2>2. CASE k = n + 1
    <3>1. 3 * k = 3 * n + 3 /\ 3 * k \in DOMAIN wire' /\ ~(k <= n)
      BY <1>4, <2>2
    <3> QED BY <1>4, <1>6, <2>1, <2>2, <3>1 DEF OnWire
  <2>3. CASE k <= n
    <3>1. (3 * k \in DOMAIN wire <=> 3 * k \in DOMAIN wire') /\ k # n + 1
      BY <1>3, <1>4, <2>3
    <3>2. 3 * k \in DOMAIN wire => wire'[3 * k] = wire[3 * k]
      BY <1>3, <1>4
    <3> QED BY <3>1, <3>2 DEF OnWire
  <2>4. CASE k > n + 1
    <3>1. 3 * k \notin DOMAIN wire /\ 3 * k \notin DOMAIN wire'
      BY <1>3, <1>4, <2>4
    <3> QED BY <2>4, <3>1 DEF OnWire
  <2> QED BY <2>2, <2>3, <2>4
<1> QED BY <1>4, <1>5, <1>6, <1>7

-----------------------------------------------------------------------------
(* How messages move in the gateway. *)

LEMMA MoveFrame ==
  ASSUME \A k, b : OnWire(k, b)' <=> OnWire(k, b),
         \A b : InHand(b)' <=> InHand(b),
         \A i, b : InQueue(i, b)' <=> InQueue(i, b)
  PROVE  Moves
BY DEF Moves, At

\* The main thread has sent a request and takes it to the serializer.
LEMMA MoveNew ==
  ASSUME \A k, b : OnWire(k, b)' <=> OnWire(k, b),
         NEW q \in Request, \A b : ~InHand(b) /\ (InHand(b)' <=> b = q),
         \A i, b : InQueue(i, b)' <=> InQueue(i, b)
  PROVE  Moves
<1>1. \A w, i, b : At(w, i, b) => At(w, i, b)'
  BY DEF At
<1>2. \A w, i, b : At(w, i, b)' => At(w, i, b) \/ b = q
  BY DEF At
<1> QED BY <1>1, <1>2 DEF Moves

\* The FIX thread looks at the first report.
LEMMA MoveHead ==
  ASSUME \A k, b : OnWire(k, b)' <=> OnWire(k, b),
         \A b : ~InHand(b) /\ (InHand(b)' <=> InQueue(1, b)),
         \A i, b : InQueue(i, b) => i \in Nat \ {0},
         \A i, b : InQueue(i, b)' <=> InQueue(i, b) /\ i # 1
  PROVE  Moves
<1>1. \A w, i, b : At(w, i, b) =>
        IF w = 3 /\ i = 1 THEN At(2, 0, b)' ELSE At(w, i, b)'
  BY DEF At
<1>2. \A w, i, b : At(w, i, b)' =>
        \/ w = 2 /\ i = 0 /\ At(3, 1, b)
        \/ w # 2 /\ At(w, i, b) /\ ~(w = 3 /\ i = 1)
  BY DEF At
<1>3. \A w, i, b : At(w, i, b) => w \in {1, 3} /\ i \in Nat /\ (w = 3 => i >= 1)
  BY DEF At, OnWire
<1>4. ASSUME NEW w, NEW i, NEW b, At(w, i, b)'
      PROVE  \E v, j :
               /\ At(v, j, b)
               /\ \A x, k, c : At(x, k, c) /\ Before(x, k, v, j) =>
                    \E y, m : At(y, m, c)' /\ Before(y, m, w, i)
  <2>1. CASE w = 2 /\ i = 0 /\ At(3, 1, b)
    <3>1. ASSUME NEW x, NEW k, NEW c, At(x, k, c), Before(x, k, 3, 1)
          PROVE  At(x, k, c)' /\ Before(x, k, w, i)
      <4>1. x = 1
        BY <1>3, <3>1 DEF Before
      <4> QED BY <1>1, <2>1, <3>1, <4>1 DEF Before
    <3> QED BY <2>1, <3>1
  <2>2. CASE w # 2 /\ At(w, i, b) /\ ~(w = 3 /\ i = 1)
    <3>1. ASSUME NEW x, NEW k, NEW c, At(x, k, c), Before(x, k, w, i)
          PROVE  \E y, m : At(y, m, c)' /\ Before(y, m, w, i)
      <4>1. CASE x = 3 /\ k = 1
        <5>1. w = 3
          BY <1>3, <2>2, <3>1, <4>1 DEF Before
        <5> QED BY <1>1, <3>1, <4>1, <5>1 DEF Before
      <4>2. CASE ~(x = 3 /\ k = 1)
        BY <1>1, <3>1, <4>2
      <4> QED BY <4>1, <4>2
    <3> QED BY <2>2, <3>1
  <2> QED BY <1>2, <1>4, <2>1, <2>2
<1> QED BY <1>1, <1>4 DEF Moves

\* The message in hand is flushed.
LEMMA MoveFlush ==
  ASSUME NEW n \in Nat, NEW q,
         \A k, b : OnWire(k, b)' <=> OnWire(k, b) \/ (k = n + 1 /\ b = q),
         \A k, b : OnWire(k, b) => k <= n,
         \A b : ~InHand(b)' /\ (InHand(b) <=> b = q),
         \A i, b : InQueue(i, b)' <=> InQueue(i, b)
  PROVE  Moves
<1>1. \A w, i, b : At(w, i, b) => IF w = 2 THEN At(1, n + 1, b)' ELSE At(w, i, b)'
  BY DEF At
<1>2. \A w, i, b : At(w, i, b)' =>
        (w = 1 /\ i = n + 1 /\ At(2, 0, b)) \/ (w # 2 /\ At(w, i, b))
  BY DEF At
<1>3. \A w, i, b : At(w, i, b) => w \in {1, 2, 3} /\ (w = 1 => i \in Nat /\ i <= n)
                                    /\ (w = 2 => i = 0)
  BY DEF At, OnWire
<1>4. ASSUME NEW w, NEW i, NEW b, At(w, i, b)'
      PROVE  \E v, j :
               /\ At(v, j, b)
               /\ \A x, k, c : At(x, k, c) /\ Before(x, k, v, j) =>
                    \E y, m : At(y, m, c)' /\ Before(y, m, w, i)
  <2>1. CASE w = 1 /\ i = n + 1 /\ At(2, 0, b)
    <3>1. ASSUME NEW x, NEW k, NEW c, At(x, k, c), Before(x, k, 2, 0)
          PROVE  At(x, k, c)' /\ Before(x, k, w, i)
      <4>1. x = 1 /\ k \in Nat /\ k < n + 1
        BY <1>3, <3>1 DEF Before
      <4> QED BY <1>1, <2>1, <3>1, <4>1 DEF Before
    <3> QED BY <2>1, <3>1
  <2>2. CASE w # 2 /\ At(w, i, b)
    <3>1. ASSUME NEW x, NEW k, NEW c, At(x, k, c), Before(x, k, w, i)
          PROVE  \E y, m : At(y, m, c)' /\ Before(y, m, w, i)
      <4>1. CASE x = 2
        <5>1. w = 3
          BY <1>3, <2>2, <3>1, <4>1 DEF Before
        <5> QED BY <1>1, <3>1, <4>1, <5>1 DEF Before
      <4>2. CASE x # 2
        BY <1>1, <3>1, <4>2
      <4> QED BY <4>1, <4>2
    <3> QED BY <2>2, <3>1
  <2> QED BY <1>2, <1>4, <2>1, <2>2
<1> QED BY <1>1, <1>4 DEF Moves

\* The session removes the first report, which has been dealt with.
LEMMA MoveReturn ==
  ASSUME \A k, b : OnWire(k, b)' <=> OnWire(k, b),
         \A b : ~InHand(b) /\ ~InHand(b)',
         \A i, b : InQueue(i, b) => i \in Nat /\ i > 1,
         \A i, b : InQueue(i, b)' <=> i \in Nat /\ InQueue(i + 1, b)
  PROVE  Moves
<1>1. \A w, i, b : At(w, i, b) => IF w = 3 THEN At(w, i - 1, b)' ELSE At(w, i, b)'
  <2>1. \A i, b : InQueue(i, b) => InQueue(i - 1, b)'
    <3> SUFFICES ASSUME NEW i, NEW b, InQueue(i, b) PROVE InQueue(i - 1, b)'
      OBVIOUS
    <3>1. PICK j \in Nat : i = j + 1 /\ i - 1 = j
      OBVIOUS
    <3> QED BY <3>1
  <2> QED BY <2>1 DEF At
<1>2. \A w, i, b : At(w, i, b)' =>
        IF w = 3 THEN i \in Nat /\ At(w, i + 1, b) ELSE At(w, i, b)
  BY DEF At
<1>3. \A w, i, b : At(w, i, b) => w \in {1, 3} /\ i \in Nat
  BY DEF At, OnWire
<1>4. ASSUME NEW w, NEW i, NEW b, At(w, i, b)'
      PROVE  \E v, j :
               /\ At(v, j, b)
               /\ \A x, k, c : At(x, k, c) /\ Before(x, k, v, j) =>
                    \E y, m : At(y, m, c)' /\ Before(y, m, w, i)
  <2>1. PICK j : At(w, j, b) /\ (IF w = 3 THEN i \in Nat /\ j = i + 1 ELSE j = i)
    BY <1>2, <1>4
  <2>2. ASSUME NEW x, NEW k, NEW c, At(x, k, c), Before(x, k, w, j)
        PROVE  \E y, m : At(y, m, c)' /\ Before(y, m, w, i)
    <3>1. CASE x = 3
      <4>1. w = 3 /\ k \in Nat /\ k < j /\ j = i + 1 /\ i \in Nat
        BY <1>3, <2>1, <2>2, <3>1 DEF Before
      <4>2. Before(x, k - 1, w, i)
        BY <3>1, <4>1 DEF Before
      <4> QED BY <1>1, <2>2, <3>1, <4>2
    <3>2. CASE x # 3
      <4>1. Before(x, k, w, i)
        BY <1>3, <2>1, <2>2, <3>2 DEF Before
      <4> QED BY <1>1, <2>2, <3>2, <4>1
    <3> QED BY <3>1, <3>2
  <2> QED BY <2>1, <2>2
<1> QED BY <1>1, <1>4 DEF Moves

-----------------------------------------------------------------------------
(* The steps of the gateway *)

SteadyInv == OInv /\ SerTypes /\ FixHead /\ TurnInv /\ WireInv /\ RunInv

LEMMA QuietTurn ==
  ASSUME SteadyInv, UNCHANGED <<wire, pending, fromVenue, fix>>,
         main' = main \/ (main.at \notin SerAts /\ main'.at \notin SerAts /\ fix.at = "idle")
  PROVE  TurnInv' /\ WireInv' /\ Moves
<1>1. WireInv'
  BY DEF SteadyInv, WireInv, Whole
<1>2. /\ \A k, b : OnWire(k, b)' <=> OnWire(k, b)
      /\ \A b : InHand(b)' <=> InHand(b)
      /\ \A i, b : InQueue(i, b)' <=> InQueue(i, b)
  BY DEF OnWire, InHand, InQueue
<1>3. TurnInv'
  BY DEF SteadyInv, TurnInv, Written
<1> QED BY <1>1, <1>2, <1>3, MoveFrame

LEMMA NewTurn ==
  ASSUME SteadyInv, Dispatch, main.req.type = "ORDER_NEW", main' = [main EXCEPT !.at = "ser1"],
         fix.at = "idle"
  PROVE  TurnInv' /\ WireInv' /\ Moves /\ At(2, 0, main.req)'
<1> USE DEF serial, venue
<1>1. /\ UNCHANGED <<wire, pending, fromVenue, fix>> /\ main.at = "dispatch"
      /\ main'.at = "ser1" /\ main'.req = main.req /\ main.req \in Request
  BY DEF Dispatch, SteadyInv, OInv, LInv, UInv, GInv, MainInv
<1>2. WireInv'
  BY <1>1 DEF SteadyInv, WireInv, Whole
<1>3. TurnInv'
  BY <1>1 DEF SteadyInv, TurnInv, Written, SerAts
<1>4. /\ \A k, b : OnWire(k, b)' <=> OnWire(k, b)
      /\ \A b : ~InHand(b) /\ (InHand(b)' <=> b = main.req)
      /\ \A i, b : InQueue(i, b)' <=> InQueue(i, b)
  BY <1>1 DEF OnWire, InHand, InQueue, SerAts
<1>5. At(2, 0, main.req)'
  BY <1>1 DEF At, InHand, SerAts
<1> QED BY <1>1, <1>2, <1>3, <1>4, <1>5, MoveNew

\* A part that waits: the next stage.
LEMMA WriteTurn ==
  ASSUME SteadyInv, UNCHANGED <<wire, fromVenue>>, main.at # "poll" => fix'.at = "idle",
         \/ /\ main.at \in SerAts /\ main'.at \in SerAts /\ main'.req = main.req /\ fix' = fix
            /\ pending' = Written(main'.at, main.req, "ORDER_NEW")
         \/ /\ fix.at \in SerAts /\ fix'.at \in SerAts /\ fix'.rpt = fix.rpt /\ main' = main
            /\ pending' = Written(fix'.at, fix.rpt, "EXEC_RPT")
  PROVE  TurnInv' /\ WireInv' /\ Moves
<1>1. WireInv'
  BY DEF SteadyInv, WireInv, Whole
<1>2. main.at \notin SerAts \/ fix.at = "idle"
  BY DEF SteadyInv, TurnInv, SerAts
<1>3. TurnInv'
  BY <1>2 DEF SteadyInv, TurnInv, Written, SerAts
<1>4. /\ \A k, b : OnWire(k, b)' <=> OnWire(k, b)
      /\ \A b : InHand(b)' <=> InHand(b)
      /\ \A i, b : InQueue(i, b)' <=> InQueue(i, b)
  BY <1>2 DEF OnWire, InHand, InQueue, SerAts
<1> QED BY <1>1, <1>3, <1>4, MoveFrame

LEMMA AppendTwo ==
  ASSUME NEW a, NEW b
  PROVE  Append(<<a>>, b) = <<a, b>>
<1>1. PICK s : s = Append(<<a>>, b)
  OBVIOUS
<1>2. <<a>> \in Seq({a, b}) /\ Len(<<a>>) = 1 /\ <<a>>[1] = a
  OBVIOUS
<1>3. s \in Seq({a, b}) /\ Len(s) = 2 /\ s[1] = a /\ s[2] = b
  BY <1>1, <1>2
<1>4. s = <<a, b>>
  BY <1>3
<1> QED BY <1>1, <1>4

LEMMA MainSerializeTurn ==
  ASSUME SteadyInv, MainSerialize, fix.at = "idle"
  PROVE  TurnInv' /\ WireInv' /\ Moves
<1> USE DEF serial, venue
<1>1. /\ UNCHANGED <<fromVenue, fix>> /\ main.at \in SerAts /\ main.at # "poll"
      /\ main.req \in Request /\ main \in [at : MainAts, req : Request \cup {NoReq}, internal : BOOLEAN]
      /\ pending = Written(main.at, main.req, "ORDER_NEW")
      /\ OwnerOf(main.req.oid) = main.req.sid
  <2>1. main.at \in {"ser1", "ser2", "ser3"} /\ UNCHANGED <<fromVenue, fix>>
    BY DEF MainSerialize
  <2>2. main.req \in Request /\ main \in [at : MainAts, req : Request \cup {NoReq}, internal : BOOLEAN]
    BY <2>1 DEF SteadyInv, OInv, LInv, UInv, GInv, MainInv
  <2> QED BY <2>1, <2>2, OwnerIs DEF SteadyInv, TurnInv, SerAts
<1>2. CASE main.at = "ser1" /\ WritePart(SidPart(main.req.sid)) /\ main' = [main EXCEPT !.at = "ser2"]
  <2>1. pending = <<>>
    BY <1>1, <1>2 DEF Written
  <2>2. pending' = <<SidPart(main.req.sid)>> /\ wire' = wire
    BY <1>2, <2>1 DEF WritePart
  <2>3. main'.at = "ser2" /\ main'.req = main.req
    BY <1>1, <1>2
  <2> QED BY <1>1, <2>2, <2>3, WriteTurn DEF Written, SerAts
<1>3. CASE main.at = "ser2" /\ WritePart(TypePart("ORDER_NEW")) /\ main' = [main EXCEPT !.at = "ser3"]
  <2>1. pending = <<SidPart(main.req.sid)>>
    BY <1>1, <1>3 DEF Written
  <2>2. pending' = <<SidPart(main.req.sid), TypePart("ORDER_NEW")>> /\ wire' = wire
    BY <1>3, <2>1, AppendTwo, Zenon DEF WritePart
  <2>3. main'.at = "ser3" /\ main'.req = main.req
    BY <1>1, <1>3
  <2> QED BY <1>1, <2>2, <2>3, WriteTurn DEF Written, SerAts
<1>4. CASE main.at = "ser3" /\ WriteLastPart(BodyPart(main.req)) /\ main' = AfterClient
  <2>1. TypeOf(main.req) = "ORDER_NEW"
    BY <1>1, Shape DEF TypeOf
  <2>2. pending = Written("ser3", main.req, TypeOf(main.req)) /\ SerTypes /\ WireInv
    BY <1>1, <1>4, <2>1 DEF SteadyInv
  <2>3. PICK q \in Request : q = main.req
    BY <1>1
  <2>4. /\ WireInv' /\ pending' = <<>>
        /\ \E n \in Nat :
              /\ \A k, c : OnWire(k, c)' <=> OnWire(k, c) \/ (k = n + 1 /\ c = q)
              /\ \A k, c : OnWire(k, c) => k <= n
    BY <1>4, <2>2, <2>3, FlushPlaces
  <2>5. main'.at \in {"poll", "internal"} /\ fix'.at = "idle"
    BY <1>1, <1>4, AfterClientAt
  <2>6. TurnInv'
    BY <1>1, <2>4, <2>5 DEF TurnInv, Written, SerAts
  <2>7. /\ \A b : ~InHand(b)' /\ (InHand(b) <=> b = q)
        /\ \A i, b : InQueue(i, b)' <=> InQueue(i, b)
    BY <1>1, <2>3, <2>5 DEF InHand, InQueue, SerAts
  <2>8. Moves
    BY <2>4, <2>7, MoveFlush
  <2> QED BY <2>4, <2>6, <2>8
<1> QED BY <1>2, <1>3, <1>4 DEF MainSerialize

LEMMA FixSerializeTurn ==
  ASSUME SteadyInv, FixSerialize, main.at = "poll"
  PROVE  TurnInv' /\ WireInv' /\ Moves
<1> USE DEF serial, venue
<1>1. /\ UNCHANGED <<fromVenue, main>> /\ fix.at \in SerAts
      /\ fix.rpt \in Report /\ fix \in [at : FixAts, rpt : Report \cup {NoRpt}, sid : Strategy \cup {NO_SID}]
      /\ pending = Written(fix.at, fix.rpt, "EXEC_RPT")
      /\ OwnerOf(fix.rpt.oid) = fix.sid
  <2>1. fix.at \in {"ser1", "ser2", "ser3"} /\ UNCHANGED <<fromVenue, main>>
    BY DEF FixSerialize
  <2>2. fix.rpt \in Report /\ fix \in [at : FixAts, rpt : Report \cup {NoRpt}, sid : Strategy \cup {NO_SID}]
    BY <2>1 DEF SteadyInv, OInv, LInv, UInv, GInv, FixInv
  <2>3. OwnerOf(fix.rpt.oid) = fix.sid
    BY <2>1, FixOwner DEF SteadyInv
  <2> QED BY <2>1, <2>2, <2>3 DEF SteadyInv, TurnInv, SerAts
<1>2. CASE fix.at = "ser1" /\ WritePart(SidPart(fix.sid)) /\ fix' = [fix EXCEPT !.at = "ser2"]
  <2>1. pending = <<>>
    BY <1>1, <1>2 DEF Written
  <2>2. pending' = <<SidPart(fix.sid)>> /\ wire' = wire
    BY <1>2, <2>1 DEF WritePart
  <2>3. fix'.at = "ser2" /\ fix'.rpt = fix.rpt
    BY <1>1, <1>2
  <2> QED BY <1>1, <2>2, <2>3, WriteTurn DEF Written, SerAts
<1>3. CASE fix.at = "ser2" /\ WritePart(TypePart("EXEC_RPT")) /\ fix' = [fix EXCEPT !.at = "ser3"]
  <2>1. pending = <<SidPart(fix.sid)>>
    BY <1>1, <1>3 DEF Written
  <2>2. pending' = <<SidPart(fix.sid), TypePart("EXEC_RPT")>> /\ wire' = wire
    BY <1>3, <2>1, AppendTwo, Zenon DEF WritePart
  <2>3. fix'.at = "ser3" /\ fix'.rpt = fix.rpt
    BY <1>1, <1>3
  <2> QED BY <1>1, <2>2, <2>3, WriteTurn DEF Written, SerAts
<1>4. CASE fix.at = "ser3" /\ WriteLastPart(BodyPart(fix.rpt)) /\ fix' = [fix EXCEPT !.at = "done"]
  <2>1. TypeOf(fix.rpt) = "EXEC_RPT"
    BY <1>1, Shape DEF TypeOf
  <2>2. pending = Written("ser3", fix.rpt, TypeOf(fix.rpt)) /\ SerTypes /\ WireInv
    BY <1>1, <1>4, <2>1 DEF SteadyInv
  <2>3. PICK q \in Report : q = fix.rpt
    BY <1>1
  <2>4. /\ WireInv' /\ pending' = <<>>
        /\ \E n \in Nat :
              /\ \A k, c : OnWire(k, c)' <=> OnWire(k, c) \/ (k = n + 1 /\ c = q)
              /\ \A k, c : OnWire(k, c) => k <= n
    BY <1>4, <2>2, <2>3, FlushPlaces
  <2>5. fix'.at = "done" /\ main'.at = "poll"
    BY <1>1, <1>4
  <2>6. TurnInv'
    BY <1>1, <2>4, <2>5 DEF TurnInv, Written, SerAts
  <2>7. /\ \A b : ~InHand(b)' /\ (InHand(b) <=> b = q)
        /\ \A i, b : InQueue(i, b)' <=> InQueue(i, b)
    BY <1>1, <2>3, <2>5 DEF InHand, InQueue, SerAts
  <2>8. Moves
    BY <2>4, <2>7, MoveFlush
  <2> QED BY <2>4, <2>6, <2>8
<1> QED BY <1>2, <1>3, <1>4 DEF FixSerialize

LEMMA FixTurn ==
  ASSUME SteadyInv, FixStep, main.at = "poll", UNCHANGED crashes
  PROVE  TurnInv' /\ WireInv' /\ Moves
<1> USE DEF life, caches, serial, session, venue, clients
<1>0. /\ \A why : ~Die(why)
      /\ fix \in [at : FixAts, rpt : Report \cup {NoRpt}, sid : Strategy \cup {NO_SID}]
      /\ fromVenue \in Seq(Report)
      /\ fix.at # "idle" => fix.rpt = fromVenue[1] /\ fromVenue # <<>>
      /\ pending = Written(fix.at, fix.rpt, "EXEC_RPT")
  <2>1. crashes \in Nat
    BY DEF SteadyInv, OInv, LInv, UInv, GInv, LifeInv
  <2>2. \A why : ~Die(why)
    BY <2>1 DEF Die
  <2>3. pending = Written(fix.at, fix.rpt, "EXEC_RPT")
    BY DEF SteadyInv, TurnInv, SerAts
  <2> QED BY <2>2, <2>3 DEF SteadyInv, OInv, LInv, UInv, GInv, FixInv, FixHead
<1>1. CASE FixDrop \/ FixUnsetSocket \/ FixLookupRace
  <2>1. ~FixUnsetSocket /\ ~FixLookupRace
    BY <1>0 DEF FixUnsetSocket, FixLookupRace
  <2>2. ~FixDrop
    BY DEF FixDrop, CanDeliver, SteadyInv, RunInv
  <2> QED BY <1>1, <2>1, <2>2
<1>2. CASE FixLookup
  <2>1. /\ fix.at = "idle" /\ fix'.at = "reply" /\ fix'.rpt = fromVenue[1] /\ fromVenue # <<>>
        /\ UNCHANGED <<main, wire, pending, fromVenue>> /\ 1 \in DOMAIN fromVenue
    BY <1>0, <1>2 DEF FixLookup, CanDeliver
  <2>2. pending = <<>> /\ TurnInv'
    BY <1>0, <2>1 DEF Written, TurnInv, SerAts
  <2>3. WireInv' /\ \A k, b : OnWire(k, b)' <=> OnWire(k, b)
    BY <2>1 DEF SteadyInv, WireInv, Whole, OnWire
  <2>4. \A b : ~InHand(b) /\ (InHand(b)' <=> InQueue(1, b))
    BY <2>1 DEF InHand, InQueue, SerAts
  <2>5. /\ \A i, b : InQueue(i, b) => i \in Nat \ {0}
        /\ \A i, b : InQueue(i, b)' <=> InQueue(i, b) /\ i # 1
    BY <1>0, <2>1 DEF InQueue
  <2> QED BY <2>2, <2>3, <2>4, <2>5, MoveHead
<1>3. CASE FixReply
  <2>1. /\ fix.at = "reply" /\ fix'.rpt = fix.rpt
        /\ fix'.at = IF fix.rpt.kind = "EXEC_RPT" THEN "ser1" ELSE "done"
        /\ UNCHANGED <<main, wire, pending, fromVenue>>
    <3>1. PICK x \in FixAts : x = IF fix.rpt.kind = "EXEC_RPT" THEN "ser1" ELSE "done"
      BY DEF FixAts
    <3>2. fix' = [fix EXCEPT !.at = x]
      BY <1>3, <3>1 DEF FixReply
    <3>3. fix'.at = x /\ fix'.rpt = fix.rpt
      BY <1>0, <3>2
    <3> QED BY <1>3, <3>1, <3>3 DEF FixReply
  <2>2. pending = <<>> /\ TurnInv'
    BY <1>0, <2>1 DEF Written, TurnInv, SerAts
  <2>3. WireInv' /\ \A k, b : OnWire(k, b)' <=> OnWire(k, b)
    BY <2>1 DEF SteadyInv, WireInv, Whole, OnWire
  <2>4. \A b : InHand(b)' <=> InHand(b)
    BY <2>1 DEF InHand, SerAts
  <2>5. \A i, b : InQueue(i, b)' <=> InQueue(i, b)
    BY <2>1 DEF InQueue
  <2> QED BY <2>2, <2>3, <2>4, <2>5, MoveFrame
<1>4. CASE FixSerialize
  BY <1>4, FixSerializeTurn
<1>5. CASE FixDone
  <2>1. /\ fix.at = "done" /\ fix'.at = "idle" /\ fromVenue' = Tail(fromVenue)
        /\ fromVenue # <<>> /\ UNCHANGED <<main, wire, pending>>
    BY <1>0, <1>5 DEF FixDone, FixReturn, FixIdle
  <2>2. pending = <<>> /\ TurnInv'
    BY <1>0, <2>1 DEF Written, TurnInv, SerAts
  <2>3. WireInv' /\ \A k, b : OnWire(k, b)' <=> OnWire(k, b)
    BY <2>1 DEF SteadyInv, WireInv, Whole, OnWire
  <2>4. \A b : ~InHand(b) /\ ~InHand(b)'
    BY <2>1 DEF InHand, SerAts
  <2>5. \A i : i \in DOMAIN fromVenue' <=> i \in Nat /\ i # 0 /\ i + 1 \in DOMAIN fromVenue
    BY <1>0, <2>1
  <2>6. \A i \in DOMAIN fromVenue' : fromVenue'[i] = fromVenue[i + 1]
    BY <1>0, <2>1
  <2>7. \A i, b : InQueue(i, b) => i \in Nat /\ i > 1
    BY <1>0, <2>1 DEF InQueue
  <2>8. \A i, b : InQueue(i, b)' <=> i \in Nat /\ InQueue(i + 1, b)
    <3> SUFFICES ASSUME NEW i, NEW b PROVE InQueue(i, b)' <=> i \in Nat /\ InQueue(i + 1, b)
      OBVIOUS
    <3>1. CASE i \in DOMAIN fromVenue'
      BY <2>1, <2>5, <2>6, <3>1 DEF InQueue
    <3>2. CASE i \notin DOMAIN fromVenue'
      BY <2>1, <2>5, <3>2 DEF InQueue
    <3> QED BY <3>1, <3>2
  <2> QED BY <2>2, <2>3, <2>4, <2>7, <2>8, MoveReturn
<1> QED BY <1>1, <1>2, <1>3, <1>4, <1>5 DEF FixStep

LEMMA MainTurn ==
  ASSUME SteadyInv, MainStep, fix.at = "idle", UNCHANGED crashes
  PROVE  TurnInv' /\ WireInv' /\ Moves
<1> USE DEF life, caches, serial, session, venue, clients
<1>0. \A why : ~Die(why)
  BY DEF SteadyInv, OInv, LInv, UInv, GInv, LifeInv, Die
<1>1. main \in [at : MainAts, req : Request \cup {NoReq}, internal : BOOLEAN]
  BY DEF SteadyInv, OInv, LInv, UInv, GInv, MainInv
<1>2. CASE Poll \/ HandleBad \/ HandleHelo \/ FinishHelo \/ HandleHeartbeat \/ HandleOrder
           \/ CacheOrder \/ RcvInternal
  <2>1. UNCHANGED <<wire, pending, fromVenue, fix>> /\ main.at \notin SerAts
    BY <1>0, <1>2
    DEF Poll, HandleBad, HandleHelo, FinishHelo, HandleHeartbeat, HandleOrder, CacheOrder,
        RcvInternal, SerAts
  <2>2. main'.at \notin SerAts
    <3>1. CASE main' = AfterClient
      BY <3>1, AfterClientAt DEF SerAts
    <3>2. CASE main' = MainIdle \/ Poll
      BY <3>2 DEF Poll, MainAt, MainIdle, SerAts
    <3>3. CASE HandleHelo \/ HandleOrder \/ CacheOrder
      BY <1>0, <1>1, <3>3 DEF HandleHelo, HandleOrder, CacheOrder, SerAts
    <3> QED BY <1>0, <1>2, <3>1, <3>2, <3>3
        DEF HandleBad, FinishHelo, HandleHeartbeat, RcvInternal
  <2> QED BY <2>1, <2>2, QuietTurn
<1>3. CASE Dispatch
  <2>1. CASE main.req.type = "ORDER_NEW" /\ main' = [main EXCEPT !.at = "ser1"]
    BY <1>3, <2>1, NewTurn
  <2>2. CASE main' = AfterClient
    <3>1. UNCHANGED <<wire, pending, fromVenue, fix>> /\ main.at \notin SerAts
      BY <1>3 DEF Dispatch, SerAts
    <3>2. main'.at \notin SerAts
      BY <2>2, AfterClientAt DEF SerAts
    <3> QED BY <3>1, <3>2, QuietTurn
  <2> QED BY <1>3, <2>1, <2>2
      DEF Dispatch, NewOrderSingle42, OrderCancel42, OrderCancelReplace42, OrderStatus42
<1>4. CASE MainSerialize
  BY <1>4, MainSerializeTurn
<1> QED BY <1>2, <1>3, <1>4 DEF MainStep

\* A new order that was sent.
NewSent(o) == o \in Gone /\ \E q \in Request : q.oid = o /\ q.type = "ORDER_NEW"

\* What the process sends it does from its poll loop, and it remembers it; a
\* new order it sends goes to the serializer too.
LEMMA SentNews ==
  ASSUME SteadyInv, LInv', GatewayNext, NoOverlap, UNCHANGED crashes
  PROVE  /\ RunInv'
         /\ \A o : NewSent(o)' => NewSent(o) \/ \E q \in Request : q.oid = o /\ At(2, 0, q)'
<1> USE DEF life, caches, serial, session, venue, clients
<1>0. \A why : ~Die(why)
  BY DEF SteadyInv, OInv, LInv, UInv, GInv, LifeInv, Die
<1>1. GInv /\ (phase # "running" => main.at = "poll") /\ (fix.at # "idle" => fromVenue # <<>>)
  BY DEF SteadyInv, OInv, LInv, UInv, GInv, MainInv, FixInv
<1>2. CASE Dispatch
  <2>1. PICK q \in Request : q = main.req
    BY <1>1, <1>2, DispatchSends
  <2>2. phase = "running" /\ phase' = phase
    BY <1>1, <1>2 DEF Dispatch
  <2>3. CASE UNCHANGED <<sent, store, sentNow>>
    <3>1. Gone' = Gone
      BY <2>3 DEF Gone, SentOids, StoreOids
    <3> QED BY <2>2, <2>3, <3>1 DEF SteadyInv, RunInv, NewSent
  <2>4. CASE SendToTarget(q)
    <3>1. Gone' = Gone \cup {q.oid} /\ sentNow' = sentNow \cup {q.oid}
      BY <1>1, <2>4, SendGone DEF SendToTarget
    <3>2. RunInv'
      BY <2>2, <3>1 DEF SteadyInv, RunInv
    <3>3. ASSUME q.type = "ORDER_NEW", ~UNCHANGED <<sent, store, sentNow>> PROVE At(2, 0, q)'
      <4>1. main' = [main EXCEPT !.at = "ser1"]
        BY <1>2, <2>1, <3>3
        DEF Dispatch, NewOrderSingle42, OrderCancel42, OrderCancelReplace42, OrderStatus42
      <4>2. fix.at = "idle"
        BY <1>2 DEF NoOverlap, MainStep
      <4>3. At(2, 0, main.req)'
        BY <1>2, <2>1, <3>3, <4>1, <4>2, NewTurn
      <4> QED BY <2>1, <4>1, <4>3
    <3>4. UNCHANGED <<sent, store, sentNow>> => \A o : NewSent(o)' => NewSent(o)
      BY DEF NewSent, Gone, SentOids, StoreOids
    <3>5. \A r \in Request : r.oid = q.oid => r = q
      BY GatewayAssumption
    <3> QED BY <3>1, <3>2, <3>3, <3>4, <3>5 DEF NewSent
  <2> QED BY <1>1, <1>2, <2>1, <2>3, <2>4, DispatchSends
<1>3. CASE Logon
  <2>1. /\ \A i \in DOMAIN sent' : \/ i \in DOMAIN sent /\ sent'[i] = sent[i]
                                   \/ \E j \in DOMAIN store : sent'[i].req = store[j]
        /\ store' = <<>>
    BY <1>1, <1>3, LogonMoves
  <2>2. Gone' \subseteq Gone
    BY <2>1 DEF Gone, SentOids, StoreOids
  <2>3. phase' = phase /\ UNCHANGED <<sentNow, fromVenue>>
    BY <1>3 DEF Logon
  <2>4. sent = <<>> /\ store = <<>> => sent' = <<>>
    <3>1. sent' \in Seq(SentMsg)
      BY DEF LInv, UInv, GInv, SessionInv
    <3>2. sent = <<>> /\ store = <<>> => DOMAIN sent = {} /\ DOMAIN store = {}
      OBVIOUS
    <3>3. sent = <<>> /\ store = <<>> => DOMAIN sent' = {}
      BY <2>1, <3>2
    <3> QED BY <3>1, <3>3
  <2> QED BY <2>1, <2>2, <2>3, <2>4 DEF SteadyInv, RunInv, NewSent
<1>4. CASE ~Dispatch /\ ~Logon
  <2>1. UNCHANGED <<sent, store, sentNow>>
    <3>1. CASE Process \/ Strategies \/ Logout
      BY <1>0, <3>1
      DEF Process, Start, MakeMsgProcessor, FinishInit, Kill, Strategies, Connect, SendAdmin,
          SendRequest, Logout
    <3>2. CASE MainStep
      BY <1>0, <1>4, <3>2
      DEF MainStep, Poll, HandleBad, HandleHelo, FinishHelo, HandleHeartbeat, HandleOrder,
          CacheOrder, MainSerialize, RcvInternal
    <3>3. CASE FixStep
      BY <1>0, <3>3
      DEF FixStep, FixDrop, FixUnsetSocket, FixLookup, FixLookupRace, FixReply, FixSerialize,
          FixDone
    <3> QED BY <1>4, <3>1, <3>2, <3>3 DEF GatewayNext
  <2>2. Gone' = Gone
    BY <2>1 DEF Gone, SentOids, StoreOids
  <2>3. phase' # "running" => phase # "running" /\ fromVenue' = fromVenue
    <3>1. CASE Process \/ Strategies \/ Logout
      BY <1>0, <3>1
      DEF Process, Start, MakeMsgProcessor, FinishInit, Kill, Strategies, Connect, SendAdmin,
          SendRequest, Logout
    <3>2. CASE MainStep
      BY <1>0, <1>4, <3>2
      DEF MainStep, Poll, HandleBad, HandleHelo, FinishHelo, HandleHeartbeat, HandleOrder,
          CacheOrder, MainSerialize, RcvInternal
    <3>3. CASE FixStep
      <4>1. phase # "running" => fromVenue = <<>>
        BY DEF SteadyInv, RunInv
      <4> QED BY <1>0, <1>1, <3>3, <4>1
          DEF FixStep, FixDrop, FixUnsetSocket, FixLookup, FixLookupRace, FixReply, FixSerialize,
              FixDone, CanDeliver
    <3> QED BY <1>4, <3>1, <3>2, <3>3 DEF GatewayNext
  <2> QED BY <2>1, <2>2, <2>3 DEF SteadyInv, RunInv, NewSent
<1> QED BY <1>2, <1>3, <1>4

\* A step of the gateway that is no crash.
LEMMA GatewayTurn ==
  ASSUME SteadyInv, GatewayNext, NoOverlap, UNCHANGED crashes
  PROVE  TurnInv' /\ WireInv' /\ Moves
<1> USE DEF life, caches, serial, session, venue, clients
<1>1. CASE MainStep
  BY <1>1, MainTurn DEF NoOverlap
<1>2. CASE FixStep
  BY <1>2, FixTurn DEF NoOverlap
<1>3. CASE Process \/ Strategies \/ Logon \/ Logout
  <2>1. ~Kill
    BY DEF SteadyInv, OInv, LInv, UInv, GInv, LifeInv, Kill, Die
  <2>2. UNCHANGED <<wire, pending, fromVenue, fix, main>>
    BY <1>3, <2>1
    DEF Process, Start, MakeMsgProcessor, FinishInit, Strategies, Connect, SendAdmin, SendRequest,
        Logon, Logout
  <2> QED BY <2>2, QuietTurn
<1> QED BY <1>1, <1>2, <1>3 DEF GatewayNext

-----------------------------------------------------------------------------
(* What the messages say *)

Ins(o) == Ser!InsertNew(OwnerOf(o), o)
Stat(o, x) == Ser!SetStatus(OwnerOf(o), o, x)
Trd(o, e) == Ser!InsertTrade(OwnerOf(o), o, e)

\* Statement st is one of those that a message with body b asks for.
Says(b, st) ==
  IF "kind" \notin DOMAIN b THEN st = Ins(b.oid)
  ELSE \/ b.body.status = "REPLACE" /\ st = Ins(b.oid)
       \/ /\ b.body.status = "REPLACE"
          /\ st = Ser!SetStatus(OwnerOf(b.oid), b.body.orig, "CANCELLED")
       \/ /\ b.body.status \in {"CANCELLED", "REJECTED"}
          /\ st = Ser!SetStatus(OwnerOf(b.oid), b.body.orig, b.body.status)
       \/ b.body.status = "FILL" /\ st = Stat(b.oid, "FILL")
       \/ b.body.status \in Fills /\ st = Trd(b.oid, b.body.exec)

\* Statement st is read (place 0), or asked for by a message at place w.
Brings(w, i, st) ==
  \/ w = 0 /\ i \in DOMAIN todo /\ st = todo[i]
  \/ \E b : At(w, i, b) /\ Says(b, st)

Comes(st) == \E w, i : Brings(w, i, st)
ComesBefore(st, w, i) == \E v, j : Before(v, j, w, i) /\ Brings(v, j, st)

\* The venue has ended order o in a way the serializer records as x.
Fated(o, x) ==
  /\ o \in DOMAIN venueState
  /\ \/ venueState[o] = "filled" /\ x = "FILL"
     \/ venueState[o] \in {"cancelled", "replaced"} /\ x = "CANCELLED"

Accepted(o) == o \in DOMAIN venueState \/ NewSent(o)
HasRow(o) == RowOf(o) \in DOMAIN orders
Executes(e, o) == e \in DOMAIN executed /\ executed[e] = o
Booked(e, o) == \E i \in DOMAIN trades : trades[i] = [sid |-> OwnerOf(o), oid |-> o, exec |-> e]

InsertInv == \A o \in OrderId : Accepted(o) => HasRow(o) \/ Comes(Ins(o))

StatusInv ==
  \A o \in OrderId : \A x : Fated(o, x) => HasStatus(o, x) \/ Comes(Stat(o, x))

BookInv == \A e, o : Executes(e, o) => Booked(e, o) \/ Comes(Trd(o, e))

\* An order is marked with its fate, under its owner, and after its row is
\* inserted.
Right(w, i, st) ==
  /\ st.op = "insert" => st.arg = "NEW"
  /\ st.op = "status" /\ st.oid # NO_OID =>
       /\ Fated(st.oid, st.arg) /\ st = Stat(st.oid, st.arg)
       /\ HasRow(st.oid) \/ ComesBefore(Ins(st.oid), w, i)

RightInv == \A w, i, st : Brings(w, i, st) => Right(w, i, st)

RowInv ==
  \A o \in OrderId :
    HasRow(o) => HasStatus(o, "NEW") \/ \E x : Fated(o, x) /\ HasStatus(o, x)

DataInv == InsertInv /\ StatusInv /\ BookInv /\ RightInv /\ RowInv

\* Statements move on, none overtakes another, and only insertions are new.
Streams ==
  /\ \A st : Comes(st) => Comes(st)'
  /\ \A w, i, st : Brings(w, i, st)' =>
       \/ st.op = "insert" /\ st.arg = "NEW"
       \/ \E v, j :
            /\ Brings(v, j, st)
            /\ \A x, k, t : Brings(x, k, t) /\ Before(x, k, v, j) => ComesBefore(t, w, i)'

LEMMA StatementFields ==
  ASSUME NEW s, NEW o, NEW x
  PROVE  /\ Ser!InsertNew(s, o).op = "insert" /\ Ser!InsertNew(s, o).arg = "NEW"
         /\ Ser!InsertNew(s, o).sid = s /\ Ser!InsertNew(s, o).oid = o
         /\ Ser!SetStatus(s, o, x).op = "status" /\ Ser!SetStatus(s, o, x).arg = x
         /\ Ser!SetStatus(s, o, x).sid = s /\ Ser!SetStatus(s, o, x).oid = o
         /\ Ser!InsertTrade(s, o, x).op = "trade" /\ Ser!InsertTrade(s, o, x).arg = x
         /\ Ser!InsertTrade(s, o, x).sid = s /\ Ser!InsertTrade(s, o, x).oid = o
BY DEF Ser!InsertNew, Ser!SetStatus, Ser!InsertTrade

LEMMA MovesStream ==
  ASSUME Moves, UNCHANGED todo
  PROVE  Streams
<1>1. \A w, i, b : At(w, i, b) => w \in {1, 2, 3}
  BY DEF At
<1>2. \A w, i, b : At(w, i, b)' => w \in {1, 2, 3}
  BY DEF At
<1>3. \A i, st : i \in DOMAIN todo /\ st = todo[i] => Brings(0, i, st) /\ Brings(0, i, st)'
  BY DEF Brings
<1>4. \A v, j, b, st : At(v, j, b) /\ Says(b, st) => Brings(v, j, st)
  BY DEF Brings
<1>5. \A v, j, b, st : At(v, j, b)' /\ Says(b, st) => Brings(v, j, st)'
  BY DEF Brings, Says, Ins, Stat, Trd
<1>6. \A w, i, st : Brings(w, i, st) =>
        (w = 0 /\ i \in DOMAIN todo /\ st = todo[i]) \/ \E b : At(w, i, b) /\ Says(b, st)
  BY DEF Brings
<1>7. \A w, i, st : Brings(w, i, st)' =>
        (w = 0 /\ i \in DOMAIN todo /\ st = todo[i]) \/ \E b : At(w, i, b)' /\ Says(b, st)
  BY DEF Brings, Says, Ins, Stat, Trd
<1>8. ASSUME NEW w, NEW i, NEW st, Brings(w, i, st)
      PROVE  Comes(st)'
  <2>1. CASE w = 0 /\ i \in DOMAIN todo /\ st = todo[i]
    BY <1>3, <2>1 DEF Comes
  <2>2. CASE \E b : At(w, i, b) /\ Says(b, st)
    <3>1. PICK b : At(w, i, b) /\ Says(b, st)
      BY <2>2
    <3>2. \E v, j : At(v, j, b)'
      BY <3>1 DEF Moves
    <3> QED BY <1>5, <3>1, <3>2 DEF Comes
  <2> QED BY <1>6, <1>8, <2>1, <2>2
<1>9. ASSUME NEW w, NEW i, NEW st, Brings(w, i, st)', ~(st.op = "insert" /\ st.arg = "NEW")
      PROVE  \E v, j :
               /\ Brings(v, j, st)
               /\ \A x, k, t : Brings(x, k, t) /\ Before(x, k, v, j) => ComesBefore(t, w, i)'
  <2>1. CASE w = 0 /\ i \in DOMAIN todo /\ st = todo[i]
    <3>1. \A x, k, t : Brings(x, k, t) /\ Before(x, k, 0, i) => ComesBefore(t, w, i)'
      <4> SUFFICES ASSUME NEW x, NEW k, NEW t, Brings(x, k, t), Before(x, k, 0, i)
                   PROVE  ComesBefore(t, w, i)'
        OBVIOUS
      <4>1. x = 0 /\ k \in DOMAIN todo /\ t = todo[k]
        BY <1>1, <1>6 DEF Before
      <4> QED BY <1>3, <2>1, <4>1 DEF ComesBefore
    <3> QED BY <1>3, <2>1, <3>1
  <2>2. CASE \E b : At(w, i, b)' /\ Says(b, st)
    <3>1. PICK b : At(w, i, b)' /\ Says(b, st)
      BY <2>2
    <3>2. b \notin Request
      BY <1>9, <3>1, Shape, StatementFields DEF Says, Ins
    <3>3. PICK v, j : /\ At(v, j, b)
                      /\ \A x, k, c : At(x, k, c) /\ Before(x, k, v, j) =>
                           \E y, m : At(y, m, c)' /\ Before(y, m, w, i)
      BY <3>1, <3>2 DEF Moves
    <3>4. ASSUME NEW x, NEW k, NEW t, Brings(x, k, t), Before(x, k, v, j)
          PROVE  ComesBefore(t, w, i)'
      <4>1. CASE x = 0 /\ k \in DOMAIN todo /\ t = todo[k]
        <5>1. Before(0, k, w, i)
          BY <1>2, <3>1 DEF Before
        <5> QED BY <1>3, <4>1, <5>1 DEF ComesBefore
      <4>2. CASE \E c : At(x, k, c) /\ Says(c, t)
        <5>1. PICK c : At(x, k, c) /\ Says(c, t)
          BY <4>2
        <5>2. PICK y, m : At(y, m, c)' /\ Before(y, m, w, i)
          BY <3>3, <3>4, <5>1
        <5> QED BY <1>5, <5>1, <5>2 DEF ComesBefore
      <4> QED BY <1>6, <3>4, <4>1, <4>2
    <3> QED BY <1>4, <3>1, <3>3, <3>4
  <2> QED BY <1>7, <1>9, <2>1, <2>2
<1> QED BY <1>8, <1>9 DEF Streams, Comes

\* Nothing is recorded or decided, and what is said stays on its way.
LEMMA StreamData ==
  ASSUME DataInv, Streams, UNCHANGED <<venueState, executed, orders, trades>>,
         \A o \in OrderId : Accepted(o)' => Accepted(o) \/ Comes(Ins(o))'
  PROVE  DataInv'
<1>1. /\ \A o, x : /\ Fated(o, x)' <=> Fated(o, x)
                   /\ HasStatus(o, x)' <=> HasStatus(o, x)
      /\ \A o : HasRow(o)' <=> HasRow(o)
      /\ \A e, o : (Executes(e, o)' <=> Executes(e, o)) /\ (Booked(e, o)' <=> Booked(e, o))
  BY DEF Fated, HasStatus, HasRow, Executes, Booked, RowOf, OwnerOf
<1>2. \A st : Comes(st) => Comes(st)'
  BY DEF Streams
<1>3. InsertInv'
  BY <1>1, <1>2 DEF DataInv, InsertInv, Ins, OwnerOf
<1>4. StatusInv'
  BY <1>1, <1>2 DEF DataInv, StatusInv, Stat, OwnerOf
<1>5. BookInv'
  BY <1>1, <1>2 DEF DataInv, BookInv, Trd, OwnerOf
<1>6. RowInv'
  BY <1>1 DEF DataInv, RowInv
<1>7. ASSUME NEW w, NEW i, NEW st, Brings(w, i, st)'
      PROVE  Right(w, i, st)'
  <2>1. CASE st.op = "insert" /\ st.arg = "NEW"
    BY <2>1 DEF Right
  <2>2. CASE \E v, j :
               /\ Brings(v, j, st)
               /\ \A x, k, t : Brings(x, k, t) /\ Before(x, k, v, j) => ComesBefore(t, w, i)'
    <3>1. PICK v, j :
            /\ Brings(v, j, st)
            /\ \A x, k, t : Brings(x, k, t) /\ Before(x, k, v, j) => ComesBefore(t, w, i)'
      BY <2>2
    <3>2. Right(v, j, st)
      BY <3>1 DEF DataInv, RightInv
    <3>3. \A t : ComesBefore(t, v, j) => ComesBefore(t, w, i)'
      BY <3>1 DEF ComesBefore
    <3> QED BY <1>1, <3>2, <3>3 DEF Right
  <2> QED BY <1>7, <2>1, <2>2 DEF Streams
<1>8. RightInv'
  BY <1>7 DEF RightInv
<1> QED BY <1>3, <1>4, <1>5, <1>6, <1>8 DEF DataInv

-----------------------------------------------------------------------------
(* The serializer *)

\* The serializer makes of a message the statements it says.
LEMMA SaidStatements ==
  ASSUME NEW b \in Request \cup Report, NEW t,
         t = Ser!Statements(OwnerOf(b.oid), TypeOf(b), BodyPart(b))
  PROVE  \A st : (\E i \in DOMAIN t : st = t[i]) <=> Says(b, st)
<1>1. /\ BodyPart(b).part = "body" /\ BodyPart(b).val = b
      /\ Ser!OidIn(BodyPart(b)) = b.oid
  BY DEF BodyPart, Ser!OidIn
<1>2. CASE b \in Request
  <2>1. "kind" \notin DOMAIN b /\ TypeOf(b) = "ORDER_NEW"
    BY <1>2, Shape DEF TypeOf
  <2>2. t = <<Ins(b.oid)>>
    BY <1>1, <2>1 DEF Ser!Statements, Ins
  <2> QED BY <2>1, <2>2 DEF Says
<1>3. CASE b \in Report
  <2>1. "kind" \in DOMAIN b /\ TypeOf(b) = "EXEC_RPT"
    BY <1>3, Shape DEF TypeOf
  <2>2. t = Ser!UpdateOrder(OwnerOf(b.oid), b.oid, b.body)
    BY <1>1, <2>1 DEF Ser!Statements, Ser!IsExecReport
  <2>3. PICK s, o, r : s = OwnerOf(b.oid) /\ o = b.oid /\ r = b.body
    OBVIOUS
  <2>4. PICK ins, can, rej, fil, trd :
          /\ ins = Ser!InsertNew(s, o) /\ can = Ser!SetStatus(s, r.orig, "CANCELLED")
          /\ rej = Ser!SetStatus(s, r.orig, "REJECTED")
          /\ fil = Ser!SetStatus(s, o, "FILL") /\ trd = Ser!InsertTrade(s, o, r.exec)
    OBVIOUS
  <2>5. \A st : Says(b, st) <=>
          \/ r.status = "REPLACE" /\ st = ins
          \/ r.status = "REPLACE" /\ st = can
          \/ r.status = "CANCELLED" /\ st = can
          \/ r.status = "REJECTED" /\ st = rej
          \/ r.status = "FILL" /\ st = fil
          \/ r.status \in Fills /\ st = trd
    BY <2>1, <2>3, <2>4 DEF Says, Ins, Stat, Trd
  <2>6. Ser!InsertReplacement(s, o) = ins
    BY <2>4 DEF Ser!InsertNew, Ser!InsertReplacement
  <2>7. CASE r.status = "REPLACE"
    <3>1. t = <<ins, can>>
      BY <2>2, <2>3, <2>4, <2>6, <2>7 DEF Ser!UpdateOrder
    <3>2. \A st : (\E i \in DOMAIN t : st = t[i]) <=> st = ins \/ st = can
      BY <3>1
    <3> QED BY <2>5, <2>7, <3>2 DEF Fills
  <2>8. CASE r.status = "CANCELLED"
    <3>1. t = <<can>>
      BY <2>2, <2>3, <2>4, <2>8 DEF Ser!UpdateOrder
    <3> QED BY <2>5, <2>8, <3>1 DEF Fills
  <2>9. CASE r.status = "REJECTED"
    <3>1. t = <<rej>>
      BY <2>2, <2>3, <2>4, <2>9 DEF Ser!UpdateOrder
    <3> QED BY <2>5, <2>9, <3>1 DEF Fills
  <2>10. CASE r.status = "FILL"
    <3>1. t = <<fil, trd>>
      BY <2>2, <2>3, <2>4, <2>10 DEF Ser!UpdateOrder
    <3>2. \A st : (\E i \in DOMAIN t : st = t[i]) <=> st = fil \/ st = trd
      BY <3>1
    <3> QED BY <2>5, <2>10, <3>2 DEF Fills
  <2>11. CASE r.status = "PARTIAL_FILL"
    <3>1. t = <<trd>>
      BY <2>2, <2>3, <2>4, <2>11 DEF Ser!UpdateOrder
    <3> QED BY <2>5, <2>11, <3>1 DEF Fills
  <2>12. CASE r.status \notin {"REPLACE", "CANCELLED", "REJECTED", "FILL", "PARTIAL_FILL"}
    <3>1. t = <<>>
      BY <2>2, <2>3, <2>12 DEF Ser!UpdateOrder
    <3> QED BY <2>5, <2>12, <3>1 DEF Fills
  <2> QED BY <2>7, <2>8, <2>9, <2>10, <2>11, <2>12
<1> QED BY <1>2, <1>3

\* A message is read off the wire, and the next one comes first.
LEMMA WireRead ==
  ASSUME SerTypes, WireInv, Len(wire) >= 3, wire' = SubSeq(wire, 4, Len(wire))
  PROVE  /\ WireInv'
         /\ \E b \in Request \cup Report :
              /\ wire[1] = SidPart(OwnerOf(b.oid)) /\ wire[2] = TypePart(TypeOf(b))
              /\ wire[3] = BodyPart(b) /\ OnWire(1, b)
         /\ \A k, c : OnWire(k, c)' => OnWire(k + 1, c)
         /\ \A k, c : OnWire(k, c) => k >= 1
         /\ \A k, c : OnWire(k, c) /\ k > 1 => OnWire(k - 1, c)'
<1>1. PICK n \in Nat : Len(wire) = 3 * n /\ \A k \in 1 .. n : Whole(k)
  BY DEF WireInv
<1>2. n >= 1 /\ 1 \in 1 .. n /\ n - 1 \in Nat
  BY <1>1
<1>3. PICK m \in Nat : m = Len(wire)
  BY <1>1
<1>4. /\ wire' \in Seq(Part) /\ Len(wire') = m - 3
      /\ \A i \in 1 .. m - 3 : wire'[i] = wire[i + 3]
  <2>1. wire' = SubSeq(wire, 4, m) /\ wire \in Seq(Part) /\ m >= 3
    BY <1>3 DEF SerTypes
  <2> QED BY <1>3, <2>1
<1>5. DOMAIN wire = 1 .. 3 * n /\ DOMAIN wire' = 1 .. 3 * n - 3 /\ Len(wire') = 3 * (n - 1)
  BY <1>1, <1>3, <1>4 DEF SerTypes
<1>6. \A i \in 1 .. 3 * n - 3 : wire'[i] = wire[i + 3]
  BY <1>1, <1>3, <1>4
<1>7. WireInv'
  <2>1. ASSUME NEW k \in 1 .. n - 1 PROVE Whole(k)'
    <3>1. k + 1 \in 1 .. n
      BY <1>2
    <3>2. /\ 3 * (k + 1) - 2 = (3 * k - 2) + 3 /\ 3 * (k + 1) - 1 = (3 * k - 1) + 3
          /\ 3 * (k + 1) = 3 * k + 3
          /\ 3 * k - 2 \in 1 .. 3 * n - 3 /\ 3 * k - 1 \in 1 .. 3 * n - 3
          /\ 3 * k \in 1 .. 3 * n - 3
      OBVIOUS
    <3>3. Whole(k + 1)
      BY <1>1, <3>1
    <3> QED BY <1>6, <3>2, <3>3 DEF Whole
  <2> QED BY <1>2, <1>5, <2>1 DEF WireInv
<1>8. \E b \in Request \cup Report :
        /\ wire[1] = SidPart(OwnerOf(b.oid)) /\ wire[2] = TypePart(TypeOf(b))
        /\ wire[3] = BodyPart(b) /\ OnWire(1, b)
  <2>1. Whole(1)
    BY <1>1, <1>2
  <2>2. 3 * 1 - 2 = 1 /\ 3 * 1 - 1 = 2 /\ 3 * 1 = 3 /\ 3 \in DOMAIN wire
    BY <1>2, <1>5
  <2> QED BY <2>1, <2>2 DEF Whole, OnWire
<1>9. \A k, c : OnWire(k, c)' => OnWire(k + 1, c)
  <2> SUFFICES ASSUME NEW k \in Nat, NEW c, OnWire(k, c)' PROVE OnWire(k + 1, c)
    BY DEF OnWire
  <2>1. 3 * k \in 1 .. 3 * n - 3 /\ wire'[3 * k] = BodyPart(c)
    BY <1>5 DEF OnWire
  <2>2. 3 * (k + 1) = 3 * k + 3 /\ 3 * k + 3 \in 1 .. 3 * n
    BY <2>1
  <2> QED BY <1>5, <1>6, <2>1, <2>2 DEF OnWire
<1>10. \A k, c : OnWire(k, c) => k >= 1
  BY <1>5 DEF OnWire
<1>11. \A k, c : OnWire(k, c) /\ k > 1 => OnWire(k - 1, c)'
  <2> SUFFICES ASSUME NEW k \in Nat, NEW c, OnWire(k, c), k > 1 PROVE OnWire(k - 1, c)'
    BY DEF OnWire
  <2>1. 3 * k \in 1 .. 3 * n /\ wire[3 * k] = BodyPart(c)
    BY <1>5 DEF OnWire
  <2>2. 3 * (k - 1) + 3 = 3 * k /\ 3 * (k - 1) \in 1 .. 3 * n - 3 /\ k - 1 \in Nat
    BY <2>1
  <2> QED BY <1>5, <1>6, <2>1, <2>2 DEF OnWire
<1> QED BY <1>7, <1>8, <1>9, <1>10, <1>11

\* The message at the head of the wire becomes the statements it says.
LEMMA ReadStreams ==
  ASSUME SteadyInv, Ser!ReadMessage, UNCHANGED <<main, fix, fromVenue, pending>>
  PROVE  /\ WireInv' /\ Streams
         /\ UNCHANGED <<serUp, orders, trades, sqlErrors, aborts>>
<1>1. todo = <<>> /\ Len(wire) >= 3 /\ wire' = SubSeq(wire, 4, Len(wire))
  BY DEF Ser!ReadMessage
<1>2. SerTypes /\ WireInv
  BY DEF SteadyInv
<1>3. PICK b \in Request \cup Report :
        /\ wire[1] = SidPart(OwnerOf(b.oid)) /\ wire[2] = TypePart(TypeOf(b))
        /\ wire[3] = BodyPart(b) /\ OnWire(1, b)
  BY <1>1, <1>2, WireRead
<1>4. /\ WireInv'
      /\ \A k, c : OnWire(k, c)' => OnWire(k + 1, c)
      /\ \A k, c : OnWire(k, c) => k >= 1
      /\ \A k, c : OnWire(k, c) /\ k > 1 => OnWire(k - 1, c)'
  BY <1>1, <1>2, WireRead
<1>5. PICK s, type, p : s = OwnerOf(b.oid) /\ type = TypeOf(b) /\ p = BodyPart(b)
  OBVIOUS
<1>6. /\ Ser!TypeFrom(wire[2]) = type /\ Ser!StrategyIdFrom(wire[1]) = s /\ wire[3] = p
      /\ ~Ser!MayNotParse(type, p)
  BY <1>3, <1>5
  DEF Ser!TypeFrom, Ser!StrategyIdFrom, Ser!MayNotParse, SidPart, TypePart, BodyPart
<1>7. todo' = Ser!Statements(s, type, p) /\ UNCHANGED <<serUp, orders, trades, sqlErrors, aborts>>
  BY <1>6 DEF Ser!ReadMessage, Ser!db
<1>8. \A st : (\E i \in DOMAIN todo' : st = todo'[i]) <=> Says(b, st)
  BY <1>5, <1>7, SaidStatements
<1>9. \A st : Says(b, st) => \E i : Brings(0, i, st)'
  BY <1>8 DEF Brings
<1>10. \A i, st : ~Brings(0, i, st)
  BY <1>1 DEF Brings, At
<1>11. \A c : OnWire(1, c) => c = b
  BY <1>3, Shape DEF OnWire
<1>12. \A w, i, c : w \in {2, 3} => (At(w, i, c)' <=> At(w, i, c))
  BY DEF At, InHand, InQueue
<1>13. /\ \A i, c : At(1, i, c) <=> OnWire(i, c)
       /\ \A i, c : At(1, i, c)' <=> OnWire(i, c)'
       /\ \A w, i, c : At(w, i, c) \/ At(w, i, c)' => w \in {1, 2, 3}
  BY DEF At
<1>14. \A w, i, c, st : At(w, i, c)' /\ Says(c, st) => Brings(w, i, st)'
  BY DEF Brings, Says, Ins, Stat, Trd
<1>15. \A w, i, c, st : At(w, i, c) /\ Says(c, st) => Brings(w, i, st)
  BY DEF Brings
<1>16. ASSUME NEW w, NEW i, NEW st, Brings(w, i, st)
       PROVE  /\ w \in {1, 2, 3} /\ (w = 1 => i \in Nat /\ i >= 1)
              /\ w = 1 /\ i = 1 => \E j : Brings(0, j, st)'
              /\ w = 1 /\ i > 1 => Brings(1, i - 1, st)'
              /\ w \in {2, 3} => Brings(w, i, st)'
  <2>1. PICK c : At(w, i, c) /\ Says(c, st)
    BY <1>10, <1>16 DEF Brings
  <2>2. w \in {1, 2, 3} /\ (w = 1 => i \in Nat /\ i >= 1)
    BY <1>4, <1>13, <2>1 DEF OnWire
  <2>3. w = 1 /\ i = 1 => \E j : Brings(0, j, st)'
    BY <1>9, <1>11, <1>13, <2>1
  <2>4. w = 1 /\ i > 1 => Brings(1, i - 1, st)'
    BY <1>4, <1>13, <1>14, <2>1
  <2>5. w \in {2, 3} => Brings(w, i, st)'
    BY <1>12, <1>14, <2>1
  <2> QED BY <2>2, <2>3, <2>4, <2>5
<1>17. \A st : Comes(st) => Comes(st)'
  <2> SUFFICES ASSUME NEW st, NEW w, NEW i, Brings(w, i, st) PROVE Comes(st)'
    BY DEF Comes
  <2>1. w = 1 => i = 1 \/ i > 1
    BY <1>16
  <2> QED BY <1>16, <2>1 DEF Comes
<1>18. ASSUME NEW w, NEW i, NEW st, Brings(w, i, st)'
       PROVE  \E v, j :
                /\ Brings(v, j, st)
                /\ \A x, k, t : Brings(x, k, t) /\ Before(x, k, v, j) => ComesBefore(t, w, i)'
  <2>1. CASE w = 0 /\ Says(b, st)
    <3>1. Brings(1, 1, st)
      BY <1>3, <1>13, <1>15, <2>1
    <3>2. \A x, k, t : Brings(x, k, t) => ~Before(x, k, 1, 1)
      <4> SUFFICES ASSUME NEW x, NEW k, NEW t, Brings(x, k, t), Before(x, k, 1, 1) PROVE FALSE
        OBVIOUS
      <4>1. x \in {1, 2, 3} /\ (x = 1 => k \in Nat /\ k >= 1)
        BY <1>16
      <4> QED BY <4>1 DEF Before
    <3> QED BY <3>1, <3>2
  <2>2. CASE w # 0 \/ ~Says(b, st)
    <3>1. PICK c : At(w, i, c)' /\ Says(c, st)
      <4>1. \/ w = 0 /\ i \in DOMAIN todo' /\ st = todo'[i]
            \/ \E c : At(w, i, c)' /\ Says(c, st)
        BY <1>18 DEF Brings, Says, Ins, Stat, Trd
      <4> QED BY <1>8, <2>2, <4>1
    <3>2. CASE w = 1
      <4>1. Brings(1, i + 1, st) /\ i \in Nat
        BY <1>4, <1>13, <1>15, <3>1, <3>2 DEF OnWire
      <4>2. ASSUME NEW x, NEW k, NEW t, Brings(x, k, t), Before(x, k, 1, i + 1)
            PROVE  ComesBefore(t, w, i)'
        <5>1. x = 1 /\ k \in Nat /\ k >= 1 /\ k < i + 1
          BY <1>16, <4>1, <4>2 DEF Before
        <5>2. CASE k = 1
          <6>1. PICK j : Brings(0, j, t)'
            BY <1>16, <4>2, <5>1, <5>2
          <6> QED BY <3>2, <6>1 DEF ComesBefore, Before
        <5>3. CASE k > 1
          <6>1. Brings(1, k - 1, t)' /\ k - 1 < i
            BY <1>16, <4>1, <4>2, <5>1, <5>3
          <6> QED BY <3>2, <6>1 DEF ComesBefore, Before
        <5> QED BY <5>1, <5>2, <5>3
      <4> QED BY <4>1, <4>2
    <3>3. CASE w \in {2, 3}
      <4>1. Brings(w, i, st)
        BY <1>12, <1>15, <3>1, <3>3
      <4>2. ASSUME NEW x, NEW k, NEW t, Brings(x, k, t), Before(x, k, w, i)
            PROVE  ComesBefore(t, w, i)'
        <5>1. CASE x = 1 /\ k = 1
          <6>1. PICK j : Brings(0, j, t)'
            BY <1>16, <4>2, <5>1
          <6>2. Before(0, j, w, i)
            BY <3>3 DEF Before
          <6> QED BY <6>1, <6>2 DEF ComesBefore
        <5>2. CASE x = 1 /\ k > 1
          <6>1. Brings(1, k - 1, t)'
            BY <1>16, <4>2, <5>2
          <6>2. Before(1, k - 1, w, i)
            BY <3>3 DEF Before
          <6> QED BY <6>1, <6>2 DEF ComesBefore
        <5>3. CASE x \in {2, 3}
          BY <1>16, <4>2, <5>3 DEF ComesBefore
        <5>4. x \in {1, 2, 3} /\ (x = 1 => k = 1 \/ k > 1)
          BY <1>16, <4>2
        <5> QED BY <5>1, <5>2, <5>3, <5>4
      <4> QED BY <4>1, <4>2
    <3> QED BY <1>13, <3>1, <3>2, <3>3
  <2> QED BY <2>1, <2>2
<1>19. Streams
  BY <1>17, <1>18 DEF Streams
<1> QED BY <1>4, <1>7, <1>19

\* What a statement does to order_state.
LEMMA StatementOrders ==
  ASSUME NEW h \in Statement, Ser!Execute(h), NEW key, key = <<h.sid, h.oid>>
  PROVE  /\ \A k \in DOMAIN orders : k \in DOMAIN orders'
         /\ \A k \in DOMAIN orders :
              orders'[k] = orders[k] \/ (h.op = "status" /\ k = key /\ orders'[k] = h.arg)
         /\ \A k \in DOMAIN orders' :
              k \in DOMAIN orders \/ (h.op = "insert" /\ k = key /\ orders'[k] = h.arg)
         /\ h.op = "insert" => key \in DOMAIN orders'
         /\ h.op = "status" /\ key \in DOMAIN orders => orders'[key] = h.arg
<1>1. h.op \in {"insert", "status", "trade"}
  BY DEF Statement
<1>2. CASE h.op = "insert"
  <2>1. orders' = IF key \in DOMAIN orders THEN orders ELSE Ser!Put(orders, key, h.arg)
    BY <1>2 DEF Ser!Execute
  <2> QED BY <1>2, <2>1 DEF Ser!Put
<1>3. CASE h.op = "status"
  <2>1. orders' = IF key \in DOMAIN orders THEN Ser!Put(orders, key, h.arg) ELSE orders
    BY <1>3 DEF Ser!Execute
  <2> QED BY <1>3, <2>1 DEF Ser!Put
<1>4. CASE h.op = "trade"
  BY <1>4 DEF Ser!Execute
<1> QED BY <1>1, <1>2, <1>3, <1>4

\* An order has one fate.
LEMMA OneFate ==
  ASSUME NEW o, NEW x, NEW y, Fated(o, x), Fated(o, y)
  PROVE  x = y
BY DEF Fated

\* The first statement is executed.
LEMMA RunData ==
  ASSUME SerTypes, DataInv, Ser!RunStatement,
         UNCHANGED <<main, fix, fromVenue, venueState, executed, sent, store>>
  PROVE  DataInv'
<1>1. PICK h \in Statement : h = Head(todo) /\ h = todo[1]
  BY DEF SerTypes, Ser!RunStatement
<1>2. PICK m \in Nat : m = Len(todo)
  BY DEF SerTypes
<1>3. /\ m >= 1 /\ DOMAIN todo = 1 .. m /\ DOMAIN todo' = 1 .. m - 1
      /\ \A i \in 1 .. m - 1 : todo'[i] = todo[i + 1]
      /\ UNCHANGED wire
  <2>1. todo' = Tail(todo) /\ todo # <<>> /\ todo \in Seq(Statement) /\ UNCHANGED wire
    BY DEF SerTypes, Ser!RunStatement
  <2> QED BY <1>2, <2>1
<1>4. \A w, i, b : At(w, i, b)' <=> At(w, i, b)
  BY <1>3 DEF At, OnWire, InHand, InQueue
<1>5. \A w, i, b : At(w, i, b) => w \in {1, 2, 3}
  BY DEF At
<1>6. Ser!Execute(h)
  BY <1>1 DEF Ser!RunStatement
<1>7. PICK key : key = <<h.sid, h.oid>>
  OBVIOUS
<1>8. /\ \A k \in DOMAIN orders : k \in DOMAIN orders'
      /\ \A k \in DOMAIN orders :
           orders'[k] = orders[k] \/ (h.op = "status" /\ k = key /\ orders'[k] = h.arg)
      /\ \A k \in DOMAIN orders' :
           k \in DOMAIN orders \/ (h.op = "insert" /\ k = key /\ orders'[k] = h.arg)
      /\ h.op = "insert" => key \in DOMAIN orders'
      /\ h.op = "status" /\ key \in DOMAIN orders => orders'[key] = h.arg
  BY <1>6, <1>7, StatementOrders
<1>9. /\ \A o, x : Fated(o, x)' <=> Fated(o, x)
      /\ \A o : Accepted(o)' <=> Accepted(o)
      /\ \A e, o : Executes(e, o)' <=> Executes(e, o)
  <2>1. UNCHANGED main
    OBVIOUS
  <2> QED BY <2>1 DEF Fated, Accepted, NewSent, Gone, SentOids, StoreOids, Executes
<1>10. /\ \A o : RowOf(o)' = RowOf(o) /\ Ins(o)' = Ins(o)
       /\ \A o, x : Stat(o, x)' = Stat(o, x)
       /\ \A e, o : Trd(o, e)' = Trd(o, e)
  BY DEF RowOf, OwnerOf, Ins, Stat, Trd
<1>11. \A o : HasRow(o) => HasRow(o)'
  BY <1>8, <1>10 DEF HasRow
<1>12. Brings(0, 1, h)
  BY <1>1, <1>3 DEF Brings
<1>13. \A i, st : Brings(0, i, st) => i \in 1 .. m /\ st = todo[i]
  BY <1>3, <1>5 DEF Brings
<1>14. \A i, st : Brings(0, i, st)' <=> i \in 1 .. m - 1 /\ st = todo[i + 1]
  BY <1>3, <1>4, <1>5 DEF Brings
<1>15. \A w, i, st : w # 0 => (Brings(w, i, st)' <=> Brings(w, i, st))
  BY <1>4 DEF Brings, Says, Ins, Stat, Trd
<1>16. ASSUME NEW w, NEW i, NEW st, Brings(w, i, st)
       PROVE  \/ w = 0 /\ i = 1 /\ st = h
              \/ w = 0 /\ i > 1 /\ i \in Nat /\ Brings(0, i - 1, st)'
              \/ w # 0 /\ Brings(w, i, st)'
  <2>1. CASE w = 0
    <3>1. i \in 1 .. m /\ st = todo[i]
      BY <1>13, <1>16, <2>1
    <3>2. i > 1 => i - 1 \in 1 .. m - 1 /\ (i - 1) + 1 = i
      BY <3>1
    <3> QED BY <1>1, <1>14, <2>1, <3>1, <3>2
  <2> QED BY <1>15, <1>16, <2>1
<1>17. \A st : Comes(st) => st = h \/ Comes(st)'
  BY <1>16 DEF Comes
<1>18. ASSUME NEW o, h = Ins(o) PROVE HasRow(o)'
  BY <1>7, <1>8, <1>10, <1>18, StatementFields DEF HasRow, Ins, RowOf
<1>19. ASSUME NEW o \in OrderId, NEW x, h = Stat(o, x)
       PROVE  HasStatus(o, x)'
  <2>1. h.op = "status" /\ h.oid = o /\ h.arg = x /\ key = RowOf(o) /\ o # NO_OID
    BY <1>7, <1>19, StatementFields, GatewayAssumption DEF Stat, RowOf
  <2>2. Right(0, 1, h)
    BY <1>12 DEF DataInv, RightInv
  <2>3. ~ComesBefore(Ins(o), 0, 1)
    <3> SUFFICES ASSUME NEW v, NEW j, Brings(v, j, Ins(o)), Before(v, j, 0, 1) PROVE FALSE
      BY DEF ComesBefore
    <3>1. v = 0 => j \in 1 .. m
      BY <1>13
    <3>2. v = 0 \/ v \in {1, 2, 3}
      BY <1>5 DEF Brings
    <3> QED BY <3>1, <3>2 DEF Before
  <2>4. HasRow(o)
    BY <2>1, <2>2, <2>3 DEF Right
  <2> QED BY <1>8, <1>10, <2>1, <2>4 DEF HasRow, HasStatus
<1>20. ASSUME NEW o \in OrderId, HasRow(o)
       PROVE  \/ orders'[RowOf(o)] = orders[RowOf(o)]
              \/ Fated(o, orders'[RowOf(o)])
  <2>1. CASE h.op = "status" /\ RowOf(o) = key /\ orders'[RowOf(o)] = h.arg
    <3>1. h.oid = o /\ o # NO_OID
      BY <1>7, <2>1, GatewayAssumption DEF RowOf
    <3>2. Right(0, 1, h)
      BY <1>12 DEF DataInv, RightInv
    <3> QED BY <2>1, <3>1, <3>2 DEF Right
  <2> QED BY <1>8, <1>20, <2>1 DEF HasRow
<1>21. InsertInv'
  BY <1>9, <1>10, <1>11, <1>17, <1>18 DEF DataInv, InsertInv
<1>22. StatusInv'
  <2> SUFFICES ASSUME NEW o \in OrderId, NEW x, Fated(o, x)'
               PROVE  (HasStatus(o, x) \/ Comes(Stat(o, x)))'
    BY DEF StatusInv
  <2>1. Fated(o, x)
    BY <1>9
  <2>2. CASE HasStatus(o, x)
    <3>1. HasRow(o) /\ orders[RowOf(o)] = x
      BY <2>2 DEF HasStatus, HasRow
    <3>2. orders'[RowOf(o)] = x
      BY <1>20, <2>1, <3>1, OneFate
    <3> QED BY <1>10, <1>11, <3>1, <3>2 DEF HasStatus, HasRow
  <2>3. CASE Comes(Stat(o, x))
    BY <1>17, <1>19, <2>3 DEF Stat, OwnerOf
  <2> QED BY <2>1, <2>2, <2>3 DEF DataInv, StatusInv
<1>23. BookInv'
  <2> SUFFICES ASSUME NEW e, NEW o, Executes(e, o)'
               PROVE  (Booked(e, o) \/ Comes(Trd(o, e)))'
    BY DEF BookInv
  <2>1. Executes(e, o)
    BY <1>9
  <2>2. trades \in Seq(Trade) /\ Len(trades) \in Nat
    BY DEF SerTypes
  <2>3. \/ trades' = trades
        \/ /\ h.op = "trade"
           /\ trades' = Append(trades, [sid |-> h.sid, oid |-> h.oid, exec |-> h.arg])
    BY <1>6 DEF Ser!Execute, Statement
  <2>4. CASE Booked(e, o)
    <3>1. PICK i \in DOMAIN trades : trades[i] = [sid |-> OwnerOf(o), oid |-> o, exec |-> e]
      BY <2>4 DEF Booked
    <3>2. i \in DOMAIN trades' /\ trades'[i] = trades[i]
      BY <2>2, <2>3
    <3> QED BY <3>1, <3>2 DEF Booked, OwnerOf
  <2>5. CASE h = Trd(o, e)
    <3>1. h.op = "trade" /\ h.sid = OwnerOf(o) /\ h.oid = o /\ h.arg = e
      BY <2>5, StatementFields DEF Trd
    <3>2. trades' = Append(trades, [sid |-> OwnerOf(o), oid |-> o, exec |-> e])
      BY <1>6, <3>1 DEF Ser!Execute
    <3>3. /\ Len(trades) + 1 \in DOMAIN trades'
          /\ trades'[Len(trades) + 1] = [sid |-> OwnerOf(o), oid |-> o, exec |-> e]
      BY <2>2, <3>2
    <3> QED BY <3>3 DEF Booked, OwnerOf
  <2>6. CASE Comes(Trd(o, e)) /\ h # Trd(o, e)
    BY <1>17, <2>6 DEF Trd, OwnerOf
  <2> QED BY <2>1, <2>4, <2>5, <2>6 DEF DataInv, BookInv
<1>24. RowInv'
  <2> SUFFICES ASSUME NEW o \in OrderId, HasRow(o)'
               PROVE  HasStatus(o, "NEW")' \/ \E x : Fated(o, x)' /\ HasStatus(o, x)'
    BY DEF RowInv
  <2>1. CASE HasRow(o)
    <3>1. CASE orders'[RowOf(o)] = orders[RowOf(o)]
      <4>1. \A x : HasStatus(o, x) => HasStatus(o, x)'
        BY <1>10, <1>11, <2>1, <3>1 DEF HasStatus, HasRow
      <4> QED BY <1>9, <2>1, <4>1 DEF DataInv, RowInv
    <3>2. CASE Fated(o, orders'[RowOf(o)])
      BY <1>9, <1>10, <1>11, <2>1, <3>2 DEF HasStatus, HasRow
    <3> QED BY <1>20, <2>1, <3>1, <3>2
  <2>2. CASE ~HasRow(o)
    <3>1. h.op = "insert" /\ orders'[RowOf(o)] = h.arg
      BY <1>8, <1>10, <2>2 DEF HasRow
    <3>2. Right(0, 1, h)
      BY <1>12 DEF DataInv, RightInv
    <3> QED BY <1>10, <3>1, <3>2 DEF HasStatus, HasRow, Right
  <2> QED BY <2>1, <2>2
<1>25. RightInv'
  <2> SUFFICES ASSUME NEW w, NEW i, NEW st, Brings(w, i, st)' PROVE Right(w, i, st)'
    BY DEF RightInv
  <2>1. PICK j : Brings(w, j, st) /\ (w # 0 => j = i) /\ (w = 0 => i \in Nat /\ j = i + 1)
    <3>1. CASE w = 0
      <4>1. i \in 1 .. m - 1 /\ st = todo[i + 1] /\ i + 1 \in 1 .. m
        BY <1>14, <3>1
      <4> QED BY <1>3, <3>1, <4>1 DEF Brings
    <3> QED BY <1>15, <3>1
  <2>2. Right(w, j, st)
    BY <2>1 DEF DataInv, RightInv
  <2>3. ASSUME NEW o, ComesBefore(Ins(o), w, j) PROVE HasRow(o)' \/ ComesBefore(Ins(o), w, i)'
    <3>1. PICK x, k : Before(x, k, w, j) /\ Brings(x, k, Ins(o))
      BY <2>3 DEF ComesBefore
    <3>2. CASE x = 0 /\ k > 1 /\ k \in Nat /\ Brings(0, k - 1, Ins(o))'
      <4>1. Before(0, k - 1, w, i)
        BY <2>1, <3>1, <3>2 DEF Before
      <4> QED BY <3>2, <4>1 DEF ComesBefore, Before
    <3>3. CASE x # 0 /\ Brings(x, k, Ins(o))'
      <4>1. Before(x, k, w, i)
        <5>1. w = 0 => FALSE
          <6>1. x \in {1, 2, 3}
            BY <1>5, <3>1, <3>3 DEF Brings
          <6> QED BY <3>1, <6>1 DEF Before
        <5> QED BY <2>1, <3>1, <5>1
      <4> QED BY <3>3, <4>1 DEF ComesBefore
    <3> QED BY <1>16, <1>18, <3>1, <3>2, <3>3
  <2> QED BY <1>9, <1>10, <1>11, <2>2, <2>3 DEF Right
<1> QED BY <1>21, <1>22, <1>23, <1>24, <1>25 DEF DataInv

-----------------------------------------------------------------------------
(* The venue *)

\* Report r, once serialized, makes the serializer execute statement st.
Tells(r, st) == r.kind = "EXEC_RPT" /\ Says(r, st)

\* The venue does not change its mind, and reports what it decides: its
\* report says what is new, and marks no order but as it ended.
Honest(r) ==
  /\ \A o, x : Fated(o, x) => Fated(o, x)'
  /\ \A o \in OrderId : Accepted(o)' => Accepted(o) \/ Tells(r, Ins(o))
  /\ \A o \in OrderId : \A x : Fated(o, x)' => Fated(o, x) \/ Tells(r, Stat(o, x))
  /\ \A e, o : Executes(e, o)' => Executes(e, o) \/ Tells(r, Trd(o, e))
  /\ \A st : Tells(r, st) =>
       /\ st.op = "insert" => st.arg = "NEW"
       /\ st.op = "status" /\ st.oid # NO_OID =>
            \E o \in OrderId : \E x : st = Stat(o, x) /\ Accepted(o) /\ Fated(o, x)'

LEMMA ReportTells ==
  ASSUME NEW o \in OrderId, NEW s \in Status, NEW p \in Oids, NEW e \in Execs,
         NEW r, r = ExecReport(o, Body(s, p, e))
  PROVE  /\ r \in Report /\ r.oid = o
         /\ \A st : Tells(r, st) <=>
              \/ s = "REPLACE" /\ st = Ins(o)
              \/ s = "REPLACE" /\ st = Ser!SetStatus(OwnerOf(o), p, "CANCELLED")
              \/ s \in {"CANCELLED", "REJECTED"} /\ st = Ser!SetStatus(OwnerOf(o), p, s)
              \/ s = "FILL" /\ st = Stat(o, "FILL")
              \/ s \in Fills /\ st = Trd(o, e)
<1>1. r \in Report /\ r.oid = o /\ r.body.status = s /\ r.body.orig = p /\ r.body.exec = e
  BY VenueBodies DEF ExecReport, Body
<1>2. r.kind = "EXEC_RPT" /\ "kind" \in DOMAIN r
  BY Shape DEF ExecReport
<1> QED BY <1>1, <1>2 DEF Tells, Says

\* What became of an order changes.
LEMMA VenuePut ==
  ASSUME NEW o, NEW x, venueState' = Put(venueState, o, x)
  PROVE  /\ \A p, y : Fated(p, y)' <=>
              \/ p # o /\ Fated(p, y)
              \/ p = o /\ x = "filled" /\ y = "FILL"
              \/ p = o /\ x \in {"cancelled", "replaced"} /\ y = "CANCELLED"
         /\ DOMAIN venueState' = DOMAIN venueState \cup {o}
BY DEF Put, Fated

\* A cancel or replace request is of the strategy that owns the order.
LEMMA SameOwner ==
  ASSUME RInv, OwnOrders, NEW q \in Request, q.orig \in DOMAIN venueState
  PROVE  q.orig \in OrderId /\ q.orig # NO_OID /\ OwnerOf(q.orig) = OwnerOf(q.oid)
<1>1. PICK i \in 1 .. taken : sent[i].req.oid = q.orig
  BY DEF RInv, TakenInv
<1>2. i \in DOMAIN sent /\ sent \in Seq(SentMsg)
  BY <1>1 DEF RInv, TakenInv, UInv, GInv, SessionInv
<1>3. PICK m \in SentMsg : m = sent[i]
  BY <1>2
<1>4. PICK r \in Request : r = m.req /\ r.oid = q.orig
  BY <1>1, <1>3 DEF SentMsg
<1>5. r.oid \in OrderId
  BY GatewayAssumption DEF ReqShape
<1>6. OwnerOf(r.oid) = r.sid /\ OwnerOf(q.oid) = q.sid /\ q.sid = r.sid
  BY <1>4, OwnerIs DEF OwnOrders
<1> QED BY <1>4, <1>5, <1>6, GatewayAssumption

LEMMA VenueHonest ==
  ASSUME RInv, OwnOrders, VenueNext
  PROVE  \E r \in Report : VenueReport(r) /\ Honest(r)
<1>0. /\ UNCHANGED <<sent, store>>
      /\ \A o : NewSent(o)' <=> NewSent(o)
  <2>1. UNCHANGED <<sent, store>>
    BY DEF VenueNext, AcceptNew, RejectNew, DoCancel, DoReplace, TooLate, ExecuteOrder, Withdraw,
           VenueReport, session
  <2> QED BY <2>1 DEF NewSent, Gone, SentOids, StoreOids
<1>1. /\ NO_OID \in Oids /\ NO_OID \in Execs /\ OrderId \subseteq Oids /\ Exec \subseteq Execs
      /\ {"NEW", "REJECTED", "CANCELLED", "REPLACE", "EXPIRED", "FILL", "PARTIAL_FILL"} \subseteq Status
  BY DEF Oids, Execs, Status
<1>2. ASSUME NEW type, NextRequest(type)
      PROVE  \E q \in Request : /\ q = TakenReq /\ q.type = type /\ q.oid \in OrderId
                                /\ q.orig \in Oids /\ q.oid \notin DOMAIN venueState
                                /\ q.oid \in Gone
  <2>1. TakenReq \in Request /\ TakenReq.type = type /\ TakenReq.oid \notin DOMAIN venueState
    BY <1>0, <1>2, FreshRequest
  <2>2. TakenReq.oid \in OrderId /\ TakenReq.orig \in Oids
    BY <2>1, GatewayAssumption DEF ReqShape, Oids
  <2>3. PICK n : n = taken + 1
    OBVIOUS
  <2>4. n \in DOMAIN sent
    BY <1>2, <2>3 DEF NextRequest, RInv, TakenInv, UInv, GInv, SessionInv
  <2>5. TakenReq.oid \in Gone
    BY <2>3, <2>4 DEF TakenReq, Gone, SentOids
  <2> QED BY <2>1, <2>2, <2>5
<1>3. \A o, x : Stat(o, x).oid = o /\ Stat(o, x).op = "status" /\ Ins(o).op = "insert" /\ Ins(o).arg = "NEW"
  BY StatementFields DEF Stat, Ins
<1>4. \A e, o : Trd(o, e).op = "trade"
  BY StatementFields DEF Trd
<1>5. CASE AcceptNew \/ RejectNew
  <2>1. PICK q \in Request : /\ q = TakenReq /\ q.type = "ORDER_NEW" /\ q.oid \in OrderId
                             /\ q.oid \notin DOMAIN venueState /\ q.oid \in Gone
    BY <1>2, <1>5 DEF AcceptNew, RejectNew
  <2>2. PICK s \in {"NEW", "REJECTED"}, x \in {"live", "rejected"} :
          /\ venueState' = Put(venueState, q.oid, x) /\ executed' = executed
          /\ VenueReport(ExecReport(q.oid, Body(s, NO_OID, NO_OID)))
    BY <1>5, <2>1 DEF AcceptNew, RejectNew
  <2>3. PICK r : r = ExecReport(q.oid, Body(s, NO_OID, NO_OID))
    OBVIOUS
  <2>4. r \in Report /\ VenueReport(r)
    BY <1>1, <2>1, <2>2, <2>3, ReportTells
  <2>5. \A st : Tells(r, st) => st.oid = NO_OID /\ st.op = "status"
    <3>1. \A st : Tells(r, st) => st = Ser!SetStatus(OwnerOf(q.oid), NO_OID, s)
      <4>1. s \notin Fills /\ s # "REPLACE"
        BY DEF Fills
      <4> QED BY <1>1, <2>1, <2>3, <4>1, ReportTells
    <3> QED BY <3>1, StatementFields
  <2>6. \A p, y : Fated(p, y)' <=> Fated(p, y)
    <3>1. PICK o : o = q.oid
      OBVIOUS
    <3>2. \A y : ~Fated(o, y)
      BY <2>1, <3>1 DEF Fated
    <3>3. venueState' = Put(venueState, o, x)
      BY <2>2, <3>1
    <3>4. \A p, y : Fated(p, y)' <=>
            \/ p # o /\ Fated(p, y)
            \/ p = o /\ x = "filled" /\ y = "FILL"
            \/ p = o /\ x \in {"cancelled", "replaced"} /\ y = "CANCELLED"
      BY ONLY <3>3, VenuePut, Zenon
    <3>5. x # "filled" /\ x \notin {"cancelled", "replaced"}
      BY <2>2
    <3> QED BY <3>2, <3>4, <3>5
  <2>7. \A o : Accepted(o)' => Accepted(o)
    <3>1. NewSent(q.oid)
      BY <2>1 DEF NewSent
    <3> QED BY <1>0, <2>2, <3>1, VenuePut DEF Accepted
  <2>8. \A e, o : Executes(e, o)' <=> Executes(e, o)
    BY <2>2 DEF Executes
  <2> QED BY <2>4, <2>5, <2>6, <2>7, <2>8 DEF Honest
<1>6. CASE DoCancel
  <2>1. PICK q \in Request : /\ q = TakenReq /\ q.oid \in OrderId /\ q.orig \in Oids
    BY <1>2, <1>6 DEF DoCancel
  <2>2. /\ IsLive(q.orig) /\ venueState' = Put(venueState, q.orig, "cancelled")
        /\ executed' = executed
        /\ VenueReport(ExecReport(q.oid, Body("CANCELLED", q.orig, NO_OID)))
    BY <1>6, <2>1 DEF DoCancel
  <2>3. PICK r : r = ExecReport(q.oid, Body("CANCELLED", q.orig, NO_OID))
    OBVIOUS
  <2>4. PICK p : p = q.orig
    OBVIOUS
  <2>5. p \in OrderId /\ p # NO_OID /\ OwnerOf(p) = OwnerOf(q.oid) /\ p \in DOMAIN venueState
    BY <2>2, <2>4, SameOwner DEF IsLive
  <2>6. r \in Report /\ VenueReport(r)
    BY <1>1, <2>1, <2>2, <2>3, ReportTells
  <2>7. \A st : Tells(r, st) <=> st = Stat(p, "CANCELLED")
    <3>1. \A st : Tells(r, st) <=> st = Ser!SetStatus(OwnerOf(q.oid), q.orig, "CANCELLED")
      <4>1. "CANCELLED" \notin Fills
        BY DEF Fills
      <4> QED BY <1>1, <2>1, <2>3, <4>1, ReportTells
    <3> QED BY <2>4, <2>5, <3>1 DEF Stat
  <2>8. \A o, y : Fated(o, y)' <=> Fated(o, y) \/ (o = p /\ y = "CANCELLED")
    <3>1. \A y : ~Fated(p, y)
      BY <2>2, <2>4 DEF Fated, IsLive
    <3>2. /\ DOMAIN venueState' = DOMAIN venueState /\ venueState'[p] = "cancelled"
          /\ \A o \in DOMAIN venueState : o # p => venueState'[o] = venueState[o]
      BY <2>2, <2>4, <2>5 DEF Put
    <3> QED BY <2>5, <3>1, <3>2 DEF Fated
  <2>9. \A o : Accepted(o)' <=> Accepted(o)
    BY <1>0, <2>2, <2>4, <2>5, VenuePut DEF Accepted
  <2>10. Accepted(p)
    BY <2>5 DEF Accepted
  <2>11. \A e, o : Executes(e, o)' <=> Executes(e, o)
    BY <2>2 DEF Executes
  <2> QED BY <1>3, <2>5, <2>6, <2>7, <2>8, <2>9, <2>10, <2>11 DEF Honest
<1>7. CASE DoReplace
  <2>1. PICK q \in Request : /\ q = TakenReq /\ q.oid \in OrderId /\ q.orig \in Oids
                             /\ q.oid \notin DOMAIN venueState
    BY <1>2, <1>7 DEF DoReplace
  <2>2. PICK n, p : n = q.oid /\ p = q.orig
    OBVIOUS
  <2>3. /\ IsLive(p) /\ venueState' = Put(Put(venueState, p, "replaced"), n, "live")
        /\ executed' = executed
        /\ VenueReport(ExecReport(n, Body("REPLACE", p, NO_OID)))
    BY <1>7, <2>1, <2>2 DEF DoReplace
  <2>4. PICK r : r = ExecReport(n, Body("REPLACE", p, NO_OID))
    OBVIOUS
  <2>5. /\ p \in OrderId /\ p # NO_OID /\ OwnerOf(p) = OwnerOf(n) /\ p \in DOMAIN venueState
        /\ n \notin DOMAIN venueState /\ n # p
    BY <2>1, <2>2, <2>3, SameOwner DEF IsLive
  <2>6. r \in Report /\ VenueReport(r)
    BY <1>1, <2>1, <2>2, <2>3, <2>4, ReportTells
  <2>7. \A st : Tells(r, st) <=> st = Ins(n) \/ st = Stat(p, "CANCELLED")
    <3>1. \A st : Tells(r, st) <=>
            st = Ins(n) \/ st = Ser!SetStatus(OwnerOf(n), p, "CANCELLED")
      <4>1. "REPLACE" \notin Fills
        BY DEF Fills
      <4> QED BY <1>1, <2>1, <2>2, <2>4, <4>1, ReportTells
    <3> QED BY <2>5, <3>1 DEF Stat
  <2>8. /\ DOMAIN venueState' = DOMAIN venueState \cup {n}
        /\ venueState'[p] = "replaced" /\ venueState'[n] = "live"
        /\ \A o \in DOMAIN venueState : o # p => venueState'[o] = venueState[o]
    BY <2>3, <2>5 DEF Put
  <2>9. \A o, y : Fated(o, y)' <=> Fated(o, y) \/ (o = p /\ y = "CANCELLED")
    <3>1. \A y : ~Fated(p, y)
      BY <2>3 DEF Fated, IsLive
    <3> QED BY <2>5, <2>8, <3>1 DEF Fated
  <2>10. \A o : Accepted(o)' => Accepted(o) \/ o = n
    BY <1>0, <2>8 DEF Accepted
  <2>11. Accepted(p)
    BY <2>5 DEF Accepted
  <2>12. \A e, o : Executes(e, o)' <=> Executes(e, o)
    BY <2>3 DEF Executes
  <2> QED BY <1>3, <2>5, <2>6, <2>7, <2>9, <2>10, <2>11, <2>12 DEF Honest
<1>8. CASE TooLate
  <2>1. UNCHANGED <<venueState, executed>>
    BY <1>8 DEF TooLate
  <2>2. PICK type : NextRequest(type)
    BY <1>8 DEF TooLate
  <2>3. PICK o \in OrderId, p \in Oids : o = TakenReq.oid /\ p = TakenReq.orig
    BY <1>2, <2>2
  <2>4. PICK r : r = CancelReject(o, p)
    OBVIOUS
  <2>5. VenueReport(r) /\ r \in Report
    BY <1>1, <1>8, <2>3, <2>4, VenueBodies DEF TooLate
  <2>6. \A st : ~Tells(r, st)
    BY <2>4 DEF Tells, CancelReject
  <2> QED BY <1>0, <2>1, <2>5, <2>6 DEF Honest, Fated, Accepted, Executes
<1>9. ASSUME NEW o \in OrderId, NEW e \in Exec, NEW s \in {"PARTIAL_FILL", "FILL"},
             ExecuteOrder(o, e, s)
      PROVE  \E r \in Report : VenueReport(r) /\ Honest(r)
  <2>1. /\ IsLive(o) /\ e \notin DOMAIN executed /\ executed' = Put(executed, e, o)
        /\ venueState' = IF s = "FILL" THEN Put(venueState, o, "filled") ELSE venueState
        /\ VenueReport(ExecReport(o, Body(s, NO_OID, e)))
    BY <1>9 DEF ExecuteOrder
  <2>2. PICK r : r = ExecReport(o, Body(s, NO_OID, e))
    OBVIOUS
  <2>3. r \in Report /\ VenueReport(r)
    BY <1>1, <2>1, <2>2, ReportTells
  <2>4. \A st : Tells(r, st) <=> (s = "FILL" /\ st = Stat(o, "FILL")) \/ st = Trd(o, e)
    <3>1. s \in Fills /\ s \notin {"REPLACE", "CANCELLED", "REJECTED"} /\ s \in Status
      BY DEF Fills, Status
    <3> QED BY <1>1, <2>2, <3>1, ReportTells
  <2>5. \A p, y : Fated(p, y)' <=> Fated(p, y) \/ (s = "FILL" /\ p = o /\ y = "FILL")
    <3>1. \A y : ~Fated(o, y)
      BY <2>1 DEF Fated, IsLive
    <3>2. CASE s = "FILL"
      <4>1. venueState' = Put(venueState, o, "filled")
        BY <2>1, <3>2
      <4>2. \A p, y : Fated(p, y)' <=>
              \/ p # o /\ Fated(p, y)
              \/ p = o /\ "filled" = "filled" /\ y = "FILL"
              \/ p = o /\ "filled" \in {"cancelled", "replaced"} /\ y = "CANCELLED"
        BY ONLY <4>1, VenuePut, Zenon
      <4> QED BY <3>1, <3>2, <4>2
    <3>3. CASE s # "FILL"
      BY <2>1, <3>3 DEF Fated
    <3> QED BY <3>2, <3>3
  <2>6. DOMAIN venueState' = DOMAIN venueState
    BY <2>1 DEF Put, IsLive
  <2>7. (\A p : Accepted(p)' <=> Accepted(p)) /\ Accepted(o) /\ o # NO_OID
    BY <1>0, <2>1, <2>6, GatewayAssumption DEF Accepted, IsLive
  <2>8. \A f, p : Executes(f, p)' <=> Executes(f, p) \/ (f = e /\ p = o)
    BY <2>1 DEF Executes, Put
  <2> QED BY <1>3, <1>4, <2>3, <2>4, <2>5, <2>7, <2>8 DEF Honest
<1>10. ASSUME NEW o \in OrderId, Withdraw(o)
       PROVE  \E r \in Report : VenueReport(r) /\ Honest(r)
  <2>1. PICK s \in {"CANCELLED", "EXPIRED"}, p \in Oids, x \in {"withdrawn", "expired"} :
          /\ IsLive(o) /\ executed' = executed /\ venueState' = Put(venueState, o, x)
          /\ s = "CANCELLED" => p = NO_OID
          /\ VenueReport(ExecReport(o, Body(s, p, NO_OID)))
    BY <1>1, <1>10 DEF Withdraw
  <2>2. PICK r : r = ExecReport(o, Body(s, p, NO_OID))
    OBVIOUS
  <2>3. r \in Report /\ VenueReport(r)
    BY <1>1, <2>1, <2>2, ReportTells
  <2>4. \A st : Tells(r, st) => st.oid = NO_OID /\ st.op = "status"
    <3>1. \A st : Tells(r, st) => st = Ser!SetStatus(OwnerOf(o), NO_OID, "CANCELLED")
      <4>1. s \notin Fills /\ s \notin {"REPLACE", "REJECTED"}
        BY DEF Fills
      <4> QED BY <1>1, <2>1, <2>2, <4>1, ReportTells
    <3> QED BY <3>1, StatementFields
  <2>5. \A q, y : Fated(q, y)' <=> Fated(q, y)
    <3>1. \A y : ~Fated(o, y)
      BY <2>1 DEF Fated, IsLive
    <3>2. \A q, y : Fated(q, y)' <=>
            \/ q # o /\ Fated(q, y)
            \/ q = o /\ x = "filled" /\ y = "FILL"
            \/ q = o /\ x \in {"cancelled", "replaced"} /\ y = "CANCELLED"
      BY ONLY <2>1, VenuePut, Zenon
    <3>3. x # "filled" /\ x \notin {"cancelled", "replaced"}
      BY <2>1
    <3> QED BY <3>1, <3>2, <3>3
  <2>6. \A q : Accepted(q)' <=> Accepted(q)
    BY <1>0, <2>1, VenuePut DEF Accepted, IsLive
  <2>7. \A e, q : Executes(e, q)' <=> Executes(e, q)
    BY <2>1 DEF Executes
  <2> QED BY <2>3, <2>4, <2>5, <2>6, <2>7 DEF Honest
<1> QED BY <1>5, <1>6, <1>7, <1>8, <1>9, <1>10 DEF VenueNext

\* A report joins the end of the queue.
LEMMA ReportPlaces ==
  ASSUME GInv, NEW r \in Report, VenueReport(r)
  PROVE  \E n \in Nat :
           /\ \A w, i, b : At(w, i, b)' <=>
                At(w, i, b) \/ (w = 3 /\ i = n /\ b = r /\ r.kind = "EXEC_RPT")
           /\ \A i, b : At(3, i, b) => i \in Nat /\ i < n
<1>1. /\ fromVenue' = Append(fromVenue, r) /\ fromVenue \in Seq(Report)
      /\ UNCHANGED <<fix, main, pending, wire>>
  BY DEF VenueReport, GInv, FixInv, serial
<1>2. PICK n \in Nat : n = Len(fromVenue) + 1
  BY <1>1
<1>3. /\ DOMAIN fromVenue = 1 .. n - 1 /\ DOMAIN fromVenue' = 1 .. n
      /\ fromVenue'[n] = r /\ n \in 1 .. n
      /\ \A i \in 1 .. n - 1 : fromVenue'[i] = fromVenue[i]
  BY <1>1, <1>2
<1>4. n = 1 => fix.at = "idle"
  <2>1. n = 1 => fromVenue = <<>>
    BY <1>1, <1>2
  <2> QED BY <2>1 DEF GInv, FixInv
<1>5. \A i, b : InQueue(i, b)' <=>
        InQueue(i, b) \/ (i = n /\ b = r /\ r.kind = "EXEC_RPT")
  <2> SUFFICES ASSUME NEW i, NEW b
               PROVE  InQueue(i, b)' <=>
                        InQueue(i, b) \/ (i = n /\ b = r /\ r.kind = "EXEC_RPT")
    OBVIOUS
  <2>1. CASE i \in 1 .. n - 1
    <3>1. i # n /\ i \in 1 .. n
      BY <2>1
    <3> QED BY <1>1, <1>3, <2>1, <3>1 DEF InQueue
  <2>2. CASE i = n
    <3>1. i \notin 1 .. n - 1
      BY <2>2
    <3> QED BY <1>1, <1>3, <1>4, <2>2, <3>1 DEF InQueue
  <2>3. CASE i \notin 1 .. n
    <3>1. i \notin 1 .. n - 1 /\ i # n
      <4>1. 1 .. n - 1 \subseteq 1 .. n
        OBVIOUS
      <4> QED BY <1>3, <2>3, <4>1
    <3> QED BY <1>3, <2>3, <3>1 DEF InQueue
  <2> QED BY <1>3, <2>1, <2>2, <2>3
<1>6. \A i, b : At(3, i, b) => i \in Nat /\ i < n
  BY <1>3 DEF At, InQueue
<1>7. \A w, i, b : At(w, i, b)' <=>
        At(w, i, b) \/ (w = 3 /\ i = n /\ b = r /\ r.kind = "EXEC_RPT")
  BY <1>1, <1>5 DEF At, OnWire, InHand
<1> QED BY <1>6, <1>7

LEMMA VenueData ==
  ASSUME GInv, DataInv, NEW r \in Report, VenueReport(r), Honest(r), UNCHANGED serVars
  PROVE  DataInv'
<1>1. PICK n \in Nat :
        /\ \A w, i, b : At(w, i, b)' <=>
             At(w, i, b) \/ (w = 3 /\ i = n /\ b = r /\ r.kind = "EXEC_RPT")
        /\ \A i, b : At(3, i, b) => i \in Nat /\ i < n
  BY ReportPlaces
<1>2. UNCHANGED <<todo, orders, trades>>
  BY DEF serVars
<1>3. \A w, i, st : Brings(w, i, st)' <=>
        Brings(w, i, st) \/ (w = 3 /\ i = n /\ Tells(r, st))
  <2>1. \A b, st : Says(b, st)' <=> Says(b, st)
    BY DEF Says, Ins, Stat, Trd, OwnerOf
  <2> QED BY <1>1, <1>2, <2>1 DEF Brings, Tells
<1>4. /\ \A st : Comes(st) => Comes(st)'
      /\ \A st : Tells(r, st) => Comes(st)'
      /\ \A st, w, i : ComesBefore(st, w, i) => ComesBefore(st, w, i)'
  BY <1>3 DEF Comes, ComesBefore, Before
<1>5. /\ \A o, x : HasStatus(o, x)' <=> HasStatus(o, x)
      /\ \A o : HasRow(o)' <=> HasRow(o)
      /\ \A e, o : Booked(e, o)' <=> Booked(e, o)
  BY <1>2 DEF HasStatus, HasRow, Booked, RowOf, OwnerOf
<1>6. InsertInv'
  <2>1. ASSUME NEW o \in OrderId, Accepted(o)' PROVE HasRow(o) \/ (\E st : st = Ins(o) /\ Comes(st)')
    BY <1>4, <2>1 DEF Honest, DataInv, InsertInv
  <2> QED BY <1>5, <2>1 DEF InsertInv, Ins, OwnerOf
<1>7. StatusInv'
  <2>1. ASSUME NEW o \in OrderId, NEW x, Fated(o, x)'
        PROVE  HasStatus(o, x) \/ (\E st : st = Stat(o, x) /\ Comes(st)')
    BY <1>4, <2>1 DEF Honest, DataInv, StatusInv
  <2> QED BY <1>5, <2>1 DEF StatusInv, Stat, OwnerOf
<1>8. BookInv'
  <2>1. ASSUME NEW e, NEW o, Executes(e, o)'
        PROVE  Booked(e, o) \/ (\E st : st = Trd(o, e) /\ Comes(st)')
    BY <1>4, <2>1 DEF Honest, DataInv, BookInv
  <2> QED BY <1>5, <2>1 DEF BookInv, Trd, OwnerOf
<1>9. RowInv'
  <2>1. \A o, x : Fated(o, x) => Fated(o, x)'
    BY DEF Honest
  <2> QED BY <1>5, <2>1 DEF DataInv, RowInv
<1>10. \A w, i, st : Brings(w, i, st) => Before(w, i, 3, n)
  <2> SUFFICES ASSUME NEW w, NEW i, NEW st, Brings(w, i, st) PROVE Before(w, i, 3, n)
    OBVIOUS
  <2>1. w = 0 \/ \E b : At(w, i, b)
    BY DEF Brings
  <2>2. w \in {0, 1, 2, 3}
    BY <2>1 DEF At
  <2> QED BY <1>1, <2>1, <2>2 DEF Before
<1>11. RightInv'
  <2> SUFFICES ASSUME NEW w, NEW i, NEW st, Brings(w, i, st)' PROVE Right(w, i, st)'
    BY DEF RightInv
  <2>1. CASE Brings(w, i, st)
    <3>1. Right(w, i, st)
      BY <2>1 DEF DataInv, RightInv
    <3>2. \A o, x : Fated(o, x) => Fated(o, x)'
      BY DEF Honest
    <3>3. \A o : ComesBefore(Ins(o), w, i) => ComesBefore(Ins(o), w, i)'
      BY <1>4 DEF Ins, OwnerOf
    <3> QED BY <1>5, <3>1, <3>2, <3>3 DEF Right, Stat, OwnerOf
  <2>2. CASE w = 3 /\ i = n /\ Tells(r, st)
    <3>1. CASE st.op = "status" /\ st.oid # NO_OID
      <4>1. PICK o \in OrderId : \E x : st = Stat(o, x) /\ Accepted(o) /\ Fated(o, x)'
        BY <2>2, <3>1 DEF Honest
      <4>2. PICK x : st = Stat(o, x) /\ Accepted(o) /\ Fated(o, x)'
        BY <4>1
      <4>3. st.oid = o /\ st.arg = x
        BY <4>2, StatementFields DEF Stat
      <4>4. HasRow(o)' \/ ComesBefore(Ins(o), w, i)'
        <5>1. HasRow(o) \/ Comes(Ins(o))
          BY <4>2 DEF DataInv, InsertInv
        <5>2. CASE Comes(Ins(o))
          <6>1. PICK t : t = Ins(o)
            OBVIOUS
          <6>2. PICK v, j : Brings(v, j, t)
            BY <5>2, <6>1 DEF Comes
          <6>3. Brings(v, j, t)' /\ Before(v, j, w, i)
            BY <1>3, <1>10, <2>2, <6>2
          <6>4. ComesBefore(t, w, i)'
            BY <6>3 DEF ComesBefore, Before
          <6> QED BY <6>1, <6>4 DEF Ins, OwnerOf
        <5> QED BY <1>5, <5>1, <5>2
      <4> QED BY <3>1, <4>2, <4>3, <4>4 DEF Right, Stat, OwnerOf
    <3>2. CASE ~(st.op = "status" /\ st.oid # NO_OID)
      BY <2>2, <3>2 DEF Honest, Right
    <3> QED BY <3>1, <3>2
  <2> QED BY <1>3, <2>1, <2>2
<1> QED BY <1>6, <1>7, <1>8, <1>9, <1>11 DEF DataInv

-----------------------------------------------------------------------------
(* All of it *)

\* What holds until something fails, and always.
FaultlessInv == TInv /\ TurnInv /\ WireInv /\ RunInv /\ DataInv

DInv == OInv /\ RInv /\ aborts \in Nat /\ (Faultless => FaultlessInv)

\* The invariant gives the property.
LEMMA DProperty == DInv => (Faultless => DatabaseFollowsVenue)
<1> SUFFICES ASSUME DInv, Faultless, Quiet
             PROVE  /\ \A oid \in DOMAIN venueState :
                         venueState[oid] \in DOMAIN Recorded => HasStatus(oid, Recorded[venueState[oid]])
                    /\ \A exec \in DOMAIN executed :
                         Cardinality({i \in DOMAIN trades :
                           trades[i] = [sid |-> OwnerOf(executed[exec]), oid |-> executed[exec],
                                        exec |-> exec]}) = 1
  BY DEF DatabaseFollowsVenue
<1>1. FaultlessInv
  BY DEF DInv
<1>2. \A w, i, st : ~Brings(w, i, st)
  <2>1. \A w, i, b : ~At(w, i, b)
    BY DEF Quiet, At, OnWire, InHand, InQueue, SerAts
  <2>2. DOMAIN todo = {}
    BY DEF Quiet
  <2> QED BY <2>1, <2>2 DEF Brings
<1>3. \A st : ~Comes(st)
  BY <1>2 DEF Comes
<1>4. ASSUME NEW o \in DOMAIN venueState, venueState[o] \in DOMAIN Recorded
      PROVE  HasStatus(o, Recorded[venueState[o]])
  <2>1. o \in OrderId
    <3>1. PICK i \in 1 .. taken : sent[i].req.oid = o
      BY DEF DInv, RInv, TakenInv
    <3>2. i \in DOMAIN sent /\ sent \in Seq(SentMsg)
      BY <3>1 DEF DInv, RInv, TakenInv, UInv, GInv, SessionInv
    <3>3. PICK m \in SentMsg : m = sent[i]
      BY <3>2
    <3> QED BY <3>1, <3>3, GatewayAssumption DEF SentMsg, ReqShape
  <2>2. venueState[o] \in {"live", "filled", "cancelled", "replaced"}
    BY <1>4 DEF Recorded
  <2>3. CASE venueState[o] = "live"
    <3>1. HasRow(o)
      BY <1>1, <1>3, <2>1 DEF FaultlessInv, DataInv, InsertInv, Accepted
    <3>2. \A x : ~Fated(o, x)
      BY <2>3 DEF Fated
    <3>3. HasStatus(o, "NEW")
      BY <1>1, <2>1, <3>1, <3>2 DEF FaultlessInv, DataInv, RowInv
    <3> QED BY <2>3, <3>3 DEF Recorded
  <2>4. CASE venueState[o] # "live"
    <3>1. Fated(o, Recorded[venueState[o]])
      BY <2>2, <2>4 DEF Fated, Recorded
    <3> QED BY <1>1, <1>3, <2>1, <3>1 DEF FaultlessInv, DataInv, StatusInv
  <2> QED BY <2>3, <2>4
<1>5. ASSUME NEW e \in DOMAIN executed, NEW S,
             S = {i \in DOMAIN trades :
                    trades[i] = [sid |-> OwnerOf(executed[e]), oid |-> executed[e], exec |-> e]}
      PROVE  Cardinality(S) = 1
  <2>1. NoFalseTrades
    BY <1>1, TProperty DEF FaultlessInv
  <2>2. Booked(e, executed[e])
    BY <1>1, <1>3 DEF FaultlessInv, DataInv, BookInv, Executes
  <2>3. PICK i \in S : TRUE
    BY <1>5, <2>2 DEF Booked
  <2>4. \A j \in S : j = i
    BY <1>5, <2>1, <2>3 DEF NoFalseTrades
  <2>5. S = {i}
    BY <2>3, <2>4
  <2> QED BY <2>5, FS_Singleton
<1> QED BY <1>4, <1>5

LEMMA DInit == FlowInit => DInv
<1> SUFFICES ASSUME FlowInit PROVE DInv
  OBVIOUS
<1>1. /\ fromVenue = <<>> /\ pending = <<>> /\ wire = <<>> /\ todo = <<>> /\ trades = <<>>
      /\ strategyId = NO_SID /\ taken = 0 /\ fix = FixIdle /\ main = MainIdle /\ sqlErrors = 0
      /\ sent = <<>> /\ store = <<>> /\ aborts = 0
      /\ orders = EmptyFcn /\ venueState = EmptyFcn /\ executed = EmptyFcn
  BY DEF FlowInit, Init, Ser!SerInit, Ser!EmptyFcn, EmptyFcn
<1>2. OInv
  BY OInit DEF FlowInit
<1>3. RInv
  BY RInvInit
<1>4. TInv
  BY TInvInit
<1>5. TurnInv /\ RunInv /\ WireInv
  <2>1. TurnInv
    BY <1>1 DEF TurnInv, MainIdle, MainAt, FixIdle, SerAts, Written
  <2>2. RunInv
    BY <1>1 DEF RunInv, Gone, SentOids, StoreOids
  <2>3. WireInv
    <3>1. Len(wire) = 3 * 0 /\ 1 .. 0 = {}
      BY <1>1
    <3> QED BY <3>1 DEF WireInv
  <2> QED BY <2>1, <2>2, <2>3
<1>6. DOMAIN venueState = {} /\ DOMAIN orders = {} /\ DOMAIN executed = {}
  BY <1>1 DEF EmptyFcn
<1>7. \A o : ~Accepted(o)
  BY <1>1, <1>6 DEF Accepted, NewSent, Gone, SentOids, StoreOids
<1>8. \A w, i, st : ~Brings(w, i, st)
  BY <1>1 DEF Brings, At, OnWire, InHand, InQueue, SerAts, MainIdle, MainAt, FixIdle
<1>9. DataInv
  BY <1>6, <1>7, <1>8
  DEF DataInv, InsertInv, StatusInv, BookInv, RightInv, RowInv, Fated, Executes, HasRow
<1> QED BY <1>1, <1>2, <1>3, <1>4, <1>5, <1>9 DEF DInv, FaultlessInv

LEMMA DataFrame ==
  ASSUME DataInv,
         UNCHANGED <<main, fix, fromVenue, wire, todo, orders, trades, venueState, executed, sent, store>>
  PROVE  DataInv'
<1>1. Moves
  BY DEF Moves, At, OnWire, InHand, InQueue
<1>2. \A o : Accepted(o)' => Accepted(o)
  BY DEF Accepted, NewSent, Gone, SentOids, StoreOids
<1> QED BY <1>1, <1>2, MovesStream, StreamData

\* A step of the gateway ends it once at most.
LEMMA Crashes ==
  ASSUME GatewayNext
  PROVE  crashes' = crashes \/ crashes' = crashes + 1
<1> USE DEF life
<1>1. CASE Process \/ Strategies \/ Logon \/ Logout
  BY <1>1
  DEF Process, Start, MakeMsgProcessor, FinishInit, Kill, Die, Strategies, Connect, SendAdmin,
      SendRequest, Logon, Logout
<1>2. CASE MainStep
  BY <1>2
  DEF MainStep, Poll, HandleBad, HandleHelo, FinishHelo, HandleHeartbeat, HandleOrder, CacheOrder,
      Dispatch, MainSerialize, RcvInternal, Die
<1>3. CASE FixStep
  BY <1>3
  DEF FixStep, FixDrop, FixUnsetSocket, FixLookup, FixLookupRace, FixReply, FixSerialize, FixDone,
      Die
<1> QED BY <1>1, <1>2, <1>3 DEF GatewayNext

\* The venue.
LEMMA VenueFollowed ==
  ASSUME OwnOrders, DInv, VenueNext, NoOverlap
  PROVE  DInv'
<1> USE DEF life, caches, serial, session, venue, clients
<1>1. PICK r \in Report : VenueReport(r) /\ Honest(r)
  BY VenueHonest DEF DInv
<1>2. OInv'
  BY <1>1, OStep DEF DInv, Next
<1>3. RInv'
  BY VenueRecorded DEF DInv
<1>4. UNCHANGED serVars /\ aborts' \in Nat /\ (Faultless' <=> Faultless)
  BY <1>1 DEF DInv, VenueNext, serVars, VenueReport, Faultless
<1>5. ASSUME Faultless PROVE FaultlessInv'
  <2>1. FaultlessInv
    BY <1>5 DEF DInv
  <2>2. TInv'
    BY <2>1, VenueTrades DEF FaultlessInv
  <2>3. UNCHANGED <<main, fix, pending, wire, phase, sent, store, sentNow>>
    BY <1>1 DEF VenueReport
  <2>4. TurnInv'
    BY <2>1, <2>3 DEF FaultlessInv, TurnInv
  <2>5. WireInv'
    BY <2>1, <2>3 DEF FaultlessInv, WireInv, Whole
  <2>6. RunInv'
    <3>1. sent # <<>>
      BY <1>1 DEF VenueReport
    <3> QED BY <2>1, <2>3, <3>1 DEF FaultlessInv, RunInv, Gone, SentOids, StoreOids
  <2>7. DataInv'
    BY <1>1, <1>4, <2>1, VenueData DEF FaultlessInv, TInv
  <2> QED BY <2>2, <2>4, <2>5, <2>6, <2>7 DEF FaultlessInv
<1> QED BY <1>2, <1>3, <1>4, <1>5 DEF DInv

\* The gateway.
LEMMA GatewayFollowed ==
  ASSUME DInv, GatewayNext, NoOverlap
  PROVE  DInv'
<1>1. OInv' /\ GInv
  BY OStep DEF DInv, GatewayNext, Next, OInv, LInv, UInv
<1>2. RInv'
  BY GatewayRecorded DEF DInv
<1>3. UNCHANGED <<serVars, venueVars, orders, trades, todo, venueState, executed, sqlErrors, aborts>>
  BY DEF GatewayNext, serVars, venueVars
<1>4. crashes' = crashes \/ crashes' = crashes + 1
  BY Crashes
<1>5. crashes \in Nat
  BY <1>1 DEF GInv, LifeInv
<1>6. ASSUME Faultless' PROVE FaultlessInv'
  <2>1. Faultless /\ UNCHANGED crashes
    BY <1>3, <1>4, <1>5, <1>6 DEF Faultless
  <2>2. FaultlessInv
    BY <2>1 DEF DInv
  <2>3. TInv'
    BY <2>1, <2>2, GatewayTrades DEF FaultlessInv
  <2>4. SteadyInv
    BY <2>2 DEF SteadyInv, FaultlessInv, TInv, DInv
  <2>5. TurnInv' /\ WireInv' /\ Moves
    BY <2>1, <2>4, GatewayTurn
  <2>6. RunInv' /\ \A o : NewSent(o)' => NewSent(o) \/ \E q \in Request : q.oid = o /\ At(2, 0, q)'
    BY <1>1, <2>1, <2>4, SentNews DEF OInv
  <2>7. Streams
    BY <1>3, <2>5, MovesStream
  <2>8. \A o \in OrderId : Accepted(o)' => Accepted(o) \/ Comes(Ins(o))'
    <3> SUFFICES ASSUME NEW o \in OrderId, Accepted(o)', ~Accepted(o) PROVE Comes(Ins(o))'
      OBVIOUS
    <3>1. PICK q \in Request : q.oid = o /\ At(2, 0, q)'
      BY <1>3, <2>6 DEF Accepted
    <3>2. Says(q, Ins(o))
      BY <3>1, Shape DEF Says
    <3>3. PICK st : st = Ins(o)
      OBVIOUS
    <3>4. Says(q, st)'
      BY <3>2, <3>3 DEF Says, Ins, Stat, Trd, OwnerOf
    <3>5. Brings(2, 0, st)'
      BY <3>1, <3>4 DEF Brings
    <3>6. Comes(st)'
      BY <3>5 DEF Comes
    <3> QED BY <3>3, <3>6 DEF Ins, OwnerOf
  <2>9. DataInv'
    BY <1>3, <2>2, <2>7, <2>8, StreamData DEF FaultlessInv
  <2> QED BY <2>3, <2>5, <2>6, <2>9 DEF FaultlessInv
<1> QED BY <1>1, <1>2, <1>3, <1>6 DEF DInv

\* The serializer.
LEMMA SerializerFollowed ==
  ASSUME DInv, SerializerNext
  PROVE  DInv'
<1>1. /\ Ser!SerNext
      /\ UNCHANGED <<life, caches, main, fix, clientQ, internalQ, pending, session, venue, clients,
                     delivered, venueVars>>
  BY DEF SerializerNext
<1>2. UNCHANGED <<phase, crashes, main, fix, internalQ, pending, fromVenue, sent, store, sentNow,
                  ocache, venueState, executed>>
  BY <1>1 DEF life, caches, session, venue, venueVars
<1>3. RInv'
  BY SerializerRecorded DEF DInv
<1>4. OInv'
  <2>1. LInv'
    BY <1>2, <1>3, CachedFrame DEF DInv, OInv, LInv, RInv
  <2> QED BY <1>2, <2>1, OFrames DEF DInv, OInv
<1>5. /\ crashes \in Nat /\ aborts \in Nat /\ sqlErrors \in Nat
      /\ aborts' = aborts \/ aborts' = aborts + 1
      /\ sqlErrors' = sqlErrors \/ sqlErrors' = sqlErrors + 1
  <2>1. /\ aborts' = aborts \/ aborts' = aborts + 1
        /\ sqlErrors' = sqlErrors \/ sqlErrors' = sqlErrors + 1
    BY <1>1 DEF Ser!SerNext, Ser!ReadMessage, Ser!RunStatement, Ser!StatementThrows, Ser!SerKilled,
                Ser!SerStart, Ser!Abort
  <2> QED BY <2>1 DEF DInv, RInv, OInv, LInv, UInv, GInv, LifeInv
<1>6. ASSUME Faultless' PROVE FaultlessInv'
  <2>1. Faultless /\ UNCHANGED <<aborts, sqlErrors>>
    BY <1>2, <1>5, <1>6 DEF Faultless
  <2>2. FaultlessInv
    BY <2>1 DEF DInv
  <2>3. TInv'
    BY <2>2, SerializerTrades DEF FaultlessInv
  <2>4. SteadyInv
    BY <2>2 DEF SteadyInv, FaultlessInv, TInv, DInv
  <2>5. TurnInv'
    BY <1>2, <2>2 DEF FaultlessInv, TurnInv
  <2>6. RunInv'
    BY <1>2, <2>2 DEF FaultlessInv, RunInv, Gone, SentOids, StoreOids
  <2>7. CASE Ser!ReadMessage
    <3>1. /\ WireInv' /\ Streams
          /\ UNCHANGED <<orders, trades>>
      BY <1>2, <2>4, <2>7, ReadStreams
    <3>2. \A o : Accepted(o)' => Accepted(o)
      BY <1>2 DEF Accepted, NewSent, Gone, SentOids, StoreOids
    <3>3. DataInv'
      BY <1>2, <2>2, <3>1, <3>2, StreamData DEF FaultlessInv
    <3> QED BY <2>3, <2>5, <2>6, <3>1, <3>3 DEF FaultlessInv
  <2>8. CASE Ser!RunStatement
    <3>1. WireInv'
      BY <2>2, <2>8 DEF FaultlessInv, WireInv, Whole, Ser!RunStatement
    <3>2. DataInv'
      BY <1>2, <2>2, <2>8, RunData DEF FaultlessInv, TInv
    <3> QED BY <2>3, <2>5, <2>6, <3>1, <3>2 DEF FaultlessInv
  <2>9. CASE Ser!SerStart
    <3>1. UNCHANGED <<wire, todo, orders, trades>>
      BY <2>9 DEF Ser!SerStart, Ser!db
    <3>2. WireInv'
      BY <2>2, <3>1 DEF FaultlessInv, WireInv, Whole
    <3>3. DataInv'
      BY <1>2, <2>2, <3>1, DataFrame DEF FaultlessInv
    <3> QED BY <2>3, <2>5, <2>6, <3>2, <3>3 DEF FaultlessInv
  <2>10. ~Ser!StatementThrows /\ ~Ser!SerKilled
    BY <1>5, <2>1 DEF Ser!StatementThrows, Ser!SerKilled, Ser!Abort
  <2> QED BY <1>1, <2>7, <2>8, <2>9, <2>10 DEF Ser!SerNext
<1> QED BY <1>3, <1>4, <1>5, <1>6 DEF DInv

\* For every number of strategies, orders, replacements and executions, with
\* or without a file store and assertions, and through logouts and logons of
\* the session: while the threads of the gateway do not overlap, and as long
\* as no process has ended and no statement has thrown, once everything that
\* was said has arrived order_state shows what became of every order the
\* venue holds, has executed, or has cancelled or replaced on request, and
\* trades has exactly one row for each execution.
THEOREM DatabaseFollows ==
  ASSUME OwnOrders
  PROVE  FlowSpecNoOverlap => [](Faultless => DatabaseFollowsVenue)
<1>1. DInv /\ [FlowNext /\ NoOverlap]_flowVars => DInv'
  <2> SUFFICES ASSUME DInv, [FlowNext /\ NoOverlap]_flowVars PROVE DInv'
    OBVIOUS
  <2>1. CASE VenueNext /\ NoOverlap
    BY <2>1, VenueFollowed
  <2>2. CASE GatewayNext /\ NoOverlap
    BY <2>2, GatewayFollowed
  <2>3. CASE SerializerNext
    BY <2>3, SerializerFollowed
  <2>4. CASE UNCHANGED flowVars
    <3>1. UNCHANGED <<vars, serVars, venueVars>>
      BY <2>4 DEF flowVars
    <3>2. OInv'
      BY <3>1, OStep DEF DInv
    <3>3. RInv'
      BY <2>4, RInvStutters DEF DInv
    <3>4. UNCHANGED <<phase, crashes, main, fix, pending, wire, fromVenue, sent, store, sentNow,
                      strategyId, todo, orders, trades, sqlErrors, aborts, taken, venueState, executed>>
      BY <3>1 DEF vars, life, serial, venue, session, serVars, venueVars
    <3>5. ASSUME Faultless' PROVE FaultlessInv'
      <4>1. FaultlessInv
        BY <3>4, <3>5 DEF DInv, Faultless
      <4>2. TInv'
        BY <2>4, <4>1, TInvStutters DEF FaultlessInv
      <4>3. TurnInv' /\ WireInv' /\ RunInv'
        BY <3>4, <4>1 DEF FaultlessInv, TurnInv, WireInv, Whole, RunInv, Gone, SentOids, StoreOids
      <4>4. DataInv'
        BY <3>4, <4>1, DataFrame DEF FaultlessInv
      <4> QED BY <4>2, <4>3, <4>4 DEF FaultlessInv
    <3> QED BY <3>2, <3>3, <3>4, <3>5 DEF DInv
  <2> QED BY <2>1, <2>2, <2>3, <2>4 DEF FlowNext
<1> QED BY <1>1, DInit, DProperty, PTL DEF FlowSpecNoOverlap
=============================================================================
