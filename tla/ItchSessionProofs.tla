------------------------- MODULE ItchSessionProofs -------------------------
(***************************************************************************)
(* Proofs about the ITCH session, for every pool of dispatchers, every set *)
(* of packets and every number of messages and restarts: each message that *)
(* was received is in exactly one place.                                   *)
(*                                                                         *)
(* Three things carry it. A message is new when it is received: what is    *)
(* under way has later numbers (IdInv). A thread holds a message just in   *)
(* the states in which it says so, and no thread of an earlier             *)
(* session is left when one starts (ControlInv). And the places are        *)
(* disjoint, each without repetition (PlaceInv): without that a message    *)
(* could move from one place to another where it already is.               *)
(***************************************************************************)
EXTENDS ItchSession, FiniteSetTheorems, SequenceTheorems, TLAPS

Wire == [id : Nat \ {0}, packet : Packets]

\* What ReceiveMessage makes of a packet.
Received(w) == [id |-> w.id, packet |-> w.packet, msg |-> Parsed[w.packet]]
Messages == {Received(w) : w \in Wire}

IsHeartbeat(m) == m.msg.type = "H" /\ m.msg.loaded
Queued     == {queue[i] : i \in DOMAIN queue}
Held       == {d \in Dispatchers : taken[d] # Nothing}
Taken      == {taken[d] : d \in Held}
Done       == {h.message : h \in handled}
Due        == {m \in received : ~IsHeartbeat(m)} \ {inHand}

TypeInv ==
  /\ main \in {"start", "login", "subscribe", "wait", "stop", "joinClient",
               "joinServer", "joinPool", "exited"}
  /\ server \in {"off", "head", "recv", "packet", "block", "got", "push", "done"}
  /\ client \in {"off", "run", "done"}
  /\ disp \in [Dispatchers -> {"off", "ready", "wait", "handle", "done"}]
  /\ inHand \in Messages \cup {Nothing}
  /\ taken \in [Dispatchers -> Messages \cup {Nothing}]
  /\ queue \in Seq(Messages)
  /\ net \in Seq(Wire)
  /\ sent \in Nat
  /\ received \in SUBSET Messages /\ IsFiniteSet(received)
  /\ \A h \in handled : h.message \in Messages
                          /\ h = [message |-> h.message, handler |-> Handler(h.message.msg)]
  /\ IsFiniteSet(handled)

ControlInv ==
  /\ inHand # Nothing <=> server \in {"got", "push"}
  /\ \A d \in Dispatchers : taken[d] # Nothing <=> disp[d] = "handle"
  /\ main = "start" => \A d \in Dispatchers : disp[d] = "off"
  /\ main \in {"start", "joinPool"} => server = "off"
  /\ main \in {"start", "joinPool", "joinServer"} => client = "off"
  /\ main \in {"login", "subscribe", "wait", "stop"} /\ client = "off" => server = "off"
  /\ server = "push" => ~IsHeartbeat(inHand)
  /\ inHand # Nothing => inHand \in received

IdInv ==
  /\ \A m \in received : m.id <= sent
  /\ \A i \in DOMAIN net : net[i].id <= sent
  /\ \A m \in received, i \in DOMAIN net : m.id < net[i].id
  /\ \A i, j \in DOMAIN net : i < j => net[i].id < net[j].id

PlaceInv ==
  /\ \A i, j \in DOMAIN queue : queue[i] = queue[j] => i = j
  /\ \A d, e \in Held : taken[d] = taken[e] => d = e
  /\ Queued \cap Taken = {} /\ Queued \cap Done = {} /\ Taken \cap Done = {}

CountInv ==
  /\ Due = Queued \cup Taken \cup Done
  /\ Cardinality(Due) = Len(queue) + Cardinality(Held) + Cardinality(handled)

SInv == TypeInv /\ ControlInv /\ IdInv /\ PlaceInv /\ CountInv

-----------------------------------------------------------------------------
(* The messages.                                                           *)

LEMMA NothingIsNoMessage == Nothing \notin Messages
BY DEF Nothing, Messages, Received, Wire

LEMMA ReceivedIsMessage ==
  ASSUME NEW w \in Wire
  PROVE  /\ Received(w) \in Messages
         /\ Received(w).id = w.id /\ w.id \in Nat \ {0}
BY DEF Messages, Received, Wire

LEMMA MessageFields ==
  ASSUME NEW m \in Messages
  PROVE  /\ m.id \in Nat \ {0} /\ m.packet \in Packets
         /\ m.msg = ParseMessage(m.packet)
<1>1. PICK w \in Wire : m = Received(w)
  BY DEF Messages
<1> QED BY <1>1 DEF Received, Wire, Parsed

\* The end of the session is a sequenced data message.
LEMMA EndOfSessionIsNoHeartbeat ==
  ASSUME NEW m \in Messages, m.msg.eos
  PROVE  ~IsHeartbeat(m)
<1> DEFINE p == m.packet
<1>1. m.msg = ParseMessage(p)
  BY MessageFields
<1>2. CASE p.type = "S"
  <2>1. CASE LoadSequenced(p).loaded
    <3>1. m.msg = [LoadSequenced(p) EXCEPT !.type = "S"]
      BY <1>1, <1>2, <2>1 DEF ParseMessage
    <3>2. "type" \in DOMAIN LoadSequenced(p)
      BY DEF LoadSequenced, NoMessage
    <3> QED BY <3>1, <3>2 DEF IsHeartbeat
  <2>2. CASE ~LoadSequenced(p).loaded
    BY <1>1, <1>2, <2>2 DEF ParseMessage, NoMessage
  <2> QED BY <2>1, <2>2
<1>3. CASE p.type # "S"
  BY <1>1, <1>3 DEF ParseMessage, NoMessage
<1> QED BY <1>2, <1>3

-----------------------------------------------------------------------------
LEMMA SInit == Init => SInv
<1> SUFFICES ASSUME Init PROVE SInv
  OBVIOUS
<1> USE DEF Init
<1>1. IsFiniteSet({}) /\ Cardinality({}) = 0
  BY FS_EmptySet
<1>2. TypeInv
  BY <1>1 DEF TypeInv
<1>3. ControlInv /\ IdInv
  BY DEF ControlInv, IdInv, IsHeartbeat
<1>4. Queued = {} /\ Held = {} /\ Taken = {} /\ Done = {} /\ Due = {}
  BY DEF Queued, Held, Taken, Done, Due
<1>5. PlaceInv
  BY <1>4 DEF PlaceInv
<1>6. CountInv
  BY <1>1, <1>4 DEF CountInv
<1> QED BY <1>2, <1>3, <1>5, <1>6 DEF SInv

-----------------------------------------------------------------------------
LEMMA TypeStep == TypeInv /\ ControlInv /\ [Next]_vars => TypeInv'
<1> SUFFICES ASSUME TypeInv, ControlInv, [Next]_vars
             PROVE  TypeInv'
  OBVIOUS
<1> USE DEF TypeInv, mainVars, serverVars, poolVars, venueVars
<1>1. CASE \E p \in Packets : VenueSends(p)
  <2>1. PICK p \in Packets : VenueSends(p)
    BY <1>1
  <2>2. [id |-> sent + 1, packet |-> p] \in Wire
    BY DEF Wire
  <2>3. net' \in Seq(Wire)
    BY <2>1, <2>2 DEF VenueSends
  <2> QED BY <2>1, <2>3 DEF VenueSends
<1>2. CASE VenueHangsUp \/ HeartbeatFails \/ ClientLeaves
  BY <1>2 DEF VenueHangsUp, HeartbeatFails, ClientLeaves
<1>3. CASE Start
  <2>1. net' \in Seq(Wire)
    <3>1. net' = net \/ net' = <<>>
      BY <1>3 DEF Start
    <3>2. <<>> \in Seq(Wire)
      OBVIOUS
    <3> QED BY <3>1, <3>2
  <2>2. /\ disp' \in {disp, [d \in Dispatchers |-> "ready"]}
        /\ server' \in {server, "head"} /\ client' \in {client, "run"} /\ main' = "login"
        /\ UNCHANGED <<inHand, received, taken, queue, handled, sent>>
    BY <1>3 DEF Start
  <2> QED BY <2>1, <2>2
<1>4. CASE Login \/ Subscribe \/ WaitClose \/ Stop \/ JoinClient
  <2>1. UNCHANGED <<serverVars, poolVars, venueVars>>
    BY <1>4 DEF Login, Subscribe, WaitClose, Stop, JoinClient
  <2>2. client' \in {client, "off"}
    BY <1>4 DEF Login, Subscribe, WaitClose, Stop, JoinClient
  <2>3. main' \in {main, "subscribe", "stop", "wait", "joinPool", "joinClient", "joinServer"}
    BY <1>4 DEF Login, Subscribe, WaitClose, Stop, JoinClient
  <2> QED BY <2>1, <2>2, <2>3
<1>5. CASE JoinServer
  BY <1>5 DEF JoinServer, Woken
<1>6. CASE JoinPool
  BY <1>6 DEF JoinPool
<1>7. CASE ServerHead \/ RecvMessage \/ RecvMore
  BY <1>7 DEF ServerHead, RecvMessage, RecvMore, Idle
<1>8. CASE RecvPacket \/ MissTerminator
  <2>1. Head(net) \in Wire /\ Tail(net) \in Seq(Wire)
    BY <1>8 DEF RecvPacket, MissTerminator
  <2>2. Received(Head(net)) \in Messages
    BY <2>1, ReceivedIsMessage
  <2>3. IsFiniteSet(received \cup {Received(Head(net))})
    BY FS_AddElement
  <2>4. CASE RecvPacket /\ Parsed[Head(net).packet] = NoMessage
    BY <2>1, <2>4 DEF RecvPacket, Idle
  <2>5. CASE RecvPacket /\ Parsed[Head(net).packet] # NoMessage
    BY <2>1, <2>2, <2>3, <2>5 DEF RecvPacket, Received
  <2>6. CASE MissTerminator
    BY <2>1, <2>6 DEF MissTerminator
  <2> QED BY <1>8, <2>4, <2>5, <2>6
<1>9. CASE DispatchServerMessage \/ PushEndOfSession
  <2>1. inHand \in Messages
    BY <1>9 DEF ControlInv, DispatchServerMessage, PushEndOfSession
  <2>2. Append(queue, inHand) \in Seq(Messages)
    BY <2>1
  <2>3. CASE Push
    BY <2>2, <2>3 DEF Push, Woken
  <2>4. CASE ~Push
    BY <1>9, <2>4 DEF DispatchServerMessage, PushEndOfSession
  <2> QED BY <2>3, <2>4
<1>10. CASE \E d \in Dispatchers : DispatcherWorker(d)
  <2>1. PICK d \in Dispatchers : DispatcherWorker(d)
    BY <1>10
  <2>2. CASE Take(d) /\ queue # <<>>
    <3>1. Head(queue) \in Messages /\ Tail(queue) \in Seq(Messages)
      BY <2>2
    <3> QED BY <2>2, <3>1 DEF Take
  <2>3. CASE Take(d) /\ queue = <<>>
    BY <2>3 DEF Take
  <2>4. CASE Handle(d)
    <3>1. taken[d] \in Messages
      BY <2>4 DEF Handle, ControlInv
    <3> DEFINE e == [message |-> taken[d], handler |-> Handler(taken[d].msg)]
    <3>2. handled' = handled \cup {e} /\ IsFiniteSet(handled')
      BY <2>4, FS_AddElement DEF Handle
    <3>3. main' \in {main, "exited"}
      BY <2>4 DEF Handle
    <3>4. \A h \in handled' :
            h.message \in Messages
              /\ h = [message |-> h.message, handler |-> Handler(h.message.msg)]
      BY <3>1, <3>2
    <3>5. /\ taken' = [taken EXCEPT ![d] = Nothing]
          /\ disp' = [disp EXCEPT ![d] = "ready"]
          /\ UNCHANGED <<serverVars, client, queue, venueVars>>
      BY <2>4 DEF Handle
    <3> QED BY <3>2, <3>3, <3>4, <3>5
  <2> QED BY <2>1, <2>2, <2>3, <2>4 DEF DispatcherWorker
<1>11. CASE UNCHANGED vars
  BY <1>11 DEF vars
<1> QED BY <1>1, <1>2, <1>3, <1>4, <1>5, <1>6, <1>7, <1>8, <1>9, <1>10, <1>11
        DEF Next, Main, ServerWorker
-----------------------------------------------------------------------------
LEMMA ControlStep == TypeInv /\ ControlInv /\ [Next]_vars => ControlInv'
<1> SUFFICES ASSUME TypeInv, ControlInv, [Next]_vars
             PROVE  ControlInv'
  OBVIOUS
<1> USE DEF ControlInv, mainVars, serverVars, poolVars, venueVars
<1>1. CASE (\E p \in Packets : VenueSends(p)) \/ VenueHangsUp \/ HeartbeatFails
  BY <1>1 DEF VenueSends, VenueHangsUp, HeartbeatFails, IsHeartbeat
<1>2. CASE ClientLeaves
  BY <1>2 DEF ClientLeaves, IsHeartbeat
<1>3. CASE Start
  BY <1>3 DEF Start, IsHeartbeat
<1>4. CASE Login \/ Subscribe \/ WaitClose
  <2>1. /\ UNCHANGED <<serverVars, client, poolVars>>
        /\ main \in {"login", "subscribe", "wait"}
        /\ main' \in {"subscribe", "stop", "wait"}
    BY <1>4 DEF Login, Subscribe, WaitClose
  <2> QED BY <2>1 DEF IsHeartbeat
<1>5. CASE Stop \/ JoinClient
  BY <1>5 DEF Stop, JoinClient, IsHeartbeat
<1>6. CASE JoinServer
  BY <1>6 DEF JoinServer, Woken, IsHeartbeat, TypeInv
<1>7. CASE JoinPool
  BY <1>7 DEF JoinPool, IsHeartbeat, TypeInv
<1>8. CASE ServerHead \/ RecvMessage \/ RecvMore
  BY <1>8 DEF ServerHead, RecvMessage, RecvMore, Idle, IsHeartbeat
<1>9. CASE RecvPacket \/ MissTerminator
  <2>1. Received(Head(net)) # Nothing
    <3>1. Head(net) \in Wire
      BY <1>9 DEF RecvPacket, MissTerminator, TypeInv
    <3> QED BY <3>1, ReceivedIsMessage, NothingIsNoMessage
  <2>2. CASE RecvPacket /\ Parsed[Head(net).packet] = NoMessage
    BY <2>2 DEF RecvPacket, Idle, IsHeartbeat
  <2>3. CASE RecvPacket /\ Parsed[Head(net).packet] # NoMessage
    BY <2>1, <2>3 DEF RecvPacket, Received
  <2>4. CASE MissTerminator
    BY <2>4 DEF MissTerminator, IsHeartbeat
  <2> QED BY <1>9, <2>2, <2>3, <2>4
<1>10. CASE DispatchServerMessage \/ PushEndOfSession
  <2>1. main' = main /\ client' = client /\ received' = received
    BY <1>10 DEF DispatchServerMessage, PushEndOfSession, Push
  <2>2. server \in {"got", "push"} /\ inHand \in Messages
    BY <1>10 DEF DispatchServerMessage, PushEndOfSession, TypeInv
  <2>3. CASE Push
    BY <2>1, <2>2, <2>3 DEF Push, Woken, TypeInv
  <2>4. CASE ~Push /\ inHand.msg.eos
    <3>1. ~IsHeartbeat(inHand)
      BY <2>2, <2>4, EndOfSessionIsNoHeartbeat
    <3> QED BY <1>10, <2>1, <2>2, <2>4, <3>1
            DEF DispatchServerMessage, PushEndOfSession, IsHeartbeat
  <2>5. CASE ~Push /\ ~inHand.msg.eos
    BY <1>10, <2>1, <2>2, <2>5 DEF DispatchServerMessage, PushEndOfSession
  <2> QED BY <2>3, <2>4, <2>5
<1>11. CASE \E d \in Dispatchers : DispatcherWorker(d)
  <2>1. PICK d \in Dispatchers : DispatcherWorker(d)
    BY <1>11
  <2>2. CASE Take(d) /\ queue # <<>>
    <3>1. Head(queue) # Nothing
      BY <2>2, NothingIsNoMessage DEF TypeInv
    <3> QED BY <2>2, <3>1 DEF Take, TypeInv, IsHeartbeat
  <2>3. CASE Take(d) /\ queue = <<>>
    BY <2>3 DEF Take, TypeInv, IsHeartbeat
  <2>4. CASE Handle(d)
    BY <2>4 DEF Handle, TypeInv, IsHeartbeat
  <2> QED BY <2>1, <2>2, <2>3, <2>4 DEF DispatcherWorker
<1>12. CASE UNCHANGED vars
  BY <1>12 DEF vars, IsHeartbeat
<1> QED BY <1>1, <1>2, <1>3, <1>4, <1>5, <1>6, <1>7, <1>8, <1>9, <1>10, <1>11, <1>12
        DEF Next, Main, ServerWorker

-----------------------------------------------------------------------------
\* Packets arrive in the order of their numbers, and what was received is
\* older than what is under way.
LEMMA IdStep == TypeInv /\ IdInv /\ [Next]_vars => IdInv'
<1> SUFFICES ASSUME TypeInv, IdInv, [Next]_vars
             PROVE  IdInv'
  OBVIOUS
<1> USE DEF TypeInv, IdInv, mainVars, serverVars, poolVars, venueVars
<1>1. CASE UNCHANGED <<received, net, sent>>
  BY <1>1
<1>2. CASE \E p \in Packets : VenueSends(p)
  <2>1. PICK p \in Packets : VenueSends(p)
    BY <1>2
  <2> DEFINE w == [id |-> sent + 1, packet |-> p]
  <2>2. /\ DOMAIN net = 1 .. Len(net) /\ DOMAIN net' = 1 .. Len(net) + 1
        /\ \A i \in DOMAIN net : net'[i] = net[i]
        /\ net'[Len(net) + 1] = w /\ Len(net) \in Nat
    BY <2>1 DEF VenueSends
  <2>3. \A i \in DOMAIN net' : i \in DOMAIN net \/ i = Len(net) + 1
    BY <2>2
  <2>4. sent' = sent + 1 /\ received' = received
    BY <2>1 DEF VenueSends
  <2>5. \A i \in DOMAIN net : net[i].id \in Nat
    <3>1. \A i \in DOMAIN net : net[i] \in Wire
      BY <2>2
    <3> QED BY <3>1 DEF Wire
  <2>6. \A m \in received : m.id \in Nat
    BY MessageFields
  <2>7. \A i \in DOMAIN net' : net'[i].id <= sent'
    BY <2>2, <2>3, <2>4, <2>5
  <2>8. \A m \in received', i \in DOMAIN net' : m.id < net'[i].id
    BY <2>2, <2>3, <2>4, <2>5, <2>6
  <2>9. \A i, j \in DOMAIN net' : i < j => net'[i].id < net'[j].id
    BY <2>2, <2>3, <2>5
  <2> QED BY <2>4, <2>6, <2>7, <2>8, <2>9
<1>3. CASE Start
  BY <1>3 DEF Start
<1>4. CASE RecvPacket \/ MissTerminator
  <2> DEFINE w == Head(net)
  <2> HIDE DEF w
  <2>0. net # <<>> /\ net' = Tail(net) /\ net \in Seq(Wire)
    BY <1>4 DEF RecvPacket, MissTerminator
  <2>1. /\ w = net[1] /\ w \in Wire /\ net' = Tail(net)
        /\ DOMAIN net = 1 .. Len(net) /\ Len(net) \in Nat \ {0}
        /\ DOMAIN net' = 1 .. Len(net) - 1
        /\ \A i \in DOMAIN net' : net'[i] = net[i + 1] /\ i + 1 \in DOMAIN net
    BY <2>0 DEF w
  <2>2. received' \in SUBSET (received \cup {Received(w)}) /\ sent' = sent
    BY <1>4 DEF RecvPacket, MissTerminator, Received, Idle, w
  <2>3. Received(w).id = net[1].id /\ 1 \in DOMAIN net
    BY <2>1, ReceivedIsMessage
  <2>4. \A i \in DOMAIN net' : net[1].id < net'[i].id
    <3> TAKE i \in DOMAIN net'
    <3>1. 1 < i + 1 /\ i + 1 \in DOMAIN net /\ net'[i] = net[i + 1]
      BY <2>1
    <3> QED BY <2>3, <3>1
  <2>5. \A m \in received', i \in DOMAIN net' : m.id < net'[i].id
    BY <2>1, <2>2, <2>3, <2>4
  <2>6. \A i, j \in DOMAIN net' : i < j => net'[i].id < net'[j].id
    <3> TAKE i, j \in DOMAIN net'
    <3>1. i \in Int /\ j \in Int /\ i + 1 \in DOMAIN net /\ j + 1 \in DOMAIN net
          /\ net'[i] = net[i + 1] /\ net'[j] = net[j + 1]
      BY <2>1
    <3> QED BY <3>1
  <2>7. /\ \A m \in received' : m.id <= sent'
        /\ \A i \in DOMAIN net' : net'[i].id <= sent'
    BY <2>1, <2>2, <2>3
  <2> QED BY <2>5, <2>6, <2>7
<1>5. UNCHANGED <<received, net, sent>> \/ (\E p \in Packets : VenueSends(p))
        \/ Start \/ RecvPacket \/ MissTerminator
  BY DEF Next, Main, ServerWorker, VenueHangsUp, HeartbeatFails, ClientLeaves, Login,
         Subscribe, WaitClose, Stop, JoinClient, JoinServer, JoinPool, ServerHead,
         RecvMessage, RecvMore, Idle, DispatchServerMessage, PushEndOfSession, Push,
         DispatcherWorker, Take, Handle, vars
<1> QED BY <1>1, <1>2, <1>3, <1>4, <1>5
-----------------------------------------------------------------------------
(* The places a message can be in.                                         *)

LEMMA PlacesFrame ==
  ASSUME PlaceInv, CountInv, UNCHANGED <<received, inHand, queue, taken, handled>>
  PROVE  PlaceInv' /\ CountInv'
<1>1. /\ Queued' = Queued /\ Held' = Held /\ Taken' = Taken /\ Done' = Done /\ Due' = Due
      /\ queue' = queue /\ taken' = taken /\ handled' = handled
  BY DEF Queued, Held, Taken, Done, Due
<1>2. PlaceInv'
  BY <1>1 DEF PlaceInv
<1>3. CountInv'
  BY <1>1 DEF CountInv
<1> QED BY <1>2, <1>3

LEMMA DueFinite ==
  ASSUME TypeInv
  PROVE  IsFiniteSet(Due) /\ Cardinality(Due) \in Nat
<1>1. Due \in SUBSET received
  BY DEF Due
<1>2. IsFiniteSet(Due)
  BY <1>1, FS_Subset DEF TypeInv
<1> QED BY <1>2, FS_CardinalityType

LEMMA HeldFinite ==
  ASSUME TypeInv
  PROVE  IsFiniteSet(Held) /\ Cardinality(Held) \in Nat
         /\ IsFiniteSet(handled) /\ Cardinality(handled) \in Nat
<1>1. Held \in SUBSET Dispatchers
  BY DEF Held
<1>2. IsFiniteSet(Held)
  BY <1>1, FS_Subset, SessionAssumption DEF SessionAssumption
<1>3. IsFiniteSet(handled)
  BY DEF TypeInv
<1> QED BY <1>2, <1>3, FS_CardinalityType

\* A message that is received is new, and with the server thread.
LEMMA ReceivePlaces ==
  ASSUME SInv, server = "packet", net # <<>>,
         inHand' = Received(Head(net)), received' = received \cup {Received(Head(net))},
         UNCHANGED <<queue, taken, handled>>
  PROVE  PlaceInv' /\ CountInv'
<1> DEFINE w == Head(net)
<1> USE DEF SInv
<1>1. w = net[1] /\ w \in Wire /\ 1 \in DOMAIN net
  BY DEF TypeInv
<1>2. Received(w) \notin received
  <2>1. Received(w).id = net[1].id /\ net[1].id \in Nat
    BY <1>1, ReceivedIsMessage
  <2> QED BY <1>1, <2>1 DEF IdInv
<1>3. Nothing \notin received
  BY NothingIsNoMessage DEF TypeInv
<1>4. inHand = Nothing
  BY DEF ControlInv
<1>5. Due' = Due
  BY <1>2, <1>3, <1>4 DEF Due
<1>6. Queued' = Queued /\ Held' = Held /\ Taken' = Taken /\ Done' = Done
      /\ queue' = queue /\ taken' = taken /\ handled' = handled
  BY DEF Queued, Held, Taken, Done
<1>7. PlaceInv'
  BY <1>6 DEF PlaceInv
<1>8. CountInv'
  BY <1>5, <1>6 DEF CountInv
<1> QED BY <1>7, <1>8

\* A heartbeat is dropped.
LEMMA DropPlaces ==
  ASSUME SInv, inHand # Nothing, IsHeartbeat(inHand), inHand' = Nothing,
         UNCHANGED <<received, queue, taken, handled>>
  PROVE  PlaceInv' /\ CountInv'
<1> USE DEF SInv
<1>1. Nothing \notin received
  BY NothingIsNoMessage DEF TypeInv
<1>2. Due' = Due
  BY <1>1 DEF Due
<1>3. Queued' = Queued /\ Held' = Held /\ Taken' = Taken /\ Done' = Done
      /\ queue' = queue /\ taken' = taken /\ handled' = handled
  BY DEF Queued, Held, Taken, Done
<1>4. PlaceInv'
  BY <1>3 DEF PlaceInv
<1>5. CountInv'
  BY <1>2, <1>3 DEF CountInv
<1> QED BY <1>4, <1>5

\* The message in hand goes to the back of the queue.
LEMMA PushPlaces ==
  ASSUME SInv, inHand # Nothing, ~IsHeartbeat(inHand), Push
  PROVE  PlaceInv' /\ CountInv'
<1> USE DEF SInv
<1>1. /\ queue' = Append(queue, inHand) /\ inHand' = Nothing
      /\ received' = received /\ taken' = taken /\ handled' = handled
  BY DEF Push, venueVars, mainVars
<1>2. inHand \in received /\ inHand \in Messages /\ Nothing \notin received
  BY NothingIsNoMessage DEF ControlInv, TypeInv
<1>3. Due' = Due \cup {inHand} /\ inHand \notin Due
  BY <1>1, <1>2 DEF Due
<1>4. inHand \notin Queued /\ inHand \notin Taken /\ inHand \notin Done
  BY <1>3 DEF CountInv
<1>5. /\ DOMAIN queue = 1 .. Len(queue) /\ DOMAIN queue' = 1 .. Len(queue) + 1
      /\ \A i \in DOMAIN queue : queue'[i] = queue[i]
      /\ queue'[Len(queue) + 1] = inHand /\ Len(queue) \in Nat
      /\ Len(queue') = Len(queue) + 1
  BY <1>1, <1>2 DEF TypeInv
<1>6. \A i \in DOMAIN queue' : i \in DOMAIN queue \/ i = Len(queue) + 1
  BY <1>5
<1>7. Queued' = Queued \cup {inHand}
  BY <1>5, <1>6 DEF Queued
<1>8. Held' = Held /\ Taken' = Taken /\ Done' = Done
  BY <1>1 DEF Held, Taken, Done
<1>9. \A i, j \in DOMAIN queue' : queue'[i] = queue'[j] => i = j
  BY <1>4, <1>5, <1>6 DEF PlaceInv, Queued
<1>10. PlaceInv'
  BY <1>1, <1>4, <1>7, <1>8, <1>9 DEF PlaceInv
<1>11. Cardinality(Due') = Cardinality(Due) + 1
  BY <1>3, DueFinite, FS_AddElement
<1>12. CountInv'
  BY <1>1, <1>3, <1>5, <1>7, <1>8, <1>11, HeldFinite, DueFinite DEF CountInv
<1> QED BY <1>10, <1>12

\* The front of the queue goes to a dispatcher that holds nothing.
LEMMA TakePlaces ==
  ASSUME SInv, NEW d \in Dispatchers, Take(d), queue # <<>>
  PROVE  PlaceInv' /\ CountInv'
<1> USE DEF SInv
<1> DEFINE m == Head(queue)
<1>1. /\ taken' = [taken EXCEPT ![d] = m] /\ queue' = Tail(queue)
      /\ received' = received /\ inHand' = inHand /\ handled' = handled
  BY DEF Take, serverVars
<1>2. /\ m = queue[1] /\ m \in Messages /\ m # Nothing
      /\ DOMAIN queue = 1 .. Len(queue) /\ Len(queue) \in Nat \ {0} /\ 1 \in DOMAIN queue
      /\ Len(queue') = Len(queue) - 1 /\ DOMAIN queue' = 1 .. Len(queue) - 1
      /\ \A i \in DOMAIN queue' : queue'[i] = queue[i + 1] /\ i + 1 \in DOMAIN queue
  BY <1>1, NothingIsNoMessage DEF TypeInv
<1>3. d \notin Held
  BY DEF Held, ControlInv, Take
<1>4. Held' = Held \cup {d} /\ \A e \in Held : taken'[e] = taken[e] /\ e # d
  BY <1>1, <1>2, <1>3 DEF Held, TypeInv
<1>5. taken'[d] = m
  BY <1>1 DEF TypeInv
<1>6. Taken' = Taken \cup {m}
  <2>1. \A x \in Taken' : x \in Taken \cup {m}
    BY <1>4, <1>5 DEF Taken
  <2>2. \A x \in Taken \cup {m} : x \in Taken'
    BY <1>4, <1>5 DEF Taken
  <2> QED BY <2>1, <2>2
<1>7. Done' = Done /\ Due' = Due
  BY <1>1 DEF Done, Due
<1>8. \A i, j \in DOMAIN queue : queue[i] = queue[j] => i = j
  BY DEF PlaceInv
<1>9. m \notin Queued'
  <2> SUFFICES ASSUME NEW i \in DOMAIN queue', queue'[i] = m PROVE FALSE
    BY DEF Queued
  <2>1. i + 1 = 1 /\ i \in Nat \ {0}
    BY <1>2, <1>8
  <2> QED BY <2>1
<1>10. Queued = Queued' \cup {m}
  <2>1. \A x \in Queued : x \in Queued' \cup {m}
    <3> SUFFICES ASSUME NEW i \in DOMAIN queue, i # 1 PROVE queue[i] \in Queued'
      BY <1>2 DEF Queued
    <3>1. i - 1 \in DOMAIN queue' /\ (i - 1) + 1 = i
      BY <1>2
    <3>2. queue'[i - 1] = queue[i]
      BY <1>2, <3>1
    <3> QED BY <3>1, <3>2 DEF Queued
  <2>2. \A x \in Queued' \cup {m} : x \in Queued
    BY <1>2 DEF Queued
  <2> QED BY <2>1, <2>2
<1>11. \A i, j \in DOMAIN queue' : queue'[i] = queue'[j] => i = j
  <2> TAKE i, j \in DOMAIN queue'
  <2>1. i \in Int /\ j \in Int /\ i + 1 \in DOMAIN queue /\ j + 1 \in DOMAIN queue
        /\ queue'[i] = queue[i + 1] /\ queue'[j] = queue[j + 1]
    BY <1>2
  <2>2. queue'[i] = queue'[j] => i + 1 = j + 1
    BY <1>8, <2>1
  <2> QED BY <2>1, <2>2
<1>12. m \notin Taken /\ m \notin Done
  BY <1>10 DEF PlaceInv
<1>13. \A e, f \in Held' : taken'[e] = taken'[f] => e = f
  BY <1>4, <1>5, <1>12 DEF PlaceInv, Taken
<1>14. PlaceInv'
  BY <1>6, <1>7, <1>9, <1>10, <1>11, <1>12, <1>13 DEF PlaceInv
<1>15. Cardinality(Held') = Cardinality(Held) + 1
  BY <1>3, <1>4, HeldFinite, FS_AddElement
<1>16. Due' = Queued' \cup Taken' \cup Done'
  BY <1>6, <1>7, <1>10 DEF CountInv
<1>17. Cardinality(Due') = Len(queue') + Cardinality(Held') + Cardinality(handled')
  BY <1>1, <1>2, <1>7, <1>15, HeldFinite, DueFinite DEF CountInv
<1> QED BY <1>14, <1>16, <1>17 DEF CountInv

\* A dispatcher calls the handler and holds nothing afterwards.
LEMMA HandlePlaces ==
  ASSUME SInv, NEW d \in Dispatchers, Handle(d)
  PROVE  PlaceInv' /\ CountInv'
<1> USE DEF SInv
<1> DEFINE m == taken[d]
           h == [message |-> m, handler |-> Handler(m.msg)]
<1>1. /\ taken' = [taken EXCEPT ![d] = Nothing] /\ handled' = handled \cup {h}
      /\ received' = received /\ inHand' = inHand /\ queue' = queue
  BY DEF Handle, serverVars
<1>2. d \in Held /\ m \in Taken
  BY DEF ControlInv, Handle, Held, Taken
<1>3. Held' = Held \ {d} /\ \A e \in Held' : taken'[e] = taken[e]
  BY <1>1 DEF Held, TypeInv
<1>4. \A e, f \in Held : taken[e] = taken[f] => e = f
  BY DEF PlaceInv
<1>5. Taken' = Taken \ {m}
  <2>1. \A x \in Taken' : x \in Taken \ {m}
    BY <1>2, <1>3, <1>4 DEF Taken
  <2>2. \A x \in Taken \ {m} : x \in Taken'
    BY <1>3 DEF Taken
  <2> QED BY <2>1, <2>2
<1>6. m \notin Queued /\ m \notin Done
  BY <1>2 DEF PlaceInv
<1>7. Done' = Done \cup {m} /\ h \notin handled
  BY <1>1, <1>6 DEF Done
<1>8. Queued' = Queued /\ Due' = Due
  BY <1>1 DEF Queued, Due
<1>9. \A e, f \in Held' : taken'[e] = taken'[f] => e = f
  BY <1>3, <1>4
<1>10. PlaceInv'
  BY <1>1, <1>5, <1>6, <1>7, <1>8, <1>9 DEF PlaceInv
<1>11. Cardinality(Held') = Cardinality(Held) - 1
  BY <1>2, <1>3, HeldFinite, FS_RemoveElement
<1>12. Cardinality(handled') = Cardinality(handled) + 1
  BY <1>1, <1>7, HeldFinite, FS_AddElement
<1>13. Due' = Queued' \cup Taken' \cup Done'
  BY <1>2, <1>5, <1>7, <1>8 DEF CountInv
<1>14. Len(queue) \in Nat
  BY DEF TypeInv
<1>15. Cardinality(Due') = Len(queue') + Cardinality(Held') + Cardinality(handled')
  BY <1>1, <1>8, <1>11, <1>12, <1>14, HeldFinite, DueFinite DEF CountInv
<1> QED BY <1>10, <1>13, <1>15 DEF CountInv

LEMMA PlaceStep == SInv /\ [Next]_vars => PlaceInv' /\ CountInv'
<1> SUFFICES ASSUME SInv, [Next]_vars
             PROVE  PlaceInv' /\ CountInv'
  OBVIOUS
<1> USE DEF SInv
<1>1. CASE UNCHANGED <<received, inHand, queue, taken, handled>>
  BY <1>1, PlacesFrame
<1>2. CASE RecvPacket
  <2>1. CASE Parsed[Head(net).packet] = NoMessage
    <3>1. UNCHANGED <<received, inHand, queue, taken, handled>>
      BY <1>2, <2>1 DEF RecvPacket, Idle, poolVars
    <3> QED BY <3>1, PlacesFrame
  <2>2. CASE Parsed[Head(net).packet] # NoMessage
    <3>1. /\ server = "packet" /\ net # <<>> /\ inHand' = Received(Head(net))
          /\ received' = received \cup {Received(Head(net))}
          /\ UNCHANGED <<queue, taken, handled>>
      BY <1>2, <2>2 DEF RecvPacket, Received, poolVars
    <3> QED BY <3>1, ReceivePlaces
  <2> QED BY <2>1, <2>2
<1>3. CASE DispatchServerMessage
  <2>1. inHand # Nothing /\ inHand \in Messages
    BY <1>3 DEF DispatchServerMessage, ControlInv, TypeInv
  <2>2. CASE inHand' = Nothing /\ IsHeartbeat(inHand) /\ ~inHand.msg.eos
    <3>1. UNCHANGED <<received, queue, taken, handled>>
      BY <1>3, <2>2 DEF DispatchServerMessage, IsHeartbeat, poolVars
    <3> QED BY <2>1, <2>2, <3>1, DropPlaces
  <2>3. CASE inHand.msg.eos
    <3>1. ~IsHeartbeat(inHand)
      BY <2>1, <2>3, EndOfSessionIsNoHeartbeat
    <3>2. UNCHANGED <<received, inHand, queue, taken, handled>>
      BY <1>3, <2>3, <3>1 DEF DispatchServerMessage, IsHeartbeat, poolVars
    <3> QED BY <3>2, PlacesFrame
  <2>4. CASE ~inHand.msg.eos /\ ~IsHeartbeat(inHand)
    <3>1. Push
      BY <1>3, <2>4 DEF DispatchServerMessage, IsHeartbeat
    <3> QED BY <2>1, <2>4, <3>1, PushPlaces
  <2> QED BY <1>3, <2>2, <2>3, <2>4 DEF DispatchServerMessage, IsHeartbeat
<1>4. CASE PushEndOfSession
  <2>1. inHand # Nothing /\ ~IsHeartbeat(inHand) /\ Push
    BY <1>4 DEF PushEndOfSession, ControlInv
  <2> QED BY <2>1, PushPlaces
<1>5. CASE \E d \in Dispatchers : DispatcherWorker(d)
  <2>1. PICK d \in Dispatchers : DispatcherWorker(d)
    BY <1>5
  <2>2. CASE Take(d) /\ queue # <<>>
    BY <2>2, TakePlaces
  <2>3. CASE Take(d) /\ queue = <<>>
    <3>1. UNCHANGED <<received, inHand, queue, taken, handled>>
      BY <2>3 DEF Take, serverVars
    <3> QED BY <3>1, PlacesFrame
  <2>4. CASE Handle(d)
    BY <2>4, HandlePlaces
  <2> QED BY <2>1, <2>2, <2>3, <2>4 DEF DispatcherWorker
<1>6. \/ UNCHANGED <<received, inHand, queue, taken, handled>>
      \/ RecvPacket \/ DispatchServerMessage \/ PushEndOfSession
      \/ \E d \in Dispatchers : DispatcherWorker(d)
  BY DEF Next, Main, ServerWorker, VenueSends, VenueHangsUp, HeartbeatFails, ClientLeaves,
         Start, Login, Subscribe, WaitClose, Stop, JoinClient, JoinServer, JoinPool,
         ServerHead, RecvMessage, RecvMore, MissTerminator, Idle, vars, serverVars,
         poolVars
<1> QED BY <1>1, <1>2, <1>3, <1>4, <1>5, <1>6

LEMMA SInvariant == Spec => []SInv
<1>1. Init => SInv
  BY SInit
<1>2. SInv /\ [Next]_vars => SInv'
  BY TypeStep, ControlStep, IdStep, PlaceStep DEF SInv
<1> QED BY <1>1, <1>2, PTL DEF Spec

-----------------------------------------------------------------------------
\* Every message ReceiveMessage has returned, heartbeats aside, is with the
\* server thread, in m_dispatchQueue, with one dispatcher or handled, and once
\* only, over any number of restarts of the session and with any number of
\* threads in the pool.
THEOREM MessagesAreHandledOnce == Spec => []EachMessageOnce
<1>1. SInv => EachMessageOnce
  BY DEF SInv, CountInv, EachMessageOnce, Due, Queued, Taken, Held, Done, IsHeartbeat
<1> QED BY <1>1, SInvariant, PTL
============================================================================
