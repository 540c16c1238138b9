---------------------------- MODULE ItchSession ----------------------------
(***************************************************************************)
(* The ITCH session, market_data/itch/Session.cpp, under the reconnect     *)
(* loop of main.cpp. Its threads:                                          *)
(*   main    connects, logs in, subscribes, waits for the socket to close, *)
(*           stops the session and starts over                             *)
(*   server  ServerWorker: receives messages and queues them               *)
(*   client  ClientWorker: sends heartbeats                                *)
(*   pool    DispatcherWorker: take messages from the queue, run handlers  *)
(* Every wait on m_clientSocketCond is timed, so it is a step that may be  *)
(* taken at any time; a wait on m_dispatchCond ends with a broadcast.      *)
(* The socket is the one of ItchReceive seen from above: `net` holds the   *)
(* frames that the ring will cut from the venue's bytes, in order. They    *)
(* are the venue's packets as long as the ring does not wrap; when it has, *)
(* RecvPacket may miss the end of one, wait for more, and hand out what is *)
(* then in front: any packet at all, as the venue may send any.            *)
(***************************************************************************)
EXTENDS ItchMessages, FiniteSets

CONSTANTS Dispatchers,  \* the threads of m_dispatchPool
          Packets,      \* what the venue may send
          Pairs,        \* the symbols file: the length of each name
          Username, Password,  \* the lengths of these
          MaxMessages,  \* bound: packets the venue sends in a behaviour
          MaxStarts     \* bound: sessions started in a behaviour

ASSUME SessionAssumption ==
    /\ MaxMessages \in Nat /\ MaxStarts \in Nat
    /\ IsFiniteSet(Dispatchers)
    /\ Pairs \in Seq(Nat) /\ Username \in Nat /\ Password \in Nat
    /\ \A p \in Packets : p.type = "S" /\ p.body >= 10 => p.inner.body = p.body - 10

(* ParseMessage, tabulated once.                                           *)
Parsed == [p \in Packets |-> ParseMessage(p)]

VARIABLES main,      \* where the main thread is
          requests,  \* the subscription requests it has still to send
          sock,      \* m_pSocket: "none", "open" or "closed"
          shutdown,  \* m_bShutdown
          server, inHand,     \* ServerWorker: where it is, the message it holds
          client,             \* ClientWorker: where it is
          disp, taken,        \* DispatcherWorker: where each is, the message it holds
          queue,     \* m_dispatchQueue
          net, venueUp,       \* packets under way; the venue keeps the connection
          sent, starts,       \* packets sent, sessions started
          received,  \* the messages ReceiveMessage has returned
          handled    \* the calls of handlers: message and handler

mainVars   == <<main, requests, shutdown, starts>>
serverVars == <<server, inHand, received>>
poolVars   == <<disp, taken, queue, handled>>
venueVars  == <<net, venueUp, sent>>
vars == <<mainVars, sock, serverVars, client, poolVars, venueVars>>

Nothing == [id |-> 0, packet |-> NoPacket, msg |-> NoMessage]

Init ==
    /\ main = "start" /\ requests = <<>> /\ sock = "none"
    /\ shutdown = TRUE
    /\ server = "off" /\ inHand = Nothing /\ client = "off"
    /\ disp = [d \in Dispatchers |-> "off"] /\ taken = [d \in Dispatchers |-> Nothing]
    /\ queue = <<>> /\ net = <<>> /\ venueUp = FALSE
    /\ sent = 0 /\ starts = 0 /\ received = {} /\ handled = {}

Alive == main # "exited"
IsConnected == sock = "open"
Closed(s) == IF s = "open" THEN "closed" ELSE s

(* pthread_cond_broadcast on m_dispatchCond.                               *)
Woken == [d \in Dispatchers |-> IF disp[d] = "wait" THEN "ready" ELSE disp[d]]

---------------------------------------------------------------------------
(* The venue.                                                              *)

VenueSends(p) ==
    /\ Alive /\ venueUp /\ sent < MaxMessages
    /\ sent' = sent + 1
    /\ net' = Append(net, [id |-> sent + 1, packet |-> p])
    /\ UNCHANGED <<mainVars, sock, serverVars, client, poolVars, venueUp>>

VenueHangsUp ==
    /\ Alive /\ venueUp
    /\ venueUp' = FALSE
    /\ UNCHANGED <<mainVars, sock, serverVars, client, poolVars, net, sent>>

---------------------------------------------------------------------------
(* The main thread.                                                        *)

(* Start: the connection is made before the workers are.                   *)
Start ==
    /\ main = "start" /\ starts < MaxStarts
    /\ starts' = starts + 1 /\ main' = "login"
    /\ \/ /\ sock' = "open" /\ venueUp' = TRUE /\ net' = <<>>
          /\ shutdown' = FALSE
          /\ server' = "head" /\ client' = "run"
          /\ disp' = [d \in Dispatchers |-> "ready"]
       \/ UNCHANGED <<sock, venueUp, net, shutdown, server, client, disp>>
    /\ UNCHANGED <<requests, inHand, received, taken, queue, handled, sent>>

(* SendMessage of a request that can be saved or not: true when it went    *)
(* out. A send that fails closes the socket.                               *)
SendMessage(saved, ok) ==
    \/ /\ ~IsConnected \/ ~saved
       /\ ok = FALSE /\ UNCHANGED sock
    \/ /\ IsConnected /\ saved
       /\ sock' = IF ok THEN sock ELSE Closed(sock)

(* On a connection that was not made, or is gone already, Login fails as   *)
(* the main loop's own test does.                                          *)
Login ==
    /\ main = "login"
    /\ \E ok \in BOOLEAN :
          /\ SendMessage(SaveLogin(Username, Password), ok)
          /\ main' = IF ok THEN "subscribe" ELSE "stop"
    /\ requests' = FlattenSeq([i \in DOMAIN Pairs |-> <<Pairs[i], Pairs[i], Pairs[i]>>])
    /\ UNCHANGED <<shutdown, starts, serverVars, client, poolVars, venueVars>>

(* Snapshot, market data and ticker of each pair; the first failure ends   *)
(* the subscriptions.                                                      *)
Subscribe ==
    /\ main = "subscribe"
    /\ IF requests = <<>> THEN main' = "wait" /\ UNCHANGED <<requests, sock>>
       ELSE \E ok \in BOOLEAN :
              /\ SendMessage(SaveCurrencyPair(Head(requests)), ok)
              /\ requests' = IF ok THEN Tail(requests) ELSE <<>>
              /\ main' = main
    /\ UNCHANGED <<shutdown, starts, serverVars, client, poolVars, venueVars>>

WaitClose ==
    /\ main = "wait" /\ ~IsConnected
    /\ main' = "stop"
    /\ UNCHANGED <<requests, sock, shutdown, starts, serverVars, client,
                   poolVars, venueVars>>

Stop ==
    /\ main = "stop"
    /\ shutdown' = TRUE
    /\ main' = IF client = "off" THEN "joinPool" ELSE "joinClient"
    /\ UNCHANGED <<requests, sock, starts, serverVars, client, poolVars, venueVars>>

JoinClient ==
    /\ main = "joinClient" /\ client = "done"
    /\ client' = "off" /\ main' = "joinServer"
    /\ UNCHANGED <<requests, sock, shutdown, starts, serverVars, poolVars, venueVars>>

(* Mutant: the pool is joined without a broadcast.                         *)
JoinServerQuietly ==
    /\ main = "joinServer" /\ server = "done"
    /\ server' = "off" /\ main' = "joinPool"
    /\ UNCHANGED <<requests, sock, shutdown, starts, inHand, received, client,
                   poolVars, venueVars>>

(* The dispatchers are woken when the server thread has left. (None goes   *)
(* back to waiting in between: shutdown is set.)                           *)
JoinServer ==
    /\ main = "joinServer" /\ server = "done"
    /\ server' = "off" /\ main' = "joinPool"
    /\ disp' = Woken
    /\ UNCHANGED <<requests, sock, shutdown, starts, inHand, received, client,
                   taken, queue, handled, venueVars>>

(* The threads of the pool that were created are joined and the socket is  *)
(* deleted.                                                                *)
JoinPool ==
    /\ main = "joinPool"
    /\ \A d \in Dispatchers : disp[d] \in {"done", "off"}
    /\ disp' = [d \in Dispatchers |-> "off"]
    /\ sock' = "none" /\ main' = "start"
    /\ UNCHANGED <<requests, shutdown, starts, serverVars, client, taken, queue, handled,
                   venueVars>>

Main ==
    \/ Start \/ Login \/ Subscribe \/ WaitClose
    \/ Stop \/ JoinClient \/ JoinServer \/ JoinPool

---------------------------------------------------------------------------
(* ServerWorker.                                                           *)

ServerHead ==
    /\ Alive /\ server = "head"
    /\ server' = IF shutdown THEN "done" ELSE "recv"
    /\ UNCHANGED <<mainVars, sock, inHand, received, client, poolVars, venueVars>>

(* ReceiveMessage returned NULL, which may be because the peer has shut    *)
(* the connection down. Shutdown, or the socket closed, ends the thread.   *)
(* The limit that the time since the last message is compared with is      *)
(* never initialised, so a connected socket may be closed at any time.     *)
Idle ==
    /\ \/ UNCHANGED sock
       \/ ~venueUp /\ net = <<>> /\ sock' = Closed(sock)
       \/ ~shutdown /\ sock' = Closed(sock)
    /\ server' = IF shutdown \/ sock' # "open" THEN "done" ELSE "head"
    /\ UNCHANGED <<inHand, received>>

(* RecvMessage: true when a terminator has been received; false on a       *)
(* closed socket, whatever is buffered, and after a timeout, which may     *)
(* pass while bytes are on their way.                                      *)
RecvMessage ==
    /\ Alive /\ server = "recv"
    /\ \/ /\ IsConnected /\ net # <<>>
          /\ server' = "packet"
          /\ UNCHANGED <<sock, inHand, received>>
       \/ Idle
    /\ UNCHANGED <<mainVars, client, poolVars, venueVars>>

(* RecvPacket takes the packet from the ring, even if the socket has been  *)
(* closed meanwhile. One that nothing can be made of gives NULL.           *)
RecvPacket ==
    /\ Alive /\ server = "packet" /\ net # <<>>
    /\ LET p == Head(net)
           m == [id |-> p.id, packet |-> p.packet, msg |-> Parsed[p.packet]]
       IN  IF m.msg = NoMessage THEN Idle
           ELSE /\ server' = "got" /\ inHand' = m /\ received' = received \cup {m}
                /\ UNCHANGED sock
    /\ net' = Tail(net)
    /\ UNCHANGED <<mainVars, client, poolVars, venueUp, sent>>

(* It finds no terminator where it looks, keeps the bytes for the packet   *)
(* and asks for more.                                                      *)
MissTerminator ==
    /\ Alive /\ server = "packet" /\ net # <<>>
    /\ server' = "block" /\ net' = Tail(net)
    /\ UNCHANGED <<mainVars, sock, inHand, received, client, poolVars, venueUp, sent>>

(* The loop of RecvPacket around RecvIntoBuffer, whose failure it does not *)
(* look at: there is no way out for a closed socket, a shutdown or a       *)
(* connection that has ended. What is still to come, or is in the ring and *)
(* was not seen, is the rest of the packet.                                *)
RecvMore ==
    /\ Alive /\ server = "block"
    /\ \/ /\ net # <<>>
          /\ server' = "packet" /\ UNCHANGED sock
       \/ /\ net = <<>> /\ ~venueUp
          /\ sock' = Closed(sock) /\ UNCHANGED server
    /\ UNCHANGED <<mainVars, inHand, received, client, poolVars, venueVars>>

InRecvPacket == server \in {"packet", "block"}

(* Mutant: the dispatchers are not told.                                   *)
PushQuietly ==
    /\ queue' = Append(queue, inHand)
    /\ server' = "head" /\ inHand' = Nothing
    /\ UNCHANGED <<mainVars, sock, received, client, disp, taken, handled, venueVars>>

(* DispatchServerMessage's last part, under m_dispatchMutex.               *)
Push ==
    /\ queue' = Append(queue, inHand)
    /\ disp' = Woken
    /\ server' = "head" /\ inHand' = Nothing
    /\ UNCHANGED <<mainVars, sock, received, client, taken, handled, venueVars>>

(* DispatchServerMessage: a heartbeat is dropped, the end of the session   *)
(* closes the socket before it is queued.                                  *)
DispatchServerMessage ==
    /\ Alive /\ server = "got"
    /\ \/ /\ inHand.msg.type = "H" /\ inHand.msg.loaded
          /\ server' = "head" /\ inHand' = Nothing
          /\ UNCHANGED <<mainVars, sock, received, client, poolVars, venueVars>>
       \/ /\ inHand.msg.eos
          /\ sock' = Closed(sock) /\ server' = "push"
          /\ UNCHANGED <<mainVars, inHand, received, client, poolVars, venueVars>>
       \/ /\ ~inHand.msg.eos /\ ~(inHand.msg.type = "H" /\ inHand.msg.loaded)
          /\ Push

PushEndOfSession == Alive /\ server = "push" /\ Push

ServerWorker ==
    \/ ServerHead \/ RecvMessage \/ RecvPacket \/ MissTerminator \/ RecvMore
    \/ DispatchServerMessage \/ PushEndOfSession

---------------------------------------------------------------------------
(* ClientWorker.                                                           *)

(* A turn after which the thread goes on changes something only when a     *)
(* heartbeat was due and could not be sent: then the socket is closed.     *)
HeartbeatFails ==
    /\ Alive /\ client = "run" /\ ~shutdown /\ IsConnected
    /\ sock' = Closed(sock)
    /\ UNCHANGED <<mainVars, serverVars, client, poolVars, venueVars>>

(* The wait ends with a broadcast or a timeout.                            *)
ClientLeaves ==
    /\ Alive /\ client = "run" /\ (shutdown \/ ~IsConnected)
    /\ client' = "done"
    /\ UNCHANGED <<mainVars, sock, serverVars, poolVars, venueVars>>

---------------------------------------------------------------------------
(* DispatcherWorker.                                                       *)

(* Mutant: the front is read and not popped.                               *)
TakeWithoutPop(d) ==
    /\ Alive /\ disp[d] = "ready"
    /\ IF queue # <<>>
       THEN /\ taken' = [taken EXCEPT ![d] = Head(queue)]
            /\ disp' = [disp EXCEPT ![d] = "handle"]
       ELSE /\ disp' = [disp EXCEPT ![d] = IF shutdown THEN "done" ELSE "wait"]
            /\ UNCHANGED taken
    /\ UNCHANGED <<mainVars, sock, serverVars, client, queue, handled, venueVars>>

(* Under m_dispatchMutex: the front of the queue, or else leave on         *)
(* shutdown, or else wait.                                                 *)
Take(d) ==
    /\ Alive /\ disp[d] = "ready"
    /\ IF queue # <<>>
       THEN /\ taken' = [taken EXCEPT ![d] = Head(queue)]
            /\ queue' = Tail(queue)
            /\ disp' = [disp EXCEPT ![d] = "handle"]
       ELSE /\ disp' = [disp EXCEPT ![d] = IF shutdown THEN "done" ELSE "wait"]
            /\ UNCHANGED <<taken, queue>>
    /\ UNCHANGED <<mainVars, sock, serverVars, client, handled, venueVars>>

(* The handler runs and the message is deleted. OnLoginRejected exits the  *)
(* process; so may the undefined case.                                     *)
Handle(d) ==
    /\ Alive /\ disp[d] = "handle"
    /\ LET h == Handler(taken[d].msg)
       IN  /\ handled' = handled \cup {[message |-> taken[d], handler |-> h]}
           /\ \/ h = "OnLoginRejected" /\ main' = "exited"
              \/ h = "undefined" /\ main' \in {main, "exited"}
              \/ h \notin {"OnLoginRejected", "undefined"} /\ main' = main
    /\ taken' = [taken EXCEPT ![d] = Nothing]
    /\ disp' = [disp EXCEPT ![d] = "ready"]
    /\ UNCHANGED <<requests, shutdown, starts, sock, serverVars, client, queue, venueVars>>

DispatcherWorker(d) == Take(d) \/ Handle(d)

---------------------------------------------------------------------------
Next ==
    \/ \E p \in Packets : VenueSends(p)
    \/ VenueHangsUp
    \/ Main \/ ServerWorker \/ HeartbeatFails \/ ClientLeaves
    \/ \E d \in Dispatchers : DispatcherWorker(d)

(* Every thread keeps running. The venue owes nothing.                     *)
Spec ==
    /\ Init /\ [][Next]_vars
    /\ WF_vars(Main) /\ WF_vars(ServerWorker)
    /\ WF_vars(ClientLeaves)
    /\ \A d \in Dispatchers : WF_vars(DispatcherWorker(d))

---------------------------------------------------------------------------
(* Every message ReceiveMessage has returned, heartbeats aside, is in      *)
(* exactly one place: with the server thread, in the queue, with one       *)
(* dispatcher, or handled once. So no dispatcher pops what another has     *)
(* popped, and nothing is dropped when a session stops.                    *)
EachMessageOnce ==
    LET held == {d \in Dispatchers : taken[d] # Nothing}
        kept == {m \in received : ~(m.msg.type = "H" /\ m.msg.loaded)}
        due  == kept \ {inHand}
    IN  /\ due = {queue[i] : i \in DOMAIN queue} \cup {taken[d] : d \in held}
                   \cup {h.message : h \in handled}
        /\ Cardinality(due) = Len(queue) + Cardinality(held) + Cardinality(handled)

(* Once the socket is closed, the main thread stops the session and is     *)
(* ready to start another: no join waits forever. (Or the process exits.)  *)
(* The one exception is the code's: a server thread that the close finds   *)
(* inside RecvPacket may stay there; if it comes out, the promise holds.   *)
ClosedIsRestarted ==
    (sock = "closed" /\ ~InRecvPacket) ~> main \in {"start", "exited"}

(* A queued message is handled as long as a dispatcher is there, whether   *)
(* the session goes on or stops.                                           *)
QueuedIsHandled ==
    \A i \in 1 .. MaxMessages :
        (/\ \E k \in DOMAIN queue : queue[k].id = i
         /\ \E d \in Dispatchers : disp[d] \notin {"off", "done"})
            ~> (main = "exited" \/ \E h \in handled : h.message.id = i)
============================================================================
