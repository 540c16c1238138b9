--------------------------- MODULE MCItchSession ---------------------------
EXTENDS ItchSession

Packet(t, n) == [type |-> t, body |-> n, numeric |-> TRUE, pairs |-> <<>>,
                 inner |-> NoPacket]
Payload(t, n) == [NoPacket EXCEPT !.type = t, !.body = n]
Sequenced(q) == [Packet("S", q.body + 10) EXCEPT !.inner = q]
Snapshot == [Payload("S", 176) EXCEPT !.pairs = <<[bids |-> <<1, 0>>, offers |-> <<1>>]>>]

MCPairs == <<8>>

(* A heartbeat, a rejected login and a sequenced message that are cut      *)
(* short, the end of the session and a snapshot.                           *)
MCPackets == {Packet("H", 0), Packet("J", 18), Packet("S", 0), Packet("S", 5),
              Sequenced(Snapshot)}
============================================================================
