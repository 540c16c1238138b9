---------------------------- MODULE ItchReceive ----------------------------
(***************************************************************************)
(* The receive path of the ITCH socket, market_data/itch/Socket.cpp, on    *)
(* top of its ring buffer: MessageFactory::ReceiveMessage, run by the      *)
(* session's server thread, first waits in RecvMessage until a terminator  *)
(* (TLF) has been received and then takes one packet in RecvPacket. The    *)
(* network delivers the venue's bytes in pieces of any size up to Chunk.   *)
(*                                                                         *)
(* `stream` is what the code is compared with: the bytes the venue sent    *)
(* and no packet has delivered yet.                                        *)
(***************************************************************************)
EXTENDS ExpandableRingBuffer, SequencesExt

CONSTANTS TLF,       \* the terminator, 0x0A
          Messages,  \* what the venue may send: sequences that end in TLF
          Chunk,     \* most bytes recv returns at once (sizeof tempBuffer)
          MaxRead,   \* most bytes RecvPacket reads at once (sizeof szBuffer)
          MaxBytes   \* bound: bytes the venue sends in a behaviour

Byte == UNION {{m[i] : i \in DOMAIN m} : m \in Messages}

ASSUME ReceiveAssumption ==
    /\ Chunk \in Nat \ {0} /\ MaxRead \in Nat \ {0} /\ MaxBytes \in Nat
    /\ Messages \subseteq Seq(Byte) /\ Junk \notin Byte
    /\ \A m \in Messages : m # <<>> /\ \A i \in DOMAIN m : m[i] = TLF <=> i = Len(m)

VARIABLES buf,      \* m_buffer
          open,     \* m_nSocket >= 0
          wire,     \* bytes on their way to the socket
          eof,      \* the venue has shut its side down
          pc,       \* where the server thread is
          str,      \* RecvPacket's str, the packet so far
          packet,   \* the packet delivered last
          stream,   \* bytes sent and not delivered in a packet
          count,    \* bytes sent
          wrapped,  \* the data has wrapped around the end of the buffer
          lossy     \* a write has expanded the buffer and lost bytes

vars == <<buf, open, wire, eof, pc, str, packet, stream, count, wrapped, lossy>>
recvVars == <<buf, str, packet, wrapped, lossy>>

Init ==
    /\ buf = NewBuffer
    /\ open = TRUE /\ eof = FALSE
    /\ wire = <<>> /\ stream = <<>> /\ count = 0
    /\ pc = "idle" /\ str = <<>> /\ packet = <<>>
    /\ wrapped = FALSE /\ lossy = FALSE

---------------------------------------------------------------------------
(* The venue and the network.                                              *)

VenueSends(m) ==
    /\ ~eof /\ count + Len(m) <= MaxBytes
    /\ count' = count + Len(m)
    /\ wire' = wire \o m
    /\ stream' = stream \o m
    /\ UNCHANGED <<recvVars, open, eof, pc>>

VenueShutsDown ==
    /\ ~eof /\ eof' = TRUE
    /\ UNCHANGED <<recvVars, open, wire, pc, stream, count>>

(* Close by another thread: a heartbeat or a request that cannot be sent,  *)
(* or the session's end.                                                   *)
Close ==
    /\ open /\ open' = FALSE
    /\ UNCHANGED <<recvVars, wire, eof, pc, stream, count>>

---------------------------------------------------------------------------
(* RecvIntoBuffer with k bytes received: all of them go into the ring.     *)
Received(k) ==
    LET data == SubSeq(wire, 1, k)
        next == WriteData(buf, data)
    IN  /\ open /\ k \in 1 .. Smaller(Chunk, Len(wire))
        /\ buf' = next
        /\ wire' = SubSeq(wire, k + 1, Len(wire))
        /\ wrapped' = (wrapped \/ Wrapped(next))
        /\ lossy' = (lossy \/ LosesBytes(buf, k))
        /\ UNCHANGED <<str, packet, eof, stream, count, open>>

(* Mutant: a piece is enough, with or without a terminator.                *)
HasTLFAlways(k) == TRUE

HasTLF(k) == \E i \in 1 .. k : wire[i] = TLF

(* Mutant: Close has no shutdown(), so it does not wake a recv that waits. *)
RecvFailsUnwoken ==
    /\ eof /\ wire = <<>>
    /\ open' = FALSE
    /\ UNCHANGED <<recvVars, wire, eof, stream, count>>

(* recv fails (the socket is closed or broken) or returns 0 (shut down).   *)
RecvFails ==
    /\ ~open \/ (eof /\ wire = <<>>)
    /\ open' = FALSE
    /\ UNCHANGED <<recvVars, wire, eof, stream, count>>

(* Mutant: it waits for new bytes whatever the ring holds.                 *)
RecvMessageFromWire ==
    /\ pc = "idle"
    /\ pc' = IF open THEN "select" ELSE "left"
    /\ UNCHANGED <<recvVars, open, wire, eof, stream, count>>

(* RecvMessage: false on a closed socket, even with messages buffered; the *)
(* server thread then leaves. True if the ring seems to hold a TLF.        *)
RecvMessage ==
    /\ pc = "idle"
    /\ \/ ~open /\ pc' = "left"
       \/ /\ open
          /\ \E i \in OffsetOfByte(buf, TLF) :
                pc' = IF i >= 0 THEN "packet" ELSE "select"
    /\ UNCHANGED <<recvVars, open, wire, eof, stream, count>>

SelectReads ==
    /\ pc = "select"
    /\ \E k \in 1 .. Chunk :
          /\ Received(k)
          /\ pc' = IF HasTLF(k) THEN "packet" ELSE "select"

SelectFails == pc = "select" /\ RecvFails /\ pc' = "idle"

(* Nothing has come in time; bytes may be on their way.                    *)
SelectTimesOut ==
    /\ pc = "select" /\ open
    /\ pc' = "idle"
    /\ UNCHANGED <<recvVars, open, wire, eof, stream, count>>

(* One turn of RecvPacket's loop: read up to the terminator; a packet that *)
(* ends in TLF is handed out, otherwise the loop asks for more.            *)
RecvPacket ==
    /\ pc = "packet"
    /\ \E n \in UtilByteCounts(buf, MaxRead, TLF) :
          LET got  == ReadBytes(buf, n)
              text == str \o got
              done == got # <<>> /\ got[Len(got)] = TLF
          IN  /\ buf' = AfterRead(buf, n)
              /\ str' = IF done THEN <<>> ELSE text
              /\ packet' = IF done THEN text ELSE packet
              /\ stream' = IF done THEN SubSeq(stream, Len(text) + 1, Len(stream))
                                   ELSE stream
              /\ pc' = IF done THEN "idle" ELSE "block"
    /\ UNCHANGED <<open, wire, eof, count, wrapped, lossy>>

(* RecvPacket's call of RecvIntoBuffer: it blocks, and a failure is not    *)
(* looked at.                                                              *)
RecvMore ==
    /\ pc = "block"
    /\ (\E k \in 1 .. Chunk : Received(k)) \/ RecvFails
    /\ pc' = "packet"

Receive ==
    \/ RecvMessage \/ SelectReads \/ SelectFails \/ SelectTimesOut
    \/ RecvPacket \/ RecvMore

Next ==
    \/ \E m \in Messages : VenueSends(m)
    \/ VenueShutsDown \/ Close
    \/ Receive

(* The server thread keeps running. Bytes on their way arrive some time,   *)
(* and select then returns them: it cannot time out for ever instead.      *)
Spec == Init /\ [][Next]_vars /\ WF_vars(Receive) /\ SF_vars(SelectReads)

---------------------------------------------------------------------------
(* No byte is lost, repeated or moved: what has been read for the current  *)
(* packet, what the ring holds and what is still on the wire are, in this  *)
(* order, the bytes sent and not yet delivered. It holds however the data  *)
(* wraps, until the ring is expanded by one of the lossy writes.           *)
BytesInOrder == lossy \/ str \o Contents(buf) \o wire = stream

(* Framing: until the data wraps, a packet handed out is one message, so   *)
(* neither half a message nor two. (Once it wraps, the search for the      *)
(* terminator looks in the wrong place.)                                   *)
PacketsAreMessages == wrapped \/ packet \in Messages \cup {<<>>}

(* RecvPacket is called when RecvMessage has seen a terminator, so it does *)
(* not wait for bytes ("the function WILL BLOCK if the packet is not       *)
(* already in the internal buffer", Socket.h), except for a packet longer  *)
(* than what it reads at once: then it asks for more although it has them. *)
BlocksOnlyOnLongPackets ==
    wrapped \/ (pc = "block" => str # <<>> /\ Len(str) % MaxRead = 0)

(* A venue that stays connected gets its messages through: a message on    *)
(* the way is delivered, or the receiver waits inside RecvPacket, or the   *)
(* socket is closed. The buffer may have wrapped.                          *)
MessagesArrive ==
    (\E i \in DOMAIN stream : stream[i] = TLF)
        ~> (stream = <<>> \/ pc = "block" \/ ~open \/ wrapped)

(* A close does not hold RecvPacket up, whoever closes the socket, when-   *)
(* ever, and however much longer than one read the packet is: it is called *)
(* for packets that are in the buffer, and the loop takes the rest from    *)
(* there. (Were the packet not there, it would go on for ever: it does not *)
(* look at the failure of RecvIntoBuffer, and never "returns false if the  *)
(* socket closes before the the packet is fully received", Socket.h:36.    *)
(* Once the data wraps that may happen, as the terminator is not found.)   *)
RecvPacketReturns == (pc \in {"packet", "block"} /\ ~open) ~> (pc = "idle" \/ wrapped)
===========================================================================
