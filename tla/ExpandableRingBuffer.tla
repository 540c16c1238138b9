------------------------ MODULE ExpandableRingBuffer ------------------------
(***************************************************************************)
(* The receive buffer of the ITCH socket, market_data/itch/                *)
(* ExpandableRingBuffer.cpp, as operators on a record.                     *)
(*   mem    m_pcBufferHead, a function on 0 .. cap - 1                     *)
(*   cap    m_nBufferLength, 0 before the first allocation                 *)
(*   off    m_nDataOffset                                                  *)
(*   len    m_nDataLength                                                  *)
(* The operators do what the code does, not what a ring buffer should do:  *)
(* a write that grows a wrapped buffer, and a search in a wrapped buffer,  *)
(* are translated with their slips.                                        *)
(***************************************************************************)
EXTENDS Integers, Sequences

CONSTANTS BlockSize,  \* m_nBlockSize: capacities are multiples of it
          Junk        \* what realloc leaves in a cell nobody has written

ASSUME BlockAssumption == BlockSize \in Nat \ {0}

Smaller(m, n) == IF m < n THEN m ELSE n

RoundUp(n) == ((n + BlockSize - 1) \div BlockSize) * BlockSize

NewBuffer == [mem |-> [i \in {} |-> Junk], cap |-> 0, off |-> 0, len |-> 0]

Wrapped(b) == b.off + b.len > b.cap

(* The bytes the buffer is meant to hold, oldest first.                    *)
Contents(b) == [i \in 1 .. b.len |-> b.mem[(b.off + i - 1) % b.cap]]

---------------------------------------------------------------------------
(* realloc, memcpy and memmove on the cells (external: the C library).     *)

Realloc(mem, n) ==
    [i \in 0 .. n - 1 |-> IF i \in DOMAIN mem THEN mem[i] ELSE Junk]

CopyTo(mem, at, data) ==
    [i \in DOMAIN mem |-> IF i \in at .. at + Len(data) - 1
                          THEN data[i - at + 1] ELSE mem[i]]

CopyFrom(mem, at, n) == [i \in 1 .. n |-> mem[at + i - 1]]

(* The indices memchr may return for c in n cells from `at`, -1 for none.  *)
(* A cell outside the allocation, or one never written, may hold anything. *)
MemChr(mem, at, n, c) ==
    LET cells == at .. at + n - 1
        must  == {i \in cells \cap DOMAIN mem : mem[i] = c}
        may   == {i \in cells : i \notin DOMAIN mem \/ mem[i] = Junk}
    IN  {i \in must \cup may : \A j \in must : i <= j}
          \cup (IF must = {} THEN {-1} ELSE {})

---------------------------------------------------------------------------
(* WriteData's expansion: the part of the data that had wrapped is to be   *)
(* moved behind the old end. The test `nDataEndOffset < m_nDataOffset`     *)
(* misses a full buffer, and what does not fit behind the old end is       *)
(* copied away from the head instead of towards it.                        *)
Expand(b, n) ==
    LET cap   == RoundUp(b.len + n)
        end   == (b.off + b.len) % b.cap
        move  == Smaller(end, cap - b.cap)
        grown == Realloc(b.mem, cap)
        moved == CopyTo(grown, b.cap, CopyFrom(grown, 0, move))
    IN  [b EXCEPT !.cap = cap,
                  !.mem = IF end < b.off
                          THEN CopyTo(moved, move, CopyFrom(moved, 0, end - move))
                          ELSE grown]

(* Data into an empty buffer goes to the head; the assertion there is that *)
(* the offset is 0.                                                        *)
WriteFresh(b, data) ==
    LET need == RoundUp(Len(data))
        cap  == IF need > b.cap THEN need ELSE b.cap
    IN  [b EXCEPT !.mem = CopyTo(Realloc(b.mem, cap), 0, data),
                  !.cap = cap,
                  !.len = Len(data)]

(* Mutant: the free space is always taken to be in one piece.              *)
WriteBehindInOnePiece(b, data) ==
    LET g   == IF b.cap - b.len < Len(data) THEN Expand(b, Len(data)) ELSE b
        end == (g.off + g.len) % g.cap
    IN  [g EXCEPT !.mem = CopyTo(@, end, data), !.len = @ + Len(data)]

WriteBehind(b, data) ==
    LET g    == IF b.cap - b.len < Len(data) THEN Expand(b, Len(data)) ELSE b
        end  == (g.off + g.len) % g.cap
        lead == IF end > g.off THEN Smaller(Len(data), g.cap - end)
                               ELSE Len(data)
    IN  [g EXCEPT !.mem = CopyTo(CopyTo(@, end, SubSeq(data, 1, lead)), 0,
                                 SubSeq(data, lead + 1, Len(data))),
                  !.len = @ + Len(data)]

WriteData(b, data) ==
    IF data = <<>> THEN b
    ELSE IF b.len = 0 THEN WriteFresh(b, data) ELSE WriteBehind(b, data)

(* The writes that lose bytes: the buffer expands while the data wraps,    *)
(* and it was full, or the wrapped part does not fit behind the old end.   *)
LosesBytes(b, n) ==
    LET end == (b.off + b.len) % b.cap
    IN  /\ b.len > 0 /\ Wrapped(b)
        /\ b.cap - b.len < n
        /\ end = b.off \/ end > RoundUp(b.len + n) - b.cap

---------------------------------------------------------------------------
(* ReadData: at most n bytes from the front, in one or two copies.         *)
ReadCount(b, n) == Smaller(n, b.len)

ReadBytes(b, n) ==
    LET k    == ReadCount(b, n)
        lead == Smaller(k, b.cap - b.off)
    IN  CopyFrom(b.mem, b.off, lead) \o CopyFrom(b.mem, 0, k - lead)

AfterRead(b, n) ==
    LET k == ReadCount(b, n)
    IN  IF b.len = 0 THEN b
        ELSE [b EXCEPT !.len = @ - k,
                       !.off = IF k = b.len THEN 0 ELSE (@ + k) % b.cap]

(* OffsetOfByte: where c lies in the data. In a wrapped buffer the first   *)
(* search starts at the data length instead of the data offset.            *)
OffsetOfByte(b, c) ==
    LET trail == b.cap - b.off
        first == MemChr(b.mem, b.len, trail, c)
        then  == MemChr(b.mem, 0, b.len - trail, c)
    IN  IF b.len = 0 THEN {-1}
        ELSE IF Wrapped(b)
        THEN {i - b.off : i \in first \ {-1}}
               \cup (IF -1 \in first
                     THEN {IF i = -1 THEN -1 ELSE i + trail : i \in then} ELSE {})
        ELSE {IF i = -1 THEN -1 ELSE i - b.off : i \in MemChr(b.mem, b.off, b.len, c)}

(* Mutant: everything is read, whatever lies behind the terminator.        *)
UtilByteCountsWholeBuffer(b, max, c) == {Smaller(max, b.len)}

(* ReadDataUtilByte: how many bytes it may read when it looks for c.       *)
UtilByteCounts(b, max, c) ==
    {Smaller(max, IF i < 0 THEN b.len ELSE i + 1) : i \in OffsetOfByte(b, c)}
===========================================================================
