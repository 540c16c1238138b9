------------------------- MODULE ItchReceiveProofs -------------------------
(***************************************************************************)
(* Proofs about the ring buffer of the ITCH socket and about the receive   *)
(* path on top of it, for every block size, set of messages and size of a  *)
(* read.                                                                   *)
(***************************************************************************)
EXTENDS ItchReceive, SequenceTheorems, TLAPS

(* Arithmetic modulo m. *)

LEMMA ModQuotient ==
  ASSUME NEW a \in Int, NEW m \in Nat \ {0}
  PROVE  a % m \in 0 .. m - 1 /\ \E q \in Int : a = m * q + (a % m)
<1>1. a = m * (a \div m) + (a % m)
  OBVIOUS
<1>2. a % m \in 0 .. m - 1
  OBVIOUS
<1>3. a \div m \in Int
  OBVIOUS
<1> QED BY <1>1, <1>2, <1>3

LEMMA ModUnique ==
  ASSUME NEW m \in Nat \ {0}, NEW q \in Int, NEW r \in 0 .. m - 1
  PROVE  (m * q + r) % m = r
OBVIOUS

---------------------------------------------------------------------------
(* Front and back of a sequence *)

LEMMA FrontLemma ==
  ASSUME NEW S, NEW c, NEW k \in Nat, \A i \in 1 .. k : c[i] \in S
  PROVE  /\ SubSeq(c, 1, k) \in Seq(S) /\ Len(SubSeq(c, 1, k)) = k
         /\ \A i \in 1 .. k : SubSeq(c, 1, k)[i] = c[i]
<1>1. 1 \in Int /\ k \in Int
  OBVIOUS
<1>2. /\ SubSeq(c, 1, k) \in Seq(S)
      /\ Len(SubSeq(c, 1, k)) = IF 1 <= k THEN k - 1 + 1 ELSE 0
      /\ \A i \in 1 .. k - 1 + 1 : SubSeq(c, 1, k)[i] = c[1 + i - 1]
  BY <1>1, SubSeqProperties
<1>3. k - 1 + 1 = k /\ (1 <= k \/ k = 0) /\ \A i \in 1 .. k : 1 + i - 1 = i
  OBVIOUS
<1> QED BY <1>2, <1>3

LEMMA BackLemma ==
  ASSUME NEW S, NEW c, NEW n \in Nat, NEW k \in Nat, k <= n, \A i \in 1 .. n : c[i] \in S
  PROVE  /\ SubSeq(c, k + 1, n) \in Seq(S) /\ Len(SubSeq(c, k + 1, n)) = n - k
         /\ \A i \in 1 .. n - k : SubSeq(c, k + 1, n)[i] = c[k + i]
<1>1. k + 1 \in Int /\ n \in Int /\ \A i \in k + 1 .. n : c[i] \in S
  OBVIOUS
<1>2. /\ SubSeq(c, k + 1, n) \in Seq(S)
      /\ Len(SubSeq(c, k + 1, n)) = IF k + 1 <= n THEN n - (k + 1) + 1 ELSE 0
      /\ \A i \in 1 .. n - (k + 1) + 1 : SubSeq(c, k + 1, n)[i] = c[k + 1 + i - 1]
  BY ONLY <1>1, SubSeqProperties
<1>3. /\ n - (k + 1) + 1 = n - k /\ (k + 1 <= n \/ n - k = 0)
      /\ \A i \in 1 .. n - k : k + 1 + i - 1 = k + i
  OBVIOUS
<1> QED BY <1>2, <1>3

LEMMA ConcatParts ==
  ASSUME NEW S, NEW t \in Seq(S), NEW u \in Seq(S)
  PROVE  /\ SubSeq(t \o u, 1, Len(t)) = t
         /\ SubSeq(t \o u, Len(t) + 1, Len(t \o u)) = u
<1>1. PICK a \in Nat, b \in Nat : a = Len(t) /\ b = Len(u)
  BY LenProperties
<1>2. PICK c : c = t \o u
  OBVIOUS
<1>3. /\ c \in Seq(S) /\ Len(c) = a + b
      /\ \A i \in 1 .. a + b : c[i] = IF i <= a THEN t[i] ELSE u[i - a]
  <2>1. /\ c \in Seq(S) /\ Len(c) = Len(t) + Len(u)
        /\ \A i \in 1 .. Len(t) + Len(u) : c[i] = IF i <= Len(t) THEN t[i] ELSE u[i - Len(t)]
    BY <1>2, ConcatProperties
  <2> QED BY <1>1, <2>1
<1>4. \A i \in 1 .. a + b : c[i] \in S
  BY <1>3, ElementOfSeq
<1>5. SubSeq(c, 1, a) = t
  <2>0. \A i \in 1 .. a : c[i] \in S /\ c[i] = t[i]
    BY <1>1, <1>3, <1>4
  <2>1. /\ SubSeq(c, 1, a) \in Seq(S) /\ Len(SubSeq(c, 1, a)) = a
        /\ \A i \in 1 .. a : SubSeq(c, 1, a)[i] = c[i]
    BY <2>0, FrontLemma
  <2>2. /\ SubSeq(c, 1, a) \in Seq(S) /\ t \in Seq(S) /\ Len(SubSeq(c, 1, a)) = Len(t)
        /\ \A i \in 1 .. Len(SubSeq(c, 1, a)) : SubSeq(c, 1, a)[i] = t[i]
    BY <1>1, <2>0, <2>1
  <2> QED BY ONLY <2>2, SeqEqual
<1>6. SubSeq(c, a + 1, a + b) = u
  <2>0. /\ a + b \in Nat /\ a <= a + b /\ (a + b) - a = b
        /\ \A i \in 1 .. b : a + i \in 1 .. a + b /\ ~(a + i <= a) /\ (a + i) - a = i
    BY <1>1
  <2>1. /\ SubSeq(c, a + 1, a + b) \in Seq(S) /\ Len(SubSeq(c, a + 1, a + b)) = b
        /\ \A i \in 1 .. b : SubSeq(c, a + 1, a + b)[i] = c[a + i]
    BY <1>4, <2>0, BackLemma
  <2>2. \A i \in 1 .. b : c[a + i] = u[i]
    BY <1>3, <2>0
  <2>3. /\ SubSeq(c, a + 1, a + b) \in Seq(S) /\ u \in Seq(S)
        /\ Len(SubSeq(c, a + 1, a + b)) = Len(u)
        /\ \A i \in 1 .. Len(SubSeq(c, a + 1, a + b)) : SubSeq(c, a + 1, a + b)[i] = u[i]
    BY <1>1, <2>1, <2>2
  <2> QED BY ONLY <2>3, SeqEqual
<1> QED BY <1>1, <1>2, <1>3, <1>5, <1>6

LEMMA Associative ==
  \A s, t, u \in Seq(Byte) : (s \o t) \o u = s \o (t \o u)
<1> TAKE s, t, u \in Seq(Byte)
<1> QED BY ConcatAssociative

LEMMA SplitSeq ==
  ASSUME NEW S, NEW c \in Seq(S), NEW k \in 0 .. Len(c)
  PROVE  /\ SubSeq(c, 1, k) \in Seq(S) /\ SubSeq(c, k + 1, Len(c)) \in Seq(S)
         /\ SubSeq(c, 1, k) \o SubSeq(c, k + 1, Len(c)) = c
<1>1. Len(c) \in Nat /\ k \in Nat /\ k <= Len(c)
  BY LenProperties
<1>2. \A i \in 1 .. Len(c) : c[i] \in S
  BY ElementOfSeq
<1>3. \A i \in 1 .. k : c[i] \in S
  BY <1>1, <1>2
<1>4. 1 \in 1 .. Len(c) + 1 /\ k \in 1 - 1 .. Len(c) /\ Len(c) \in k .. Len(c)
  BY <1>1
<1>5. SubSeq(c, 1, k) \o SubSeq(c, k + 1, Len(c)) = SubSeq(c, 1, Len(c))
  BY <1>4, ConcatAdjacentSubSeq
<1>6. SubSeq(c, 1, k) \in Seq(S)
  BY <1>1, <1>3, FrontLemma
<1>7. SubSeq(c, k + 1, Len(c)) \in Seq(S)
  BY <1>1, <1>2, BackLemma
<1> QED BY <1>5, <1>6, <1>7, SubSeqFull

---------------------------------------------------------------------------
(* The ring buffer *)

\* The data lies inside the allocation, and starts at the head when there is
\* none.
Shape(b) ==
  /\ DOMAIN b = {"mem", "cap", "off", "len"}
  /\ b.cap \in Nat /\ b.off \in Nat /\ b.len \in Nat
  /\ b.mem \in [0 .. b.cap - 1 -> Byte \cup {Junk}]
  /\ b.len <= b.cap
  /\ IF b.len = 0 THEN b.off = 0 ELSE b.off < b.cap

\* The cell of the i-th byte.
Cell(b, i) ==
  IF b.off + i - 1 < b.cap THEN b.off + i - 1 ELSE b.off + i - 1 - b.cap

\* A buffer that has lost nothing is made of received bytes.
IsBuffer(b) == Shape(b) /\ \A i \in 1 .. b.len : b.mem[Cell(b, i)] \in Byte

LEMMA ModWrap ==
  ASSUME NEW c \in Nat \ {0}, NEW x \in Nat, x < c + c
  PROVE  x % c = IF x < c THEN x ELSE x - c
<1>1. CASE x < c
  BY <1>1, ModUnique
<1>2. CASE x >= c
  BY <1>2, ModUnique
<1> QED BY <1>1, <1>2

LEMMA RoundUpLemma ==
  ASSUME NEW n \in Nat
  PROVE  RoundUp(n) \in Nat /\ RoundUp(n) >= n
BY BlockAssumption, SMTT(30) DEF RoundUp

LEMMA CellLemma ==
  ASSUME NEW b, Shape(b), NEW i \in 1 .. b.len
  PROVE  /\ (b.off + i - 1) % b.cap = Cell(b, i)
         /\ Cell(b, i) \in 0 .. b.cap - 1
<1>1. b.cap \in Nat \ {0} /\ b.off \in Nat /\ b.off < b.cap /\ i \in Nat /\ 1 <= i /\ i <= b.cap
  BY DEF Shape
<1>2. PICK x \in Nat : x = b.off + i - 1
  BY <1>1
<1>3. x < b.cap + b.cap
  BY <1>1, <1>2
<1>4. x % b.cap = IF x < b.cap THEN x ELSE x - b.cap
  BY <1>1, <1>3, ModWrap
<1> QED BY <1>1, <1>2, <1>3, <1>4 DEF Cell

LEMMA ContentsLemma ==
  ASSUME NEW b, IsBuffer(b)
  PROVE  /\ Contents(b) \in Seq(Byte) /\ Len(Contents(b)) = b.len
         /\ \A i \in 1 .. b.len : Contents(b)[i] = b.mem[Cell(b, i)]
<1>1. \A i \in 1 .. b.len : b.mem[Cell(b, i)] \in Byte /\ (b.off + i - 1) % b.cap = Cell(b, i)
  BY CellLemma DEF IsBuffer
<1>2. Contents(b) = [i \in 1 .. b.len |-> b.mem[Cell(b, i)]]
  BY <1>1 DEF Contents
<1>3. b.len \in Nat
  BY DEF IsBuffer, Shape
<1> QED BY <1>1, <1>2, <1>3

\* Two buffers with the same bytes in their cells have the same contents.
LEMMA SameContents ==
  ASSUME NEW b, IsBuffer(b), NEW g, Shape(g), g.len = b.len,
         \A i \in 1 .. b.len : g.mem[Cell(g, i)] = b.mem[Cell(b, i)]
  PROVE  IsBuffer(g) /\ Contents(g) = Contents(b)
<1>1. IsBuffer(g)
  BY DEF IsBuffer
<1>2. /\ Contents(b) \in Seq(Byte) /\ Contents(g) \in Seq(Byte)
      /\ Len(Contents(b)) = b.len /\ Len(Contents(g)) = b.len
  BY <1>1, ContentsLemma
<1>3. \A i \in 1 .. b.len : Contents(b)[i] = b.mem[Cell(b, i)]
  BY ContentsLemma
<1>4. \A i \in 1 .. b.len : Contents(g)[i] = g.mem[Cell(g, i)]
  BY <1>1, ContentsLemma
<1>5. \A i \in 1 .. Len(Contents(g)) : Contents(g)[i] = Contents(b)[i]
  BY <1>2, <1>3, <1>4
<1>6. Contents(g) = Contents(b)
  BY ONLY <1>2, <1>5, SeqEqual
<1> QED BY <1>1, <1>6

\* realloc with copying of the wrapped part behind the old end.
LEMMA ExpandLemma ==
  ASSUME NEW b, IsBuffer(b), b.len # 0, NEW n \in Nat, b.cap - b.len < n,
         ~LosesBytes(b, n), NEW g, g = Expand(b, n)
  PROVE  /\ IsBuffer(g) /\ g.len = b.len /\ g.off = b.off
         /\ g.cap - g.len >= n /\ Contents(g) = Contents(b)
<1>0. Shape(b)
  BY DEF IsBuffer
<1>00. b.len + n \in Nat
  BY <1>0 DEF Shape
<1>1. PICK cap \in Nat : cap = RoundUp(b.len + n) /\ cap >= b.len + n
  BY <1>00, RoundUpLemma
<1>2. cap > b.cap /\ b.cap > 0 /\ b.off < b.cap
  BY <1>0, <1>1 DEF Shape
<1>3. PICK end : end = (b.off + b.len) % b.cap
  OBVIOUS
<1>4. end = IF b.off + b.len < b.cap THEN b.off + b.len ELSE b.off + b.len - b.cap
  <2>1. PICK x \in Nat : x = b.off + b.len
    BY <1>0 DEF Shape
  <2>2. x < b.cap + b.cap /\ b.cap \in Nat \ {0}
    BY <1>0, <1>2, <2>1 DEF Shape
  <2>3. x % b.cap = IF x < b.cap THEN x ELSE x - b.cap
    BY <2>2, ModWrap
  <2>4. end = x % b.cap
    BY <1>3, <2>1
  <2>5. end = IF x < b.cap THEN x ELSE x - b.cap
    BY <2>3, <2>4
  <2>6. b.off \in Nat /\ b.len \in Nat /\ b.cap \in Nat
    BY <1>0 DEF Shape
  <2> QED BY <2>1, <2>5, <2>6
<1>5. end \in Nat /\ end < b.cap
  BY <1>0, <1>2, <1>4 DEF Shape
<1>6. PICK grown : grown = Realloc(b.mem, cap)
  OBVIOUS
<1>7. /\ grown \in [0 .. cap - 1 -> Byte \cup {Junk}]
      /\ \A i \in 0 .. b.cap - 1 : grown[i] = b.mem[i]
  <2>1. b.mem \in [0 .. b.cap - 1 -> Byte \cup {Junk}] /\ b.cap \in Nat
    BY <1>0 DEF Shape
  <2>2. \A i \in 0 .. b.cap - 1 : i \in 0 .. cap - 1
    BY <1>2, <2>1
  <2>3. grown = [i \in 0 .. cap - 1 |-> IF i \in 0 .. b.cap - 1 THEN b.mem[i] ELSE Junk]
    BY <1>6, <2>1 DEF Realloc
  <2> QED BY <2>1, <2>2, <2>3
<1>8. PICK mem : mem = IF end < b.off
                       THEN LET move == Smaller(end, cap - b.cap)
                                moved == CopyTo(grown, b.cap, CopyFrom(grown, 0, move))
                            IN  CopyTo(moved, move, CopyFrom(moved, 0, end - move))
                       ELSE grown
  OBVIOUS
<1>9. g = [b EXCEPT !.cap = cap, !.mem = mem]
  BY <1>1, <1>3, <1>6, <1>8 DEF Expand
<1>10. /\ DOMAIN g = {"mem", "cap", "off", "len"} /\ g.cap = cap /\ g.mem = mem
       /\ g.off = b.off /\ g.len = b.len
  BY <1>0, <1>9 DEF Shape
<1>11. /\ mem \in [0 .. cap - 1 -> Byte \cup {Junk}]
       /\ \A i \in 0 .. b.cap - 1 : mem[i] = grown[i]
       /\ Wrapped(b) => \A i \in 0 .. end - 1 : b.cap + i < cap /\ mem[b.cap + i] = grown[i]
  <2>1. CASE ~(end < b.off)
    <3>1. mem = grown
      BY <1>8, <2>1
    <3>2. ~Wrapped(b)
      <4> SUFFICES ASSUME Wrapped(b) PROVE FALSE
        OBVIOUS
      <4>1. b.off + b.len > b.cap
        BY DEF Wrapped
      <4>2. end = b.off + b.len - b.cap
        BY <1>0, <1>2, <1>4, <4>1 DEF Shape
      <4>3. end = b.off
        BY <1>0, <1>2, <2>1, <4>2 DEF Shape
      <4> QED BY <1>0, <1>3, <4>3 DEF LosesBytes, Shape
    <3> QED BY <1>7, <3>1, <3>2
  <2>2. CASE end < b.off
    <3>1. end <= cap - b.cap
      <4>1. CASE Wrapped(b)
        BY <1>0, <1>1, <1>2, <1>3, <1>5, <4>1 DEF LosesBytes, Shape
      <4>2. CASE ~Wrapped(b)
        BY <1>0, <1>2, <1>4, <2>2, <4>2 DEF Wrapped, Shape
      <4> QED BY <4>1, <4>2
    <3>2. Smaller(end, cap - b.cap) = end
      BY <1>0, <1>2, <1>5, <3>1 DEF Smaller, Shape
    <3>3. PICK part : part = CopyFrom(grown, 0, end)
      OBVIOUS
    <3>4. /\ part \in [1 .. end -> Byte \cup {Junk}]
          /\ \A i \in 1 .. end : part[i] = grown[i - 1]
      BY <1>0, <1>2, <1>5, <1>7, <3>3 DEF CopyFrom, Shape
    <3>5. part \in Seq(Byte \cup {Junk}) /\ Len(part) = end
      BY <1>5, <3>4
    <3>6. PICK moved : moved = CopyTo(grown, b.cap, part)
      OBVIOUS
    <3>7. /\ moved \in [0 .. cap - 1 -> Byte \cup {Junk}]
          /\ \A i \in 0 .. b.cap - 1 : moved[i] = grown[i]
          /\ \A i \in 0 .. end - 1 : moved[b.cap + i] = grown[i]
      <4>1. moved = [i \in 0 .. cap - 1 |-> IF i \in b.cap .. b.cap + end - 1
                                            THEN part[i - b.cap + 1] ELSE grown[i]]
        BY <1>7, <3>5, <3>6 DEF CopyTo
      <4>2. b.cap \in Nat
        BY <1>0 DEF Shape
      <4>3. \A i \in 0 .. cap - 1 : i \in b.cap .. b.cap + end - 1 =>
              i - b.cap + 1 \in 1 .. end /\ i - b.cap \in 0 .. end - 1
        BY <1>5, <4>2
      <4>4. \A i \in 0 .. end - 1 : b.cap + i \in 0 .. cap - 1 /\ b.cap + i \in b.cap .. b.cap + end - 1
                                     /\ (b.cap + i) - b.cap + 1 = i + 1 /\ i + 1 \in 1 .. end /\ (i + 1) - 1 = i
        BY <1>2, <1>5, <3>1, <4>2
      <4>5. moved \in [0 .. cap - 1 -> Byte \cup {Junk}]
        BY <1>7, <3>4, <4>1, <4>3
      <4>6. \A i \in 0 .. b.cap - 1 : i \in 0 .. cap - 1 /\ i \notin b.cap .. b.cap + end - 1
        BY <1>2, <4>2
      <4>7. \A i \in 0 .. end - 1 : moved[b.cap + i] = grown[i]
        <5> TAKE i \in 0 .. end - 1
        <5>1. moved[b.cap + i] = part[i + 1]
          BY <4>1, <4>4
        <5>2. part[i + 1] = grown[i]
          BY <3>4, <4>4
        <5> QED BY <5>1, <5>2
      <4> QED BY <4>1, <4>5, <4>6, <4>7
    <3>8. mem = CopyTo(moved, end, CopyFrom(moved, 0, end - end))
      BY <1>8, <2>2, <3>2, <3>3, <3>6
    <3>9. CopyFrom(moved, 0, end - end) = <<>>
      BY <1>5 DEF CopyFrom
    <3>10. mem = moved
      BY <1>5, <3>7, <3>8, <3>9 DEF CopyTo
    <3>11. \A i \in 0 .. end - 1 : b.cap + i < cap
      BY <1>0, <1>5, <3>1 DEF Shape
    <3> QED BY <3>7, <3>10, <3>11
  <2> QED BY <2>1, <2>2
<1>12. Shape(g)
  BY <1>0, <1>2, <1>10, <1>11 DEF Shape
<1>13. \A i \in 1 .. b.len : g.mem[Cell(g, i)] = b.mem[Cell(b, i)]
  <2> TAKE i \in 1 .. b.len
  <2>0. PICK x \in Nat : x = b.off + i - 1
    BY <1>0 DEF Shape
  <2>00. x < b.off + b.len
    BY <1>0, <2>0 DEF Shape
  <2>1. CASE x < b.cap
    <3>1. Cell(g, i) = x /\ Cell(b, i) = x /\ x \in 0 .. b.cap - 1
      BY <1>0, <1>2, <1>10, <2>0, <2>1 DEF Cell, Shape
    <3> QED BY <1>7, <1>10, <1>11, <3>1
  <2>2. CASE x >= b.cap
    <3>1. Wrapped(b) /\ end = b.off + b.len - b.cap
      BY <1>0, <1>4, <2>00, <2>2 DEF Wrapped, Shape
    <3>11. x - b.cap \in 0 .. end - 1 /\ x = b.cap + (x - b.cap)
      BY <1>0, <1>5, <2>00, <2>2, <3>1 DEF Shape
    <3>2. PICK y \in 0 .. end - 1 : x = b.cap + y
      BY <3>11
    <3>3. b.cap + y < cap /\ mem[b.cap + y] = grown[y] /\ grown[y] = b.mem[y]
      BY <1>5, <1>7, <1>11, <3>1, <3>2, <1>0, SMTT(30) DEF Shape
    <3>4. Cell(g, i) = x /\ Cell(b, i) = y
      BY <1>0, <1>10, <2>0, <2>2, <3>2, <3>3 DEF Cell, Shape
    <3> QED BY <1>10, <3>2, <3>3, <3>4
  <2> QED BY <1>0, <2>1, <2>2 DEF Shape
<1>14. g.cap - g.len >= n
  BY <1>0, <1>1, <1>10 DEF Shape
<1> QED BY <1>10, <1>12, <1>13, <1>14, SameContents

\* The copies of WriteData behind the data, in a buffer with enough room.
Put(g, data) ==
  LET end  == (g.off + g.len) % g.cap
      lead == IF end > g.off THEN Smaller(Len(data), g.cap - end) ELSE Len(data)
  IN  [g EXCEPT !.mem = CopyTo(CopyTo(@, end, SubSeq(data, 1, lead)), 0,
                               SubSeq(data, lead + 1, Len(data))),
                !.len = @ + Len(data)]

LEMMA PutLemma ==
  ASSUME NEW b, IsBuffer(b), b.len # 0, NEW data \in Seq(Byte), data # <<>>,
         Len(data) <= b.cap - b.len, NEW g, g = Put(b, data)
  PROVE  IsBuffer(g) /\ Contents(g) = Contents(b) \o data
<1>0. Shape(b)
  BY DEF IsBuffer
<1>1. PICK n \in Nat \ {0} : n = Len(data)
  BY EmptySeq, LenProperties
<1>01. b.off \in Nat /\ b.len \in Nat /\ b.cap \in Nat /\ b.off < b.cap /\ n + b.len <= b.cap
  BY <1>0, <1>1 DEF Shape
<1>02. b.mem \in [0 .. b.cap - 1 -> Byte \cup {Junk}]
  BY <1>0 DEF Shape
<1>03. \A i \in 1 .. n : data[i] \in Byte
  BY <1>1, ElementOfSeq
<1>2. PICK end : end = (b.off + b.len) % b.cap
  OBVIOUS
<1>3. end = IF b.off + b.len < b.cap THEN b.off + b.len ELSE b.off + b.len - b.cap
  <2>1. PICK x \in Nat : x = b.off + b.len
    BY <1>01
  <2>2. x < b.cap + b.cap /\ b.cap \in Nat \ {0}
    BY <1>01, <2>1
  <2>3. x % b.cap = IF x < b.cap THEN x ELSE x - b.cap
    BY <2>2, ModWrap
  <2>4. end = x % b.cap
    BY <1>2, <2>1
  <2>5. end = IF x < b.cap THEN x ELSE x - b.cap
    BY <2>3, <2>4
  <2> QED BY <1>01, <2>1, <2>5
<1>4. PICK lead : lead = IF end > b.off THEN Smaller(n, b.cap - end) ELSE n
  OBVIOUS
<1>5. /\ end \in Nat /\ end < b.cap /\ lead \in Nat /\ lead <= n
      /\ end + lead <= b.cap
      /\ lead < n => end + lead = b.cap /\ end = b.off + b.len /\ n - lead <= b.off
      /\ end # b.off + b.len => end + lead <= b.off
  <2>1. PICK off \in Nat, len \in Nat, cap \in Nat : off = b.off /\ len = b.len /\ cap = b.cap
    BY <1>01
  <2>2. /\ off < cap /\ n + len <= cap /\ len # 0
        /\ end = IF off + len < cap THEN off + len ELSE off + len - cap
    BY <1>01, <1>3, <2>1
  <2>3. end \in Nat /\ end < cap
    BY <2>2
  <2>4. lead = IF end > off THEN (IF n < cap - end THEN n ELSE cap - end) ELSE n
    BY <1>4, <2>1 DEF Smaller
  <2>5. /\ lead \in Nat /\ lead <= n /\ end + lead <= cap
        /\ lead < n => end + lead = cap /\ end = off + len /\ n - lead <= off
        /\ end # off + len => end + lead <= off
    BY <2>2, <2>3, <2>4
  <2> QED BY <2>1, <2>3, <2>5
<1>6. PICK d1 : d1 = SubSeq(data, 1, lead)
  OBVIOUS
<1>7. d1 \in Seq(Byte) /\ Len(d1) = lead /\ \A i \in 1 .. lead : d1[i] = data[i]
  <2>1. \A i \in 1 .. lead : data[i] \in Byte
    BY <1>03, <1>5
  <2> QED BY <1>5, <1>6, <2>1, FrontLemma
<1>8. PICK d2 : d2 = SubSeq(data, lead + 1, n)
  OBVIOUS
<1>9. /\ d2 \in Seq(Byte) /\ Len(d2) = n - lead
      /\ \A i \in 1 .. n - lead : d2[i] = data[lead + i]
  <2>1. n \in Nat /\ lead \in Nat /\ lead <= n
    BY <1>5
  <2>2. /\ SubSeq(data, lead + 1, n) \in Seq(Byte) /\ Len(SubSeq(data, lead + 1, n)) = n - lead
        /\ \A i \in 1 .. n - lead : SubSeq(data, lead + 1, n)[i] = data[lead + i]
    BY ONLY <1>03, <2>1, BackLemma
  <2> QED BY ONLY <1>8, <2>2
<1>10. PICK m1 : m1 = CopyTo(b.mem, end, d1)
  OBVIOUS
<1>11. m1 = [i \in 0 .. b.cap - 1 |-> IF i \in end .. end + lead - 1 THEN data[i - end + 1] ELSE b.mem[i]]
  <2>1. m1 = [i \in 0 .. b.cap - 1 |-> IF i \in end .. end + lead - 1 THEN d1[i - end + 1] ELSE b.mem[i]]
    BY <1>02, <1>7, <1>10 DEF CopyTo
  <2>2. \A i \in 0 .. b.cap - 1 : i \in end .. end + lead - 1 => i - end + 1 \in 1 .. lead
    BY <1>01, <1>5
  <2>3. \A i \in 0 .. b.cap - 1 : i \in end .. end + lead - 1 => d1[i - end + 1] = data[i - end + 1]
    BY <1>7, <2>2
  <2> QED BY <2>1, <2>3
<1>12. PICK m2 : m2 = CopyTo(m1, 0, d2)
  OBVIOUS
<1>13. m2 = [i \in 0 .. b.cap - 1 |-> IF i \in 0 .. (n - lead) - 1 THEN data[i + 1 + lead] ELSE m1[i]]
  <2>1. m2 = [i \in 0 .. b.cap - 1 |-> IF i \in 0 .. 0 + (n - lead) - 1 THEN d2[i - 0 + 1] ELSE m1[i]]
    BY <1>9, <1>11, <1>12 DEF CopyTo
  <2>2. 0 + (n - lead) - 1 = (n - lead) - 1
    BY <1>5
  <2>3. \A i \in 0 .. b.cap - 1 : i \in 0 .. (n - lead) - 1 =>
          i - 0 + 1 \in 1 .. n - lead /\ lead + (i - 0 + 1) = i + 1 + lead
    BY <1>01, <1>5
  <2>4. \A i \in 0 .. b.cap - 1 : i \in 0 .. (n - lead) - 1 => d2[i - 0 + 1] = data[i + 1 + lead]
    BY <1>9, <2>3
  <2> QED BY <2>1, <2>2, <2>4
<1>14. g = [b EXCEPT !.mem = m2, !.len = b.len + n]
  BY <1>1, <1>2, <1>4, <1>6, <1>8, <1>10, <1>12 DEF Put
<1>15. /\ DOMAIN g = {"mem", "cap", "off", "len"} /\ g.cap = b.cap /\ g.mem = m2
       /\ g.off = b.off /\ g.len = b.len + n
  BY <1>0, <1>14 DEF Shape
<1>16. m2 \in [0 .. b.cap - 1 -> Byte \cup {Junk}]
  <2>1. \A i \in 0 .. b.cap - 1 : i \in end .. end + lead - 1 => i - end + 1 \in 1 .. n
    BY <1>01, <1>5
  <2>2. \A i \in 0 .. b.cap - 1 : i \in 0 .. (n - lead) - 1 => i + 1 + lead \in 1 .. n
    BY <1>01, <1>5
  <2>3. m1 \in [0 .. b.cap - 1 -> Byte \cup {Junk}]
    BY <1>02, <1>03, <1>11, <2>1
  <2> QED BY <1>03, <1>13, <2>2, <2>3
<1>17. Shape(g)
  BY <1>01, <1>15, <1>16 DEF Shape
<1>171. PICK off \in Nat, len \in Nat, cap \in Nat : off = b.off /\ len = b.len /\ cap = b.cap
  BY <1>01
<1>172. /\ off < cap /\ n + len <= cap /\ len # 0
        /\ end = IF off + len < cap THEN off + len ELSE off + len - cap
        /\ end < cap /\ end + lead <= cap
        /\ lead < n => end + lead = cap /\ end = off + len /\ n - lead <= off
        /\ end # off + len => end + lead <= off
  BY <1>01, <1>3, <1>5, <1>171
<1>173. \A i \in Nat : Cell(b, i) = IF off + i - 1 < cap THEN off + i - 1 ELSE off + i - 1 - cap
  BY <1>171 DEF Cell
\* The old bytes stay, and the new ones follow.
<1>18. \A i \in 1 .. b.len : m2[Cell(b, i)] = b.mem[Cell(b, i)]
  <2> TAKE i \in 1 .. b.len
  <2>0. i \in Nat /\ 1 <= i /\ i <= len
    BY <1>01, <1>171
  <2>00. PICK x : x = Cell(b, i)
    OBVIOUS
  <2>01. x = IF off + i - 1 < cap THEN off + i - 1 ELSE off + i - 1 - cap
    BY <1>173, <2>0, <2>00
  <2>02. x \in 0 .. cap - 1 /\ x \notin end .. end + lead - 1 /\ x \notin 0 .. (n - lead) - 1
    BY <1>172, <1>5, <2>0, <2>01
  <2>1. /\ Cell(b, i) \in 0 .. b.cap - 1 /\ Cell(b, i) \notin end .. end + lead - 1
        /\ Cell(b, i) \notin 0 .. (n - lead) - 1
    BY <1>171, <2>00, <2>02
  <2> QED BY <1>11, <1>13, <2>1
<1>19. \A j \in 1 .. n : m2[Cell(b, b.len + j)] = data[j]
  <2> TAKE j \in 1 .. n
  <2>00. PICK x : x = Cell(b, b.len + j)
    OBVIOUS
  <2>0. x = IF off + (len + j) - 1 < cap THEN off + (len + j) - 1 ELSE off + (len + j) - 1 - cap
    <3>1. len + j \in Nat
      OBVIOUS
    <3>2. x = Cell(b, len + j)
      BY <1>171, <2>00
    <3> QED BY <1>173, <3>1, <3>2
  <2>1. CASE j <= lead
    <3>0. /\ x \in 0 .. cap - 1 /\ x \in end .. end + lead - 1
          /\ x \notin 0 .. (n - lead) - 1 /\ x - end + 1 = j
      BY <1>172, <1>5, <2>0, <2>1
    <3>1. Cell(b, b.len + j) \in 0 .. b.cap - 1 /\ Cell(b, b.len + j) \in end .. end + lead - 1
      BY <1>171, <2>00, <3>0
    <3>2. Cell(b, b.len + j) \notin 0 .. (n - lead) - 1
      BY <2>00, <3>0
    <3>3. Cell(b, b.len + j) - end + 1 = j
      BY <2>00, <3>0
    <3> QED BY <1>11, <1>13, <3>1, <3>2, <3>3
  <2>2. CASE j > lead
    <3>0. x \in 0 .. cap - 1 /\ x \in 0 .. (n - lead) - 1 /\ x + 1 + lead = j
      BY <1>172, <1>5, <2>0, <2>2
    <3>1. Cell(b, b.len + j) \in 0 .. b.cap - 1 /\ Cell(b, b.len + j) \in 0 .. (n - lead) - 1
      BY <1>171, <2>00, <3>0
    <3>2. Cell(b, b.len + j) + 1 + lead = j
      BY <2>00, <3>0
    <3> QED BY <1>13, <3>1, <3>2
  <2> QED BY <1>5, <2>1, <2>2
<1>20. \A i \in 1 .. b.len + n : Cell(g, i) = Cell(b, i)
  BY <1>15 DEF Cell
<1>21. \A i \in 1 .. b.len + n : i \in 1 .. b.len \/ (i - b.len \in 1 .. n /\ b.len + (i - b.len) = i)
  BY <1>01
<1>22. \A i \in 1 .. b.len + n : m2[Cell(b, i)] = IF i <= b.len THEN b.mem[Cell(b, i)] ELSE data[i - b.len]
  <2> TAKE i \in 1 .. b.len + n
  <2>1. CASE i \in 1 .. b.len
    BY <1>18, <2>1
  <2>2. CASE ~(i <= b.len)
    BY <1>01, <1>19, <1>21, <2>2
  <2> QED BY <1>01, <2>1, <2>2
<1>23. IsBuffer(g)
  <2>1. \A i \in 1 .. b.len + n : m2[Cell(b, i)] \in Byte
    <3> TAKE i \in 1 .. b.len + n
    <3>1. CASE i <= b.len
      BY <1>01, <1>22, <3>1 DEF IsBuffer
    <3>2. CASE ~(i <= b.len)
      <4>1. m2[Cell(b, i)] = data[i - b.len]
        BY <1>22, <3>2
      <4>2. i - b.len \in 1 .. n
        BY <1>01, <1>21, <3>2
      <4> QED BY <1>03, <4>1, <4>2
    <3> QED BY <3>1, <3>2
  <2> QED BY <1>15, <1>17, <1>20, <2>1 DEF IsBuffer
<1>24. /\ Contents(g) \in Seq(Byte) /\ Len(Contents(g)) = b.len + n
       /\ \A i \in 1 .. b.len + n : Contents(g)[i] = m2[Cell(b, i)]
  BY <1>15, <1>20, <1>23, ContentsLemma
<1>25. /\ Contents(b) \in Seq(Byte) /\ Len(Contents(b)) = b.len
       /\ \A i \in 1 .. b.len : Contents(b)[i] = b.mem[Cell(b, i)]
  BY ContentsLemma
<1>26. /\ Contents(b) \o data \in Seq(Byte) /\ Len(Contents(b) \o data) = b.len + n
       /\ \A i \in 1 .. b.len + n : (Contents(b) \o data)[i] =
            IF i <= b.len THEN Contents(b)[i] ELSE data[i - b.len]
  <2>1. /\ Contents(b) \o data \in Seq(Byte) /\ Len(Contents(b) \o data) = Len(Contents(b)) + Len(data)
        /\ \A i \in 1 .. Len(Contents(b)) + Len(data) : (Contents(b) \o data)[i] =
             IF i <= Len(Contents(b)) THEN Contents(b)[i] ELSE data[i - Len(Contents(b))]
    BY <1>25, ConcatProperties
  <2> QED BY <1>1, <1>25, <2>1
<1>27. \A i \in 1 .. b.len + n : Contents(g)[i] = (Contents(b) \o data)[i]
  BY <1>01, <1>22, <1>24, <1>25, <1>26, SMTT(30)
<1>28. Contents(g) = Contents(b) \o data
  BY ONLY <1>24, <1>26, <1>27, SeqEqual
<1> QED BY <1>23, <1>28

\* Data into an empty buffer.
LEMMA FreshLemma ==
  ASSUME NEW b, IsBuffer(b), b.len = 0, NEW data \in Seq(Byte), data # <<>>,
         NEW g, g = WriteFresh(b, data)
  PROVE  IsBuffer(g) /\ Contents(g) = Contents(b) \o data
<1>0. Shape(b)
  BY DEF IsBuffer
<1>1. PICK n \in Nat \ {0} : n = Len(data)
  BY EmptySeq, LenProperties
<1>2. \A i \in 1 .. n : data[i] \in Byte
  BY <1>1, ElementOfSeq
<1>3. PICK cap : cap = IF RoundUp(n) > b.cap THEN RoundUp(n) ELSE b.cap
  OBVIOUS
<1>4. cap \in Nat /\ n <= cap
  <2>1. RoundUp(n) \in Nat /\ RoundUp(n) >= n /\ b.cap \in Nat
    BY <1>0, RoundUpLemma DEF Shape
  <2> QED BY <1>3, <2>1
<1>5. PICK m1 : m1 = Realloc(b.mem, cap)
  OBVIOUS
<1>6. m1 \in [0 .. cap - 1 -> Byte \cup {Junk}]
  BY <1>0, <1>5 DEF Shape, Realloc
<1>7. PICK m2 : m2 = CopyTo(m1, 0, data)
  OBVIOUS
<1>8. m2 = [i \in 0 .. cap - 1 |-> IF i \in 0 .. 0 + n - 1 THEN data[i - 0 + 1] ELSE m1[i]]
  BY <1>1, <1>6, <1>7 DEF CopyTo
<1>9. \A i \in 0 .. cap - 1 : i \in 0 .. 0 + n - 1 => i - 0 + 1 \in 1 .. n
  BY <1>4
<1>10. m2 \in [0 .. cap - 1 -> Byte \cup {Junk}]
  BY <1>2, <1>6, <1>8, <1>9
<1>11. \A i \in 1 .. n : i - 1 \in 0 .. cap - 1 /\ i - 1 \in 0 .. 0 + n - 1 /\ (i - 1) - 0 + 1 = i
  BY <1>4
<1>12. \A i \in 1 .. n : m2[i - 1] = data[i]
  BY <1>8, <1>11
<1>13. g = [b EXCEPT !.mem = m2, !.cap = cap, !.len = n]
  BY <1>1, <1>3, <1>5, <1>7 DEF WriteFresh
<1>14. /\ DOMAIN g = {"mem", "cap", "off", "len"} /\ g.cap = cap /\ g.mem = m2
       /\ g.off = 0 /\ g.len = n
  BY <1>0, <1>13 DEF Shape
<1>15. Shape(g)
  BY <1>4, <1>10, <1>14 DEF Shape
<1>16. \A i \in 1 .. n : Cell(g, i) = i - 1
  BY <1>4, <1>14 DEF Cell
<1>17. IsBuffer(g)
  BY <1>2, <1>12, <1>14, <1>15, <1>16 DEF IsBuffer
<1>18. /\ Contents(g) \in Seq(Byte) /\ Len(Contents(g)) = Len(data)
       /\ \A i \in 1 .. Len(Contents(g)) : Contents(g)[i] = data[i]
  <2>1. /\ Contents(g) \in Seq(Byte) /\ Len(Contents(g)) = n
        /\ \A i \in 1 .. n : Contents(g)[i] = m2[Cell(g, i)]
    BY <1>14, <1>17, ContentsLemma
  <2>2. \A i \in 1 .. n : Contents(g)[i] = data[i]
    BY <1>12, <1>16, <2>1, SMTT(30)
  <2> QED BY <1>1, <2>1, <2>2
<1>19. Contents(g) = data
  BY ONLY <1>18, SeqEqual, data \in Seq(Byte)
<1>20. Contents(b) = <<>>
  BY ContentsLemma, EmptySeq
<1> QED BY <1>17, <1>19, <1>20, ConcatEmptySeq

\* WriteData appends the data, unless it is one of the writes that lose bytes.
LEMMA WriteLemma ==
  ASSUME NEW b, IsBuffer(b), NEW data \in Seq(Byte), data # <<>>,
         ~LosesBytes(b, Len(data)), NEW g, g = WriteData(b, data)
  PROVE  IsBuffer(g) /\ Contents(g) = Contents(b) \o data
<1>1. CASE b.len = 0
  BY <1>1, FreshLemma DEF WriteData
<1>2. CASE b.len # 0
  <2>1. PICK h : h = IF b.cap - b.len < Len(data) THEN Expand(b, Len(data)) ELSE b
    OBVIOUS
  <2>2. g = Put(h, data)
    BY <1>2, <2>1 DEF WriteData, WriteBehind, Put
  <2>3. Len(data) \in Nat /\ b.cap \in Nat /\ b.len \in Nat
    BY LenProperties DEF IsBuffer, Shape
  <2>4. /\ IsBuffer(h) /\ h.len = b.len /\ Contents(h) = Contents(b)
        /\ Len(data) <= h.cap - h.len
    <3>1. CASE b.cap - b.len < Len(data)
      <4>1. /\ IsBuffer(h) /\ h.len = b.len /\ Contents(h) = Contents(b)
            /\ h.cap - h.len >= Len(data)
        BY <1>2, <2>1, <2>3, <3>1, ExpandLemma
      <4>2. h.cap \in Nat /\ h.len \in Nat
        BY <4>1 DEF IsBuffer, Shape
      <4> QED BY <2>3, <4>1, <4>2
    <3>2. CASE ~(b.cap - b.len < Len(data))
      BY <2>1, <2>3, <3>2
    <3> QED BY <3>1, <3>2
  <2>5. IsBuffer(g) /\ Contents(g) = Contents(h) \o data
    BY <1>2, <2>2, <2>4, PutLemma
  <2> QED BY <2>4, <2>5
<1> QED BY <1>1, <1>2

\* ReadData takes the front of the contents and leaves the rest.
LEMMA ReadLemma ==
  ASSUME NEW b, IsBuffer(b), NEW n \in Nat, NEW g, g = AfterRead(b, n)
  PROVE  /\ IsBuffer(g) /\ ReadCount(b, n) \in 0 .. b.len
         /\ ReadBytes(b, n) = SubSeq(Contents(b), 1, ReadCount(b, n))
         /\ Contents(g) = SubSeq(Contents(b), ReadCount(b, n) + 1, b.len)
         /\ g.len = b.len - ReadCount(b, n)
         /\ ~Wrapped(b) => ~Wrapped(g)
<1>0. Shape(b)
  BY DEF IsBuffer
<1>1. PICK off \in Nat, len \in Nat, cap \in Nat : off = b.off /\ len = b.len /\ cap = b.cap
  BY <1>0 DEF Shape
<1>2. len <= cap /\ IF len = 0 THEN off = 0 ELSE off < cap
  BY <1>0, <1>1 DEF Shape
<1>3. PICK k : k = ReadCount(b, n)
  OBVIOUS
<1>4. k \in 0 .. len /\ k \in Nat
  BY <1>1, <1>3 DEF ReadCount, Smaller
<1>5. PICK c : c = Contents(b)
  OBVIOUS
<1>6. /\ c \in Seq(Byte) /\ Len(c) = len /\ \A i \in 1 .. len : c[i] = b.mem[Cell(b, i)]
      /\ \A i \in 1 .. len : c[i] \in Byte
  BY <1>1, <1>5, ContentsLemma, ElementOfSeq
<1>7. \A i \in 1 .. len : Cell(b, i) = IF off + i - 1 < cap THEN off + i - 1 ELSE off + i - 1 - cap
  BY <1>1 DEF Cell
<1>8. ReadBytes(b, n) = SubSeq(c, 1, k)
  <2>1. PICK lead : lead = Smaller(k, cap - off)
    OBVIOUS
  <2>2. lead \in Nat /\ lead <= k /\ k - lead \in Nat /\ off + lead <= cap
        /\ (k - lead > 0 => off + lead = cap)
    BY <1>2, <1>4, <2>1 DEF Smaller
  <2>3. PICK d1 : d1 = CopyFrom(b.mem, off, lead)
    OBVIOUS
  <2>4. PICK d2 : d2 = CopyFrom(b.mem, 0, k - lead)
    OBVIOUS
  <2>5. d1 = [i \in 1 .. lead |-> c[i]]
    <3>1. \A i \in 1 .. lead : i \in 1 .. len /\ off + i - 1 < cap
      BY <1>4, <2>2
    <3>2. \A i \in 1 .. lead : Cell(b, i) = off + i - 1
      BY <1>7, <3>1
    <3>3. \A i \in 1 .. lead : b.mem[off + i - 1] = c[i]
      BY <1>6, <3>1, <3>2
    <3> QED BY <2>3, <3>3 DEF CopyFrom
  <2>6. d2 = [i \in 1 .. k - lead |-> c[lead + i]]
    <3>1. \A i \in 1 .. k - lead : /\ lead + i \in 1 .. len
                                   /\ off + (lead + i) - 1 = cap + i - 1
                                   /\ off + (lead + i) - 1 - cap = 0 + i - 1
      BY <1>4, <2>2
    <3>2. \A i \in 1 .. k - lead : Cell(b, lead + i) = 0 + i - 1
      <4> TAKE i \in 1 .. k - lead
      <4>1. Cell(b, lead + i) = IF off + (lead + i) - 1 < cap THEN off + (lead + i) - 1 ELSE off + (lead + i) - 1 - cap
        BY <1>7, <3>1
      <4> QED BY <2>2, <3>1, <4>1
    <3>3. \A i \in 1 .. k - lead : b.mem[0 + i - 1] = c[lead + i]
      BY <1>6, <3>1, <3>2
    <3> QED BY <2>4, <3>3 DEF CopyFrom
  <2>7. d1 \in Seq(Byte) /\ Len(d1) = lead
    <3>1. \A i \in 1 .. lead : c[i] \in Byte
      BY <1>4, <1>6, <2>2
    <3> QED BY <2>2, <2>5, <3>1
  <2>8. d2 \in Seq(Byte) /\ Len(d2) = k - lead
    <3>1. \A i \in 1 .. k - lead : lead + i \in 1 .. len
      BY <1>4, <2>2
    <3>2. \A i \in 1 .. k - lead : c[lead + i] \in Byte
      BY <1>6, <3>1
    <3> QED BY <2>2, <2>6, <3>2
  <2>9. /\ d1 \o d2 \in Seq(Byte) /\ Len(d1 \o d2) = lead + (k - lead)
        /\ \A i \in 1 .. lead + (k - lead) : (d1 \o d2)[i] = IF i <= lead THEN d1[i] ELSE d2[i - lead]
    <3>1. /\ d1 \o d2 \in Seq(Byte) /\ Len(d1 \o d2) = Len(d1) + Len(d2)
          /\ \A i \in 1 .. Len(d1) + Len(d2) : (d1 \o d2)[i] =
               IF i <= Len(d1) THEN d1[i] ELSE d2[i - Len(d1)]
      BY <2>7, <2>8, ConcatProperties
    <3> QED BY <2>7, <2>8, <3>1
  <2>10. lead + (k - lead) = k
    BY <1>4, <2>2
  <2>11. \A i \in 1 .. k : (d1 \o d2)[i] = c[i]
    <3> TAKE i \in 1 .. k
    <3>1. CASE i <= lead
      BY <1>4, <2>2, <2>5, <2>9, <2>10, <3>1
    <3>2. CASE ~(i <= lead)
      <4>1. i - lead \in 1 .. k - lead /\ lead + (i - lead) = i
        BY <1>4, <2>2, <3>2
      <4>2. d2[i - lead] = c[i]
        BY <2>6, <4>1
      <4> QED BY <2>9, <2>10, <3>2, <4>2
    <3> QED BY <3>1, <3>2
  <2>12. \A i \in 1 .. k : c[i] \in Byte
    BY <1>4, <1>6
  <2>13. /\ SubSeq(c, 1, k) \in Seq(Byte) /\ Len(SubSeq(c, 1, k)) = k
         /\ \A i \in 1 .. k : SubSeq(c, 1, k)[i] = c[i]
    BY <1>4, <2>12, FrontLemma
  <2>14. d1 \o d2 = SubSeq(c, 1, k)
    <3>1. /\ d1 \o d2 \in Seq(Byte) /\ SubSeq(c, 1, k) \in Seq(Byte)
          /\ Len(d1 \o d2) = Len(SubSeq(c, 1, k))
          /\ \A i \in 1 .. Len(d1 \o d2) : (d1 \o d2)[i] = SubSeq(c, 1, k)[i]
      BY <2>9, <2>10, <2>11, <2>13
    <3> QED BY ONLY <3>1, SeqEqual
  <2>15. ReadBytes(b, n) = d1 \o d2
    BY <1>1, <1>3, <2>1, <2>3, <2>4 DEF ReadBytes
  <2> QED BY <2>14, <2>15
<1>9. /\ SubSeq(c, k + 1, len) \in Seq(Byte) /\ Len(SubSeq(c, k + 1, len)) = len - k
      /\ \A i \in 1 .. len - k : SubSeq(c, k + 1, len)[i] = c[k + i]
  BY <1>4, <1>6, BackLemma
<1>10. CASE len = 0
  <2>1. g = b /\ k = 0
    BY <1>1, <1>4, <1>10 DEF AfterRead
  <2>2. c = <<>>
    BY <1>6, <1>10, EmptySeq
  <2>3. Len(SubSeq(c, k + 1, len)) = 0
    BY <1>9, <1>10, <2>1
  <2>4. SubSeq(c, k + 1, len) = <<>>
    BY <1>9, <2>3, EmptySeq
  <2>5. g.len = b.len - k
    <3>1. len = len - k
      BY <1>10, <2>1
    <3> QED BY <1>1, <2>1, <3>1
  <2>6. Contents(g) = SubSeq(Contents(b), k + 1, b.len)
    BY <1>1, <1>5, <2>1, <2>2, <2>4
  <2> QED BY <1>1, <1>3, <1>4, <1>5, <1>8, <2>1, <2>5, <2>6
<1>11. CASE len # 0
  <2>1. PICK at : at = IF k = len THEN 0 ELSE (off + k) % cap
    OBVIOUS
  <2>2. at = IF k = len THEN 0 ELSE IF off + k < cap THEN off + k ELSE off + k - cap
    <3>1. PICK x \in Nat : x = off + k
      BY <1>4
    <3>2. x < cap + cap /\ cap \in Nat \ {0}
      BY <1>2, <1>4, <1>11, <3>1
    <3>3. x % cap = IF x < cap THEN x ELSE x - cap
      BY <3>2, ModWrap
    <3>4. at = IF k = len THEN 0 ELSE x % cap
      BY <2>1, <3>1
    <3>5. at = IF k = len THEN 0 ELSE IF x < cap THEN x ELSE x - cap
      BY <3>3, <3>4
    <3> QED BY <1>4, <3>1, <3>5
  <2>3. g = [b EXCEPT !.len = len - k, !.off = at]
    BY <1>1, <1>3, <1>11, <2>1 DEF AfterRead
  <2>4. /\ DOMAIN g = {"mem", "cap", "off", "len"} /\ g.cap = cap /\ g.mem = b.mem
        /\ g.off = at /\ g.len = len - k
    BY <1>0, <1>1, <2>3 DEF Shape
  <2>5. at \in Nat /\ at < cap /\ (k = len => at = 0) /\ len - k \in Nat /\ len - k <= cap /\ (len - k = 0 => at = 0)
    BY <1>2, <1>4, <1>11, <2>2
  <2>6. Shape(g)
    BY <1>0, <1>1, <2>4, <2>5 DEF Shape
  <2>7. \A i \in 1 .. len - k : k + i \in 1 .. len /\ Cell(g, i) = Cell(b, k + i)
    <3> TAKE i \in 1 .. len - k
    <3>1. k + i \in 1 .. len /\ k # len
      BY <1>4
    <3>2. Cell(b, k + i) = IF off + (k + i) - 1 < cap THEN off + (k + i) - 1 ELSE off + (k + i) - 1 - cap
      BY <1>7, <3>1
    <3>3. Cell(g, i) = IF at + i - 1 < cap THEN at + i - 1 ELSE at + i - 1 - cap
      BY <2>4 DEF Cell
    <3>4. (IF off + (k + i) - 1 < cap THEN off + (k + i) - 1 ELSE off + (k + i) - 1 - cap)
          = (IF at + i - 1 < cap THEN at + i - 1 ELSE at + i - 1 - cap)
      BY <1>2, <1>4, <2>2, <2>5, <3>1
    <3> QED BY <3>1, <3>2, <3>3, <3>4
  <2>8. \A i \in 1 .. len - k : g.mem[Cell(g, i)] = c[k + i] /\ c[k + i] \in Byte
    BY <1>6, <2>4, <2>7
  <2>9. IsBuffer(g)
    BY <2>4, <2>6, <2>8 DEF IsBuffer
  <2>10. /\ Contents(g) \in Seq(Byte) /\ Len(Contents(g)) = len - k
         /\ \A i \in 1 .. len - k : Contents(g)[i] = c[k + i]
    BY <2>4, <2>8, <2>9, ContentsLemma
  <2>11. Contents(g) = SubSeq(c, k + 1, len)
    <3>1. /\ Contents(g) \in Seq(Byte) /\ SubSeq(c, k + 1, len) \in Seq(Byte)
          /\ Len(Contents(g)) = Len(SubSeq(c, k + 1, len))
          /\ \A i \in 1 .. Len(Contents(g)) : Contents(g)[i] = SubSeq(c, k + 1, len)[i]
      BY <1>9, <2>10
    <3> QED BY ONLY <3>1, SeqEqual
  <2>12. ~Wrapped(b) => ~Wrapped(g)
    <3>1. off + len <= cap => at + (len - k) <= cap
      BY <1>2, <1>4, <2>2, <2>5
    <3>2. /\ Wrapped(b) <=> off + len > cap
          /\ Wrapped(g) <=> at + (len - k) > cap
      BY <1>1, <2>4 DEF Wrapped
    <3> QED BY <2>5, <3>1, <3>2
  <2> QED BY <1>1, <1>3, <1>4, <1>5, <1>8, <2>4, <2>9, <2>11, <2>12
<1> QED BY <1>10, <1>11

\* What a search may find is a place.
LEMMA SearchType ==
  ASSUME NEW b, Shape(b), NEW c, NEW i \in OffsetOfByte(b, c)
  PROVE  i \in Int
<1>1. b.cap \in Int /\ b.off \in Int /\ b.len \in Int
  BY DEF Shape
<1>2. \A at \in Int, n \in Int : MemChr(b.mem, at, n, c) \subseteq Int
  BY DEF MemChr
<1>3. /\ MemChr(b.mem, b.len, b.cap - b.off, c) \subseteq Int
      /\ MemChr(b.mem, 0, b.len - (b.cap - b.off), c) \subseteq Int
      /\ MemChr(b.mem, b.off, b.len, c) \subseteq Int
  <2>1. b.cap - b.off \in Int /\ b.len - (b.cap - b.off) \in Int
    BY <1>1
  <2> QED BY <1>1, <1>2, <2>1
<1> QED BY <1>1, <1>3 DEF OffsetOfByte

\* In data that does not wrap the search is exact.
LEMMA SearchLemma ==
  ASSUME NEW b, IsBuffer(b), ~Wrapped(b), NEW c, NEW x \in OffsetOfByte(b, c)
  PROVE  \/ x = -1 /\ \A i \in 1 .. b.len : Contents(b)[i] # c
         \/ /\ x \in 0 .. b.len - 1 /\ Contents(b)[x + 1] = c
            /\ \A i \in 1 .. x : Contents(b)[i] # c
<1>0. Shape(b)
  BY DEF IsBuffer
<1>1. PICK off \in Nat, len \in Nat, cap \in Nat : off = b.off /\ len = b.len /\ cap = b.cap
  BY <1>0 DEF Shape
<1>2. off + len <= cap
  BY <1>1 DEF Wrapped
<1>3. CASE len = 0
  <2>1. x = -1
    BY <1>1, <1>3 DEF OffsetOfByte
  <2>2. \A i \in 1 .. b.len : FALSE
    BY <1>1, <1>3
  <2> QED BY <2>1, <2>2
<1>4. CASE len # 0
  <2>1. PICK y \in MemChr(b.mem, off, len, c) : x = IF y = -1 THEN -1 ELSE y - off
    BY <1>1, <1>4 DEF OffsetOfByte
  <2>2. b.mem \in [0 .. cap - 1 -> Byte \cup {Junk}]
    BY <1>0, <1>1 DEF Shape
  <2>3. \A i \in 1 .. len : /\ Contents(b)[i] = b.mem[off + i - 1] /\ b.mem[off + i - 1] \in Byte
                            /\ off + i - 1 \in 0 .. cap - 1
    <3>1. \A i \in 1 .. len : off + i - 1 < cap /\ off + i - 1 \in 0 .. cap - 1
      BY <1>2
    <3>2. \A i \in 1 .. len : Cell(b, i) = off + i - 1
      BY <1>1, <3>1 DEF Cell
    <3>3. \A i \in 1 .. len : b.mem[Cell(b, i)] \in Byte
      BY <1>1 DEF IsBuffer
    <3>4. \A i \in 1 .. len : Contents(b)[i] = b.mem[Cell(b, i)]
      BY <1>1, ContentsLemma
    <3> QED BY <3>1, <3>2, <3>3, <3>4
  <2>4. \A z \in off .. off + len - 1 : z \in 0 .. cap - 1 /\ b.mem[z] # Junk
    <3> TAKE z \in off .. off + len - 1
    <3>1. z - off + 1 \in 1 .. len /\ off + (z - off + 1) - 1 = z
      OBVIOUS
    <3>2. b.mem[z] \in Byte /\ z \in 0 .. cap - 1
      BY <2>3, <3>1
    <3> QED BY <3>2, ReceiveAssumption
  <2>5. PICK must : must = {z \in off .. off + len - 1 : b.mem[z] = c}
    OBVIOUS
  <2>6. MemChr(b.mem, off, len, c) =
          {z \in must : \A j \in must : z <= j} \cup (IF must = {} THEN {-1} ELSE {})
    <3>1. DOMAIN b.mem = 0 .. cap - 1
      BY <2>2
    <3>2. {z \in (off .. off + len - 1) \cap DOMAIN b.mem : b.mem[z] = c} = must
      BY <2>4, <2>5, <3>1
    <3>3. {z \in off .. off + len - 1 : z \notin DOMAIN b.mem \/ b.mem[z] = Junk} = {}
      BY <2>4, <3>1
    <3> QED BY <3>2, <3>3 DEF MemChr
  <2>7. CASE must = {}
    <3>1. x = -1
      BY <2>1, <2>6, <2>7
    <3>2. \A i \in 1 .. len : off + i - 1 \in off .. off + len - 1
      OBVIOUS
    <3>3. \A i \in 1 .. len : b.mem[off + i - 1] # c
      BY <2>5, <2>7, <3>2
    <3> QED BY <1>1, <2>3, <3>1, <3>3
  <2>8. CASE must # {}
    <3>1. y \in must /\ \A j \in must : y <= j
      BY <2>1, <2>6, <2>8
    <3>2. y \in off .. off + len - 1 /\ b.mem[y] = c
      BY <2>5, <3>1
    <3>3. x = y - off /\ x \in 0 .. len - 1 /\ x + 1 \in 1 .. len /\ off + (x + 1) - 1 = y
      BY <2>1, <3>2
    <3>4. Contents(b)[x + 1] = c
      BY <2>3, <3>2, <3>3
    <3>5. \A i \in 1 .. x : i \in 1 .. len /\ off + i - 1 \in off .. off + len - 1 /\ ~(y <= off + i - 1)
      BY <3>2, <3>3
    <3>6. \A i \in 1 .. x : b.mem[off + i - 1] # c
      BY <2>5, <3>1, <3>5
    <3>7. \A i \in 1 .. x : Contents(b)[i] # c
      BY <2>3, <3>5, <3>6
    <3> QED BY <1>1, <3>3, <3>4, <3>7
  <2> QED BY <2>7, <2>8
<1> QED BY <1>3, <1>4

---------------------------------------------------------------------------
(* The invariant of the receive path *)

\* A sequence of whole messages: what lies between two terminators is one.
Framed(s) ==
  /\ s # <<>> => s[Len(s)] = TLF
  /\ \A i, j \in DOMAIN s :
       /\ i <= j /\ (i = 1 \/ s[i - 1] = TLF)
       /\ s[j] = TLF /\ \A k \in i .. j - 1 : s[k] # TLF
       => SubSeq(s, i, j) \in Messages

HasNo(s, c) == \A i \in DOMAIN s : s[i] # c

\* As long as nothing is lost the bytes are where they should be.
BytesInv ==
  /\ IsBuffer(buf) /\ (Wrapped(buf) => wrapped)
  /\ wire \in Seq(Byte) /\ str \in Seq(Byte) /\ stream \in Seq(Byte)
  /\ (str \o Contents(buf)) \o wire = stream

\* As long as nothing has wrapped the packet that is being read is the front
\* of a message, and its end is in the buffer.
FrameInv ==
  /\ Framed(stream) /\ packet \in Messages \cup {<<>>}
  /\ HasNo(str, TLF)
  /\ pc \in {"packet", "block"} =>
       Len(str) % MaxRead = 0 /\ \E i \in 1 .. buf.len : Contents(buf)[i] = TLF
  /\ pc = "block" => str # <<>>
  /\ pc \notin {"packet", "block"} => str = <<>>

RInv ==
  /\ lossy => wrapped
  /\ ~lossy => BytesInv
  /\ ~wrapped => FrameInv

---------------------------------------------------------------------------
(* Framing *)

LEMMA MessageLemma ==
  ASSUME NEW m \in Messages
  PROVE  /\ m \in Seq(Byte) /\ Len(m) \in Nat \ {0} /\ DOMAIN m = 1 .. Len(m)
         /\ \A i \in 1 .. Len(m) : m[i] = TLF <=> i = Len(m)
<1>1. m \in Seq(Byte) /\ m # <<>>
  BY ReceiveAssumption
<1>2. Len(m) \in Nat \ {0} /\ DOMAIN m = 1 .. Len(m)
  BY <1>1, EmptySeq, LenProperties
<1> QED BY <1>1, <1>2, ReceiveAssumption

\* A message behind whole messages.
LEMMA FramedAppend ==
  ASSUME NEW s \in Seq(Byte), Framed(s), NEW m \in Messages
  PROVE  Framed(s \o m)
<1>1. PICK a \in Nat : a = Len(s)
  BY LenProperties
<1>2. PICK b \in Nat \ {0} : b = Len(m)
  BY MessageLemma
<1>3. m \in Seq(Byte) /\ \A i \in 1 .. b : m[i] = TLF <=> i = b
  BY <1>2, MessageLemma
<1>4. PICK t : t = s \o m
  OBVIOUS
<1>5. /\ t \in Seq(Byte) /\ Len(t) = a + b /\ DOMAIN t = 1 .. a + b
      /\ \A i \in 1 .. a + b : t[i] = IF i <= a THEN s[i] ELSE m[i - a]
  <2>1. /\ t \in Seq(Byte) /\ Len(t) = Len(s) + Len(m)
        /\ \A i \in 1 .. Len(s) + Len(m) : t[i] = IF i <= Len(s) THEN s[i] ELSE m[i - Len(s)]
    BY <1>3, <1>4, ConcatProperties
  <2>2. DOMAIN t = 1 .. Len(t)
    BY <2>1, LenProperties
  <2> QED BY <1>1, <1>2, <2>1, <2>2
<1>6. DOMAIN s = 1 .. a
  BY <1>1, LenProperties
<1>7. a # 0 => s[a] = TLF
  <2>1. a # 0 => s # <<>>
    BY <1>1, EmptySeq
  <2> QED BY <1>1, <2>1 DEF Framed
<1>8. t[Len(t)] = TLF
  <2>1. t[a + b] = m[(a + b) - a] /\ (a + b) - a = b
    BY <1>5
  <2> QED BY <1>3, <1>5, <2>1
<1>9. ASSUME NEW i \in 1 .. a + b, NEW j \in 1 .. a + b, i <= j, i = 1 \/ t[i - 1] = TLF,
             t[j] = TLF, \A k \in i .. j - 1 : t[k] # TLF
      PROVE  SubSeq(t, i, j) \in Messages
  <2>1. CASE j <= a
    <3>1. i \in 1 .. a /\ j \in 1 .. a
      BY <1>9, <2>1
    <3>2. \A k \in 1 .. a : t[k] = s[k]
      BY <1>5
    <3>3. s[j] = TLF
      BY <1>9, <3>1, <3>2
    <3>4. \A k \in i .. j - 1 : s[k] # TLF
      <4>1. \A k \in i .. j - 1 : k \in 1 .. a
        BY <3>1
      <4> QED BY <1>9, <3>2, <4>1
    <3>5. i = 1 \/ s[i - 1] = TLF
      <4>1. i # 1 => i - 1 \in 1 .. a
        BY <3>1
      <4> QED BY <1>9, <3>2, <4>1
    <3>6. SubSeq(s, i, j) \in Messages
      BY <1>6, <1>9, <3>1, <3>3, <3>4, <3>5 DEF Framed
    <3>7. SubSeq(s \o m, i, j) = SubSeq(s, i, j)
      BY <1>1, <1>3, <3>1, SubSeqOfConcat1
    <3> QED BY <1>4, <3>6, <3>7
  <2>2. CASE ~(j <= a)
    <3>1. j = a + b
      <4>1. j - a \in 1 .. b /\ t[j] = m[j - a]
        BY <1>5, <2>2
      <4>2. j - a = b
        BY <1>3, <1>9, <4>1
      <4> QED BY <1>9, <4>2
    <3>2. i > a
      <4> SUFFICES ASSUME i <= a PROVE FALSE
        OBVIOUS
      <4>1. a \in i .. j - 1 /\ a \in 1 .. a + b /\ a # 0 /\ a <= a
        BY <3>1
      <4>2. t[a] = s[a]
        BY <1>5, <4>1
      <4> QED BY <1>7, <1>9, <4>1, <4>2
    <3>3. i = a + 1
      <4> SUFFICES ASSUME i # a + 1 PROVE FALSE
        OBVIOUS
      <4>1. i - 1 \in 1 .. a + b /\ ~(i - 1 <= a) /\ (i - 1) - a \in 1 .. b /\ (i - 1) - a # b /\ i # 1
        BY <3>2
      <4>2. t[i - 1] = m[(i - 1) - a]
        BY <1>5, <4>1
      <4> QED BY <1>3, <1>9, <4>1, <4>2
    <3>4. SubSeq(s \o m, Len(s) + 1, Len(s \o m)) = m
      BY <1>3, ConcatParts
    <3> QED BY <1>1, <1>4, <1>5, <3>1, <3>3, <3>4
  <2> QED BY <2>1, <2>2
<1> QED BY <1>4, <1>5, <1>8, <1>9 DEF Framed

\* Whole messages without the first of them.
LEMMA FramedDrop ==
  ASSUME NEW s \in Seq(Byte), Framed(s), NEW n \in 1 .. Len(s), s[n] = TLF
  PROVE  Framed(SubSeq(s, n + 1, Len(s)))
<1>1. PICK a \in Nat : a = Len(s)
  BY LenProperties
<1>2. PICK r : r = SubSeq(s, n + 1, a)
  OBVIOUS
<1>3. /\ r \in Seq(Byte) /\ Len(r) = a - n /\ DOMAIN r = 1 .. a - n
      /\ \A i \in 1 .. a - n : r[i] = s[n + i]
  <2>1. \A i \in 1 .. a : s[i] \in Byte
    BY <1>1, ElementOfSeq
  <2>2. n \in Nat /\ n <= a
    BY <1>1
  <2>3. /\ r \in Seq(Byte) /\ Len(r) = a - n /\ \A i \in 1 .. a - n : r[i] = s[n + i]
    BY <1>2, <2>1, <2>2, BackLemma
  <2> QED BY <2>3, LenProperties
<1>4. DOMAIN s = 1 .. a
  BY <1>1, LenProperties
<1>5. r # <<>> => r[Len(r)] = TLF
  <2> SUFFICES ASSUME r # <<>> PROVE r[Len(r)] = TLF
    OBVIOUS
  <2>1. a - n \in 1 .. a - n /\ n + (a - n) = a
    BY <1>1, <1>3, EmptySeq
  <2>2. s # <<>>
    BY <1>1, EmptySeq
  <2>3. s[a] = TLF
    BY <1>1, <2>2 DEF Framed
  <2> QED BY <1>3, <2>1, <2>3
<1>6. ASSUME NEW i \in 1 .. a - n, NEW j \in 1 .. a - n, i <= j, i = 1 \/ r[i - 1] = TLF,
             r[j] = TLF, \A k \in i .. j - 1 : r[k] # TLF
      PROVE  SubSeq(r, i, j) \in Messages
  <2>1. n + i \in 1 .. a /\ n + j \in 1 .. a /\ n + i <= n + j
    BY <1>1, <1>6
  <2>2. s[n + j] = TLF
    BY <1>3, <1>6
  <2>3. s[(n + i) - 1] = TLF
    <3>1. CASE i = 1
      BY <1>1, <3>1
    <3>2. CASE i # 1
      <4>1. i - 1 \in 1 .. a - n /\ n + (i - 1) = (n + i) - 1
        BY <1>1, <3>2
      <4> QED BY <1>3, <1>6, <3>2, <4>1
    <3> QED BY <3>1, <3>2
  <2>4. \A k \in n + i .. (n + j) - 1 : s[k] # TLF
    <3> TAKE k \in n + i .. (n + j) - 1
    <3>1. k - n \in i .. j - 1 /\ k - n \in 1 .. a - n /\ n + (k - n) = k
      BY <1>1, <1>6
    <3> QED BY <1>3, <1>6, <3>1
  <2>5. SubSeq(s, n + i, n + j) \in Messages
    BY <1>4, <2>1, <2>2, <2>3, <2>4 DEF Framed
  <2>6. SubSeq(SubSeq(s, n + 1, a), i, j) = SubSeq(s, (n + 1) + i - 1, (n + 1) + j - 1)
    <3>1. /\ n + 1 \in 1 .. Len(s) /\ a \in 1 .. Len(s)
          /\ i \in 1 .. a - (n + 1) + 1 /\ j \in 1 .. a - (n + 1) + 1
      BY <1>1
    <3> QED BY ONLY <3>1, s \in Seq(Byte), SubSeqOfSubSeq
  <2>7. (n + 1) + i - 1 = n + i /\ (n + 1) + j - 1 = n + j
    BY <1>1
  <2> QED BY <1>2, <2>5, <2>6, <2>7
<1> QED BY <1>1, <1>2, <1>3, <1>5, <1>6 DEF Framed

LEMMA FirstFrame ==
  ASSUME NEW s \in Seq(Byte), Framed(s), NEW n \in 1 .. Len(s), s[n] = TLF,
         \A k \in 1 .. n - 1 : s[k] # TLF
  PROVE  SubSeq(s, 1, n) \in Messages
<1>1. DOMAIN s = 1 .. Len(s) /\ Len(s) \in Nat
  BY LenProperties
<1>2. 1 \in 1 .. Len(s) /\ 1 <= n
  BY <1>1
<1> QED BY <1>1, <1>2 DEF Framed

---------------------------------------------------------------------------
(* The invariant holds *)

LEMMA InitInv == Init => RInv
<1> SUFFICES ASSUME Init PROVE RInv
  OBVIOUS
<1> USE DEF Init
<1>1. Shape(buf) /\ buf.len = 0
  BY DEF NewBuffer, Shape
<1>2. IsBuffer(buf) /\ ~Wrapped(buf)
  BY <1>1 DEF IsBuffer, Wrapped, NewBuffer
<1>3. Contents(buf) = <<>>
  BY <1>1, <1>2, ContentsLemma, EmptySeq
<1>4. <<>> \in Seq(Byte) /\ <<>> \o <<>> = <<>>
  BY EmptySeq, ConcatEmptySeq
<1>5. BytesInv
  BY <1>2, <1>3, <1>4 DEF BytesInv
<1>6. Framed(<<>>) /\ HasNo(<<>>, TLF)
  BY DEF Framed, HasNo
<1>7. FrameInv
  BY <1>6 DEF FrameInv
<1> QED BY <1>5, <1>7 DEF RInv

\* A step that leaves the bytes alone keeps what is said of them.
LEMMA BytesSame ==
  ASSUME RInv, UNCHANGED <<recvVars, wire, stream>>
  PROVE  /\ (lossy' => wrapped') /\ (~lossy' => BytesInv')
         /\ pc' = pc => RInv'
BY DEF RInv, BytesInv, FrameInv, recvVars

LEMMA VenueSendsInv ==
  ASSUME RInv, NEW m \in Messages, VenueSends(m)
  PROVE  RInv'
<1> USE DEF VenueSends, recvVars
<1>1. m \in Seq(Byte)
  BY MessageLemma
<1>2. ~lossy => BytesInv'
  <2> SUFFICES ASSUME ~lossy PROVE BytesInv'
    OBVIOUS
  <2>1. BytesInv /\ IsBuffer(buf)
    BY DEF RInv, BytesInv
  <2>2. PICK c \in Seq(Byte) : c = Contents(buf)
    BY <2>1, ContentsLemma
  <2>3. str \o c \in Seq(Byte) /\ wire \in Seq(Byte) /\ stream \in Seq(Byte)
    BY <2>1, <2>2, ConcatProperties DEF BytesInv
  <2>4. wire \o m \in Seq(Byte) /\ stream \o m \in Seq(Byte)
    BY <1>1, <2>3, ConcatProperties
  <2>5. (str \o c) \o (wire \o m) = ((str \o c) \o wire) \o m
    BY <1>1, <2>3, Associative, ZenonT(30)
  <2> QED BY <2>1, <2>2, <2>4, <2>5 DEF BytesInv
<1>3. ~wrapped => FrameInv'
  <2> SUFFICES ASSUME ~wrapped PROVE FrameInv'
    OBVIOUS
  <2>1. FrameInv /\ stream \in Seq(Byte)
    BY DEF RInv, BytesInv
  <2>2. Framed(stream')
    BY <2>1, FramedAppend DEF FrameInv
  <2> QED BY <2>1, <2>2 DEF FrameInv
<1> QED BY <1>2, <1>3 DEF RInv

\* Bytes that are received go behind the ones in the buffer.
LEMMA ReceivedInv ==
  ASSUME RInv, NEW k, Received(k)
  PROVE  /\ (lossy' => wrapped') /\ (~lossy' => BytesInv')
         /\ ~wrapped' => /\ ~wrapped /\ k \in 1 .. Len(wire) /\ IsBuffer(buf')
                         /\ buf'.len = buf.len + k
                         /\ \A i \in 1 .. buf.len : Contents(buf')[i] = Contents(buf)[i]
                         /\ \A i \in 1 .. k : Contents(buf')[buf.len + i] = wire[i]
<1> USE DEF Received
<1>1. lossy' => wrapped'
  <2>1. CASE lossy
    BY <2>1 DEF RInv
  <2>2. CASE ~lossy /\ LosesBytes(buf, k)
    BY <2>2 DEF RInv, BytesInv, LosesBytes
  <2> QED BY <2>1, <2>2
<1> SUFFICES ASSUME ~lossy'
             PROVE  /\ BytesInv'
                    /\ ~wrapped' => /\ ~wrapped /\ k \in 1 .. Len(wire) /\ IsBuffer(buf')
                                    /\ buf'.len = buf.len + k
                                    /\ \A i \in 1 .. buf.len : Contents(buf')[i] = Contents(buf)[i]
                                    /\ \A i \in 1 .. k : Contents(buf')[buf.len + i] = wire[i]
  BY <1>1
<1>2. ~lossy /\ ~LosesBytes(buf, k) /\ BytesInv
  BY DEF RInv
<1>3. IsBuffer(buf) /\ wire \in Seq(Byte) /\ str \in Seq(Byte) /\ stream \in Seq(Byte)
  BY <1>2 DEF BytesInv
<1>4. k \in 1 .. Len(wire) /\ k \in Nat /\ k # 0 /\ k \in 0 .. Len(wire)
  BY <1>3, LenProperties, ReceiveAssumption DEF Smaller
<1>5. PICK data : data = SubSeq(wire, 1, k)
  OBVIOUS
<1>6. PICK rest : rest = SubSeq(wire, k + 1, Len(wire))
  OBVIOUS
<1>7. data \in Seq(Byte) /\ rest \in Seq(Byte) /\ data \o rest = wire
  BY <1>3, <1>4, <1>5, <1>6, SplitSeq
<1>8. Len(data) = k /\ \A i \in 1 .. k : data[i] = wire[i]
  <2>1. \A i \in 1 .. k : wire[i] \in Byte
    BY <1>3, <1>4, ElementOfSeq, LenProperties
  <2> QED BY <1>4, <1>5, <2>1, FrontLemma
<1>9. data # <<>>
  BY <1>4, <1>8, EmptySeq
<1>10. buf' = WriteData(buf, data)
  BY <1>5
<1>11. IsBuffer(buf') /\ Contents(buf') = Contents(buf) \o data
  BY <1>2, <1>3, <1>7, <1>8, <1>9, <1>10, WriteLemma
<1>12. PICK c \in Seq(Byte) : c = Contents(buf)
  BY <1>3, ContentsLemma
<1>13. (str \o (c \o data)) \o rest = (str \o c) \o wire
  <2>1. str \o c \in Seq(Byte)
    BY <1>3, ConcatProperties
  <2>2. str \o (c \o data) = (str \o c) \o data
    BY <1>3, <1>7, Associative, ZenonT(30)
  <2>3. ((str \o c) \o data) \o rest = (str \o c) \o (data \o rest)
    BY <1>7, <2>1, Associative, Zenon
  <2> QED BY <1>7, <2>2, <2>3
<1>14. BytesInv'
  BY <1>2, <1>3, <1>6, <1>7, <1>11, <1>12, <1>13 DEF BytesInv
<1>15. ASSUME ~wrapped'
       PROVE  /\ ~wrapped /\ buf'.len = buf.len + k
              /\ \A i \in 1 .. buf.len : Contents(buf')[i] = Contents(buf)[i]
              /\ \A i \in 1 .. k : Contents(buf')[buf.len + i] = wire[i]
  <2>1. Len(c) = buf.len /\ Len(Contents(buf')) = buf'.len /\ buf.len \in Nat
    BY <1>3, <1>11, <1>12, ContentsLemma DEF IsBuffer, Shape
  <2>2. /\ Len(c \o data) = Len(c) + Len(data)
        /\ \A i \in 1 .. Len(c) + Len(data) : (c \o data)[i] =
             IF i <= Len(c) THEN c[i] ELSE data[i - Len(c)]
    BY <1>7, ConcatProperties
  <2>3. buf'.len = buf.len + k
    BY <1>8, <1>11, <1>12, <2>1, <2>2
  <2>4. \A i \in 1 .. buf.len + k : Contents(buf')[i] = IF i <= buf.len THEN c[i] ELSE data[i - buf.len]
    BY <1>8, <1>11, <1>12, <2>1, <2>2
  <2>5. \A i \in 1 .. buf.len : i \in 1 .. buf.len + k /\ i <= buf.len
    BY <1>4, <2>1
  <2>6. \A i \in 1 .. k : buf.len + i \in 1 .. buf.len + k /\ ~(buf.len + i <= buf.len)
                          /\ (buf.len + i) - buf.len = i
    BY <1>4, <2>1
  <2>7. \A i \in 1 .. buf.len : Contents(buf')[i] = Contents(buf)[i]
    BY <1>12, <2>4, <2>5
  <2>8. \A i \in 1 .. k : Contents(buf')[buf.len + i] = wire[i]
    BY <1>8, <2>4, <2>6
  <2> QED BY <1>15, <2>3, <2>7, <2>8
<1> QED BY <1>4, <1>11, <1>14, <1>15

\* It adds to what is known of the packet being read.
LEMMA ReceivedFrame ==
  ASSUME RInv, NEW k, Received(k),
         pc' \in {"packet", "block"} =>
           pc \in {"packet", "block"} \/ \E i \in 1 .. k : wire[i] = TLF,
         pc' = "block" => pc = "block",
         pc \in {"packet", "block"} => pc' \in {"packet", "block"}
  PROVE  RInv'
<1>1. /\ (lossy' => wrapped') /\ (~lossy' => BytesInv')
      /\ ~wrapped' => /\ ~wrapped /\ k \in 1 .. Len(wire) /\ IsBuffer(buf')
                      /\ buf'.len = buf.len + k
                      /\ \A i \in 1 .. buf.len : Contents(buf')[i] = Contents(buf)[i]
                      /\ \A i \in 1 .. k : Contents(buf')[buf.len + i] = wire[i]
  BY ReceivedInv
<1> SUFFICES ASSUME ~wrapped' PROVE FrameInv'
  BY <1>1 DEF RInv
<1>2. ~wrapped /\ ~lossy /\ FrameInv /\ BytesInv
  BY <1>1 DEF RInv
<1>3. stream' = stream /\ packet' = packet /\ str' = str
  BY DEF Received
<1>4. buf.len \in Nat /\ k \in Nat /\ k <= Len(wire) /\ Len(wire) \in Nat
  BY <1>1, <1>2, LenProperties DEF BytesInv, IsBuffer, Shape
<1>5. pc' \in {"packet", "block"} => \E i \in 1 .. buf'.len : Contents(buf')[i] = TLF
  <2> SUFFICES ASSUME pc' \in {"packet", "block"}
               PROVE  \E i \in 1 .. buf'.len : Contents(buf')[i] = TLF
    OBVIOUS
  <2>1. CASE pc \in {"packet", "block"}
    <3>1. PICK i \in 1 .. buf.len : Contents(buf)[i] = TLF
      BY <1>2, <2>1 DEF FrameInv
    <3>2. i \in 1 .. buf.len + k
      BY <1>4
    <3> QED BY <1>1, <3>1, <3>2
  <2>2. CASE \E i \in 1 .. k : wire[i] = TLF
    <3>1. PICK i \in 1 .. k : wire[i] = TLF
      BY <2>2
    <3>2. buf.len + i \in 1 .. buf.len + k
      BY <1>4
    <3> QED BY <1>1, <3>1, <3>2
  <2> QED BY <2>1, <2>2
<1>6. Len(str) % MaxRead = 0
  <2>1. CASE pc \in {"packet", "block"}
    BY <1>2, <2>1 DEF FrameInv
  <2>2. CASE pc \notin {"packet", "block"}
    <3>1. Len(str) = 0
      BY <1>2, <2>2, EmptySeq DEF FrameInv
    <3> QED BY <3>1, ReceiveAssumption, ModWrap
  <2> QED BY <2>1, <2>2
<1> QED BY <1>2, <1>3, <1>5, <1>6 DEF FrameInv

\* A turn of RecvPacket's loop.
LEMMA RecvPacketInv ==
  ASSUME RInv, RecvPacket
  PROVE  RInv'
<1>0. wrapped' = wrapped /\ lossy' = lossy /\ wire' = wire /\ pc = "packet"
  BY DEF RecvPacket
<1>1. CASE lossy
  BY <1>0, <1>1 DEF RInv
<1>2. CASE ~lossy
  <2>1. PICK n \in UtilByteCounts(buf, MaxRead, TLF) :
          LET got  == ReadBytes(buf, n)
              text == str \o got
              done == got # <<>> /\ got[Len(got)] = TLF
          IN  /\ buf' = AfterRead(buf, n)
              /\ str' = IF done THEN <<>> ELSE text
              /\ packet' = IF done THEN text ELSE packet
              /\ stream' = IF done THEN SubSeq(stream, Len(text) + 1, Len(stream)) ELSE stream
              /\ pc' = IF done THEN "idle" ELSE "block"
    BY DEF RecvPacket
  <2>2. BytesInv /\ IsBuffer(buf) /\ Shape(buf) /\ buf.len \in Nat
    BY <1>2 DEF RInv, BytesInv, IsBuffer, Shape
  <2>3. /\ wire \in Seq(Byte) /\ str \in Seq(Byte) /\ stream \in Seq(Byte)
        /\ (str \o Contents(buf)) \o wire = stream
    BY <2>2 DEF BytesInv
  <2>4. PICK x \in OffsetOfByte(buf, TLF) : n = Smaller(MaxRead, IF x < 0 THEN buf.len ELSE x + 1)
    BY <2>1 DEF UtilByteCounts
  <2>5. x \in Int /\ MaxRead \in Nat \ {0}
    BY <2>2, SearchType, ReceiveAssumption
  <2>6. n \in Nat
    BY <2>2, <2>4, <2>5 DEF Smaller
  <2>7. PICK k : k = ReadCount(buf, n)
    OBVIOUS
  <2>8. PICK c \in Seq(Byte) : c = Contents(buf) /\ Len(c) = buf.len
    BY <2>2, ContentsLemma
  <2>9. PICK got : got = ReadBytes(buf, n)
    OBVIOUS
  <2>10. PICK rest : rest = Contents(buf')
    OBVIOUS
  <2>11. /\ IsBuffer(buf') /\ k \in 0 .. Len(c) /\ got = SubSeq(c, 1, k)
         /\ rest = SubSeq(c, k + 1, Len(c)) /\ buf'.len = buf.len - k
         /\ ~Wrapped(buf) => ~Wrapped(buf')
    BY <2>1, <2>2, <2>6, <2>7, <2>8, <2>9, <2>10, ReadLemma, ZenonT(60)
  <2>12. got \in Seq(Byte) /\ rest \in Seq(Byte) /\ got \o rest = c
    BY <2>11, SplitSeq
  <2>13. PICK text : text = str \o got
    OBVIOUS
  <2>14. text \in Seq(Byte) /\ rest \o wire \in Seq(Byte)
    BY <2>3, <2>12, <2>13, ConcatProperties
  <2>15. (text \o rest) \o wire = stream /\ text \o (rest \o wire) = stream
    <3>0. str \in Seq(Byte) /\ got \in Seq(Byte) /\ rest \in Seq(Byte) /\ wire \in Seq(Byte)
          /\ text \in Seq(Byte)
      BY <2>3, <2>12, <2>14
    <3>1. (str \o got) \o rest = str \o (got \o rest)
      BY ONLY <3>0, Associative, ZenonT(30)
    <3>2. (text \o rest) \o wire = text \o (rest \o wire)
      BY ONLY <3>0, Associative, Zenon
    <3> QED BY <2>3, <2>8, <2>12, <2>13, <3>1, <3>2
  <2>16. PICK done : done = (got # <<>> /\ got[Len(got)] = TLF)
    OBVIOUS
  <2>17. done => stream' = rest \o wire /\ text = SubSeq(stream, 1, Len(text))
    <3>1. /\ SubSeq(text \o (rest \o wire), 1, Len(text)) = text
          /\ SubSeq(text \o (rest \o wire), Len(text) + 1, Len(text \o (rest \o wire))) = rest \o wire
      BY <2>14, ConcatParts
    <3>2. done => stream' = SubSeq(stream, Len(text) + 1, Len(stream))
      BY <2>1, <2>9, <2>13, <2>16
    <3> QED BY <2>15, <3>1, <3>2
  <2>18. BytesInv'
    <3>1. Wrapped(buf') => wrapped'
      BY <1>0, <2>2, <2>11 DEF BytesInv
    <3>2. CASE done
      <4>1. str' = <<>>
        BY <2>1, <2>9, <2>16, <3>2
      <4>2. (<<>> \o rest) \o wire = rest \o wire /\ <<>> \in Seq(Byte)
        BY <2>12, ConcatEmptySeq, EmptySeq
      <4> QED BY <1>0, <2>3, <2>10, <2>11, <2>14, <2>17, <3>1, <3>2, <4>1, <4>2 DEF BytesInv
    <3>3. CASE ~done
      <4>1. str' = text /\ stream' = stream
        BY <2>1, <2>9, <2>13, <2>16, <3>3
      <4> QED BY <1>0, <2>3, <2>10, <2>11, <2>14, <2>15, <3>1, <4>1 DEF BytesInv
    <3> QED BY <3>2, <3>3
  <2>19. ASSUME ~wrapped PROVE FrameInv'
    <3>0. FrameInv /\ ~Wrapped(buf)
      BY <1>2, <2>2, <2>19 DEF RInv, BytesInv
    <3>1. PICK t \in 1 .. buf.len : c[t] = TLF
      BY <1>0, <2>8, <3>0 DEF FrameInv
    \* The terminator is at x + 1.
    <3>2. x \in 0 .. buf.len - 1 /\ c[x + 1] = TLF /\ \A i \in 1 .. x : c[i] # TLF
      BY <2>2, <2>8, <3>0, <3>1, SearchLemma
    <3>3. k = n /\ k \in 1 .. x + 1 /\ k \in Nat /\ (k = x + 1 \/ k = MaxRead)
      BY <2>2, <2>4, <2>5, <2>7, <3>2 DEF ReadCount, Smaller
    <3>4. Len(got) = k /\ \A i \in 1 .. k : got[i] = c[i]
      <4>1. \A i \in 1 .. k : c[i] \in Byte
        BY <2>8, <2>11, <3>3, ElementOfSeq
      <4> QED BY <2>11, <3>3, <4>1, FrontLemma
    <3>5. PICK a \in Nat : a = Len(str)
      BY <2>3, LenProperties
    <3>6. /\ Len(text) = a + k
          /\ \A i \in 1 .. a + k : text[i] = IF i <= a THEN str[i] ELSE got[i - a]
      <4>1. /\ Len(text) = Len(str) + Len(got)
            /\ \A i \in 1 .. Len(str) + Len(got) : text[i] =
                 IF i <= Len(str) THEN str[i] ELSE got[i - Len(str)]
        BY <2>3, <2>12, <2>13, ConcatProperties
      <4> QED BY <3>4, <3>5, <4>1
    <3>7. \A i \in 1 .. a : str[i] # TLF
      BY <2>3, <3>0, <3>5, LenProperties DEF FrameInv, HasNo
    <3>8. \A i \in 1 .. (a + k) - 1 : text[i] # TLF
      <4> TAKE i \in 1 .. (a + k) - 1
      <4>1. CASE i <= a
        BY <3>3, <3>6, <3>7, <4>1
      <4>2. CASE ~(i <= a)
        <5>1. i \in 1 .. a + k /\ i - a \in 1 .. k /\ i - a \in 1 .. x
          BY <3>2, <3>3, <4>2
        <5>2. text[i] = c[i - a]
          BY <3>4, <3>6, <4>2, <5>1
        <5> QED BY <3>2, <5>1, <5>2
      <4> QED BY <4>1, <4>2
    <3>9. text[a + k] = c[k] /\ got[Len(got)] = c[k] /\ got # <<>>
      <4>1. a + k \in 1 .. a + k /\ ~(a + k <= a) /\ (a + k) - a = k /\ k \in 1 .. k
        BY <3>3
      <4>2. got # <<>>
        BY <3>3, <3>4, EmptySeq
      <4> QED BY <3>4, <3>6, <4>1, <4>2
    <3>10. done <=> c[k] = TLF
      BY <2>16, <3>9
    <3>11. CASE done
      <4>1. PICK m \in Nat : m = a + k
        BY <3>3
      <4>2. m \in 1 .. Len(stream) /\ \A i \in 1 .. m : stream[i] = text[i]
        <5>1. /\ Len(text \o (rest \o wire)) = Len(text) + Len(rest \o wire)
              /\ \A i \in 1 .. Len(text) + Len(rest \o wire) : (text \o (rest \o wire))[i] =
                   IF i <= Len(text) THEN text[i] ELSE (rest \o wire)[i - Len(text)]
          BY <2>14, ConcatProperties
        <5>2. Len(rest \o wire) \in Nat /\ Len(text) = m
          BY <2>14, <3>6, <4>1, LenProperties
        <5>3. m \in 1 .. Len(stream)
          BY <2>15, <3>3, <4>1, <5>1, <5>2
        <5>4. \A i \in 1 .. m : i \in 1 .. Len(text) + Len(rest \o wire) /\ i <= Len(text)
          BY <5>2
        <5> QED BY <2>15, <5>1, <5>3, <5>4
      <4>3. stream[m] = TLF /\ \A i \in 1 .. m - 1 : stream[i] # TLF
        <5>1. m \in 1 .. m /\ \A i \in 1 .. m - 1 : i \in 1 .. m
          BY <3>3, <4>1
        <5> QED BY <3>8, <3>9, <3>10, <3>11, <4>1, <4>2, <5>1
      <4>4. Framed(stream)
        BY <3>0 DEF FrameInv
      <4>5. text \in Messages
        BY <2>3, <2>17, <3>6, <3>11, <4>1, <4>2, <4>3, <4>4, FirstFrame
      <4>6. Framed(SubSeq(stream, m + 1, Len(stream)))
        BY <2>3, <4>2, <4>3, <4>4, FramedDrop
      <4>7. /\ str' = <<>> /\ packet' = text /\ pc' = "idle"
            /\ stream' = SubSeq(stream, m + 1, Len(stream))
        BY <2>1, <2>9, <2>13, <2>16, <3>6, <3>11, <4>1
      <4>8. HasNo(<<>>, TLF)
        BY DEF HasNo
      <4> QED BY <4>5, <4>6, <4>7, <4>8 DEF FrameInv
    <3>12. CASE ~done
      <4>1. str' = text /\ packet' = packet /\ stream' = stream /\ pc' = "block"
        BY <2>1, <2>9, <2>13, <2>16, <3>12
      <4>2. k # x + 1 /\ k = MaxRead
        BY <3>2, <3>3, <3>10, <3>12
      <4>3. Len(text) % MaxRead = 0
        <5>1. a % MaxRead = 0
          BY <1>0, <3>0, <3>5 DEF FrameInv
        <5>2. PICK q \in Int : a = MaxRead * q + (a % MaxRead)
          BY ONLY <2>5, a \in Int, ModQuotient
        <5>3. MaxRead * (q + 1) = MaxRead * q + MaxRead /\ MaxRead * q \in Int
          BY <2>5
        <5>4. a + k = MaxRead * (q + 1) + 0
          BY <2>5, <4>2, <5>1, <5>2, <5>3
        <5>5. (MaxRead * (q + 1) + 0) % MaxRead = 0
          <6>1. q + 1 \in Int /\ 0 \in 0 .. MaxRead - 1
            BY <2>5
          <6> QED BY ONLY <2>5, <6>1, ModUnique
        <5> QED BY <3>6, <5>4, <5>5
      <4>4. HasNo(text, TLF)
        <5>1. DOMAIN text = 1 .. a + k
          BY <2>14, <3>6, LenProperties
        <5>2. text[a + k] # TLF
          BY <3>9, <3>10, <3>12
        <5>3. \A i \in 1 .. a + k : i = a + k \/ i \in 1 .. (a + k) - 1
          BY <3>3
        <5> QED BY <3>8, <5>1, <5>2, <5>3 DEF HasNo
      <4>5. \E i \in 1 .. buf'.len : rest[i] = TLF
        <5>1. (x + 1) - k \in 1 .. buf.len - k /\ k + ((x + 1) - k) = x + 1 /\ k <= buf.len
          BY <2>2, <3>2, <3>3, <4>2
        <5>2. \A i \in 1 .. buf.len : c[i] \in Byte
          BY <2>8, ElementOfSeq
        <5>3. \A i \in 1 .. buf.len - k : rest[i] = c[k + i]
          BY <2>2, <2>8, <2>11, <3>3, <5>1, <5>2, BackLemma
        <5>4. rest[(x + 1) - k] = TLF
          BY <3>2, <5>1, <5>3
        <5> QED BY <2>11, <5>1, <5>4
      <4>6. text # <<>>
        BY <3>3, <3>6, EmptySeq
      <4> QED BY <2>10, <3>0, <4>1, <4>3, <4>4, <4>5, <4>6 DEF FrameInv
    <3> QED BY <3>11, <3>12
  <2> QED BY <1>0, <1>2, <2>18, <2>19 DEF RInv
<1> QED BY <1>1, <1>2

\* The steps that only change where the server thread is.
LEMMA ControlInv ==
  ASSUME RInv, UNCHANGED <<recvVars, wire, stream>>,
         \/ pc \notin {"packet", "block"} /\ pc' \notin {"packet", "block"}
         \/ pc = "block" /\ pc' = "packet"
  PROVE  RInv'
<1>1. (lossy' => wrapped') /\ (~lossy' => BytesInv')
  BY BytesSame
<1>2. ~wrapped => FrameInv'
  BY DEF RInv, FrameInv, recvVars
<1> QED BY <1>1, <1>2 DEF RInv, recvVars

LEMMA RecvMessageInv ==
  ASSUME RInv, RecvMessage
  PROVE  RInv'
<1>0. UNCHANGED <<recvVars, wire, stream>> /\ pc = "idle"
  BY DEF RecvMessage
<1>1. (lossy' => wrapped') /\ (~lossy' => BytesInv')
  BY <1>0, BytesSame
<1>2. CASE pc' = "packet"
  <2> SUFFICES ASSUME ~wrapped PROVE FrameInv'
    BY <1>0, <1>1 DEF RInv, recvVars
  <2>1. FrameInv /\ BytesInv /\ ~Wrapped(buf) /\ IsBuffer(buf)
    BY DEF RInv, BytesInv
  <2>2. PICK i \in OffsetOfByte(buf, TLF) : i >= 0
    BY <1>2 DEF RecvMessage
  <2>3. buf.len \in Nat
    BY <2>1 DEF IsBuffer, Shape
  <2>4. i \in 0 .. buf.len - 1 /\ Contents(buf)[i + 1] = TLF
    BY <2>1, <2>2, SearchLemma
  <2>5. \E j \in 1 .. buf.len : Contents(buf)[j] = TLF
    BY <2>3, <2>4
  <2>6. Len(str) % MaxRead = 0
    <3>1. Len(str) = 0
      BY <1>0, <2>1, EmptySeq DEF FrameInv
    <3> QED BY <3>1, ReceiveAssumption, ModWrap
  <2> QED BY <1>0, <1>2, <2>1, <2>5, <2>6 DEF FrameInv, recvVars
<1>3. CASE pc' # "packet"
  <2>1. pc' \in {"left", "select"}
    BY <1>3 DEF RecvMessage
  <2> QED BY <1>0, <2>1, ControlInv
<1> QED BY <1>2, <1>3

LEMMA NextInv == RInv /\ [Next]_vars => RInv'
<1> SUFFICES ASSUME RInv, [Next]_vars PROVE RInv'
  OBVIOUS
<1>1. ASSUME NEW m \in Messages, VenueSends(m) PROVE RInv'
  BY <1>1, VenueSendsInv
<1>2. CASE VenueShutsDown
  BY <1>2, BytesSame DEF VenueShutsDown
<1>3. CASE Close
  BY <1>3, BytesSame DEF Close
<1>4. CASE RecvMessage
  BY <1>4, RecvMessageInv
<1>5. CASE SelectReads
  <2>1. PICK k : Received(k) /\ pc' = IF HasTLF(k) THEN "packet" ELSE "select"
    BY <1>5 DEF SelectReads
  <2> QED BY <1>5, <2>1, ReceivedFrame DEF SelectReads, HasTLF
<1>6. CASE SelectFails
  BY <1>6, ControlInv DEF SelectFails, RecvFails
<1>7. CASE SelectTimesOut
  BY <1>7, ControlInv DEF SelectTimesOut
<1>8. CASE RecvPacket
  BY <1>8, RecvPacketInv
<1>9. CASE RecvMore
  <2>1. ASSUME NEW k, Received(k) PROVE RInv'
    BY <1>9, <2>1, ReceivedFrame DEF RecvMore
  <2>2. CASE RecvFails
    BY <1>9, <2>2, ControlInv DEF RecvMore, RecvFails
  <2> QED BY <1>9, <2>1, <2>2 DEF RecvMore
<1>10. CASE UNCHANGED vars
  BY <1>10, BytesSame DEF vars, recvVars
<1> QED BY <1>1, <1>2, <1>3, <1>4, <1>5, <1>6, <1>7, <1>8, <1>9, <1>10 DEF Next, Receive

\* The ring buffer neither loses nor reorders a byte, however the data wraps
\* and however the network cuts the stream, up to the first of the expanding
\* writes of WriteData that LosesBytes names; for every block size.
THEOREM BytesStayInOrder == Spec => []BytesInOrder
<1>1. RInv => BytesInOrder
  BY DEF RInv, BytesInv, BytesInOrder
<1> QED BY <1>1, InitInv, NextInv, PTL DEF Spec

\* Until the data wraps RecvPacket hands out exactly one message, for every
\* set of messages and every size of a read.
THEOREM PacketsAreFramed == Spec => []PacketsAreMessages
<1>1. RInv => PacketsAreMessages
  BY DEF RInv, FrameInv, PacketsAreMessages
<1> QED BY <1>1, InitInv, NextInv, PTL DEF Spec

\* Until the data wraps RecvPacket waits for more bytes only when the packet
\* is longer than what it has read in whole reads.
THEOREM BlockingIsRare == Spec => []BlocksOnlyOnLongPackets
<1>1. RInv => BlocksOnlyOnLongPackets
  BY DEF RInv, FrameInv, BlocksOnlyOnLongPackets
<1> QED BY <1>1, InitInv, NextInv, PTL DEF Spec
===========================================================================
