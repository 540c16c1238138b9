-------------------------- MODULE OrderBookProofs --------------------------
(***************************************************************************)
(* Proofs about order_book.v2, for every set of ids, prices and sizes and  *)
(* every modulus: lemmas about the operations of KBook, which the proofs   *)
(* about the collector use as well, and the theorems about OrderBook.      *)
(*                                                                         *)
(* BookInv is what every operation preserves: the type of the book, the    *)
(* consistency of the index with the limits, and that no limit is empty.   *)
(* None of the three is preserved alone: remove reaches the limit through  *)
(* the index, and the index stays consistent only because remove drops the *)
(* limit exactly when its last order is gone.  The inductive invariant of  *)
(* OrderBook is BookInv under any caller, Exact under a disciplined one,   *)
(* and with both BookSums, that every limit has the total of finitely many *)
(* orders.                                                                 *)
(***************************************************************************)
EXTENDS OrderBook, FiniteSetTheorems, WellFoundedInduction, TLAPS

(* Extrema, and sums over finite sets, which change by what is added to or *)
(* taken from the set.  Induction is the argument from the least            *)
(* counterexample (LeastNat).                                              *)

LEMMA LeastNat ==
  ASSUME NEW T, T \subseteq Nat, T # {}
  PROVE  \E n \in T : \A m \in T : n <= m
<1>1. PICK n \in T : \A m \in T : <<m, n>> \notin OpToRel(<, Nat)
  BY WFMin, NatLessThanWellFounded
<1>2. \A m \in T : ~(m < n)
  <2> TAKE m \in T
  <2>1. <<m, n>> \notin OpToRel(<, Nat) /\ m \in Nat /\ n \in Nat
    BY <1>1
  <2> QED BY <2>1 DEF OpToRel
<1> QED BY <1>2

\* A set of natural numbers that holds 0 and with each number the next one
\* holds every natural number.
LEMMA NatClosed ==
  ASSUME NEW T, 0 \in T, \A n \in Nat : n \in T => n + 1 \in T
  PROVE  Nat \subseteq T
<1> SUFFICES ASSUME Nat \ T # {} PROVE FALSE
  OBVIOUS
<1>1. PICK n \in Nat \ T : \A m \in Nat \ T : n <= m
  BY LeastNat
<1>2. n - 1 \in Nat /\ n = (n - 1) + 1
  BY <1>1
<1>3. n - 1 \in T
  BY <1>1, <1>2
<1> QED BY <1>1, <1>2, <1>3

LEMMA MinLemma ==
  ASSUME NEW S, S \subseteq Int, S # {}, NEW low \in Int, \A x \in S : low <= x
  PROVE  Min(S) \in S /\ \A x \in S : Min(S) <= x
<1> DEFINE T == {x - low : x \in S}
<1>1. T \subseteq Nat /\ T # {}
  <2>1. \A x \in S : x - low \in Nat
    OBVIOUS
  <2> QED BY <2>1
<1>2. PICK n \in T : \A m \in T : n <= m
  BY <1>1, LeastNat
<1>3. PICK a \in S : n = a - low
  BY <1>2
<1>4. \A x \in S : a =< x
  <2> TAKE x \in S
  <2>1. a - low <= x - low /\ a \in Int /\ x \in Int
    BY <1>2, <1>3
  <2> QED BY <2>1
<1> QED BY <1>3, <1>4 DEF Min

LEMMA MaxLemma ==
  ASSUME NEW S, S \subseteq Int, S # {}, NEW high \in Int, \A x \in S : x <= high
  PROVE  Max(S) \in S /\ \A x \in S : x <= Max(S)
<1> DEFINE T == {high - x : x \in S}
<1>1. T \subseteq Nat /\ T # {}
  <2>1. \A x \in S : high - x \in Nat
    OBVIOUS
  <2> QED BY <2>1
<1>2. PICK n \in T : \A m \in T : n <= m
  BY <1>1, LeastNat
<1>3. PICK a \in S : n = high - a
  BY <1>2
<1>4. \A x \in S : a >= x
  <2> TAKE x \in S
  <2>1. high - a <= high - x /\ a \in Int /\ x \in Int
    BY <1>2, <1>3
  <2> QED BY <2>1
<1>5. Max(S) \in S /\ \A x \in S : Max(S) >= x
  BY <1>3, <1>4 DEF Max
<1> QED BY <1>5

-----------------------------------------------------------------------------
(* SumFunctionOnSet takes the elements one by one, in an order it chooses. *)

Pick(s) == CHOOSE x \in s : TRUE

SumRec(g, f, S) ==
  g = [s \in SUBSET S |-> IF s = {} THEN 0 ELSE f[Pick(s)] + g[s \ {Pick(s)}]]

LEMMA SumIsRec ==
  ASSUME NEW f, NEW S
  PROVE  SumFunctionOnSet(f, S) = (CHOOSE g : SumRec(g, f, S))[S]
BY DEF SumFunctionOnSet, FoldFunctionOnSet, MapThenFoldSet, SumRec, Pick

LEMMA PickLemma ==
  ASSUME NEW S, IsFiniteSet(S), NEW s \in SUBSET S, s # {}
  PROVE  /\ Pick(s) \in s /\ s \ {Pick(s)} \in SUBSET S
         /\ IsFiniteSet(s) /\ Cardinality(s) \in Nat \ {0}
         /\ \A x \in s : Cardinality(s \ {x}) = Cardinality(s) - 1
<1>1. Pick(s) \in s
  BY DEF Pick
<1>2. IsFiniteSet(s)
  BY FS_Subset
<1>3. Cardinality(s) \in Nat /\ Cardinality(s) # 0
  BY <1>2, FS_CardinalityType, FS_EmptySet
<1>4. \A x \in s : Cardinality(s \ {x}) = Cardinality(s) - 1
  BY <1>2, FS_RemoveElement
<1> QED BY <1>1, <1>2, <1>3, <1>4

\* The function that SumFunctionOnSet chooses exists: it is built up from the
\* smaller subsets to the larger ones.
LEMMA SumRecExists ==
  ASSUME NEW f, NEW S, IsFiniteSet(S)
  PROVE  \E g : SumRec(g, f, S)
<1> DEFINE Upto(n) == {s \in SUBSET S : Cardinality(s) <= n}
           Rec(g, s) == IF s = {} THEN 0 ELSE f[Pick(s)] + g[s \ {Pick(s)}]
           T == {n \in Nat : \E g : g = [s \in Upto(n) |-> Rec(g, s)]}
<1>1. 0 \in T
  <2> DEFINE h == [s \in Upto(0) |-> 0]
  <2>1. \A s \in Upto(0) : s = {}
    BY PickLemma
  <2>2. h = [s \in Upto(0) |-> Rec(h, s)]
    BY <2>1
  <2> QED BY <2>2
<1>2. ASSUME NEW n \in Nat, n \in T
      PROVE  n + 1 \in T
  <2>1. PICK g : g = [s \in Upto(n) |-> Rec(g, s)]
    BY <1>2
  <2>0. PICK h : h = [s \in Upto(n + 1) |-> IF s \in Upto(n) THEN g[s] ELSE Rec(g, s)]
    OBVIOUS
  <2>2. \A s \in Upto(n + 1) : s # {} => s \ {Pick(s)} \in Upto(n)
    <3> SUFFICES ASSUME NEW s \in Upto(n + 1), s # {}
                 PROVE  s \ {Pick(s)} \in Upto(n)
      OBVIOUS
    <3>1. /\ s \ {Pick(s)} \in SUBSET S /\ Cardinality(s) \in Nat
          /\ Cardinality(s \ {Pick(s)}) = Cardinality(s) - 1
      BY PickLemma
    <3>2. Cardinality(s) <= n + 1
      OBVIOUS
    <3> QED BY <3>1, <3>2
  <2>3. \A s \in Upto(n) : s \in Upto(n + 1)
    <3> SUFFICES ASSUME NEW s \in Upto(n) PROVE s \in Upto(n + 1)
      OBVIOUS
    <3>1. IsFiniteSet(s)
      BY FS_Subset
    <3>2. Cardinality(s) \in Nat /\ Cardinality(s) <= n
      BY <3>1, FS_CardinalityType
    <3> QED BY <3>2
  <2>4. \A s \in Upto(n + 1) : h[s] = Rec(g, s)
    BY <2>0, <2>1
  <2>5. \A s \in Upto(n) : h[s] = g[s]
    BY <2>0, <2>3
  <2>6. \A s \in Upto(n + 1) : Rec(h, s) = Rec(g, s)
    <3> HIDE DEF Upto
    <3> QED BY <2>2, <2>5
  <2>7. h = [s \in Upto(n + 1) |-> Rec(h, s)]
    <3>1. h = [s \in Upto(n + 1) |-> h[s]]
      BY <2>0
    <3>2. \A s \in Upto(n + 1) : h[s] = Rec(h, s)
      BY <2>4, <2>6
    <3> HIDE DEF Upto, Rec
    <3> QED BY <3>1, <3>2
  <2> HIDE DEF Upto, Rec
  <2> QED BY <2>7
<1>3. Cardinality(S) \in Nat
  BY FS_CardinalityType
<1>4. Cardinality(S) \in T
  <2> HIDE DEF T
  <2> QED BY <1>1, <1>2, <1>3, NatClosed
<1>5. Upto(Cardinality(S)) = SUBSET S
  BY FS_Subset
<1>6. PICK g : g = [s \in Upto(Cardinality(S)) |-> Rec(g, s)]
  BY <1>4
<1> QED BY <1>5, <1>6 DEF SumRec

LEMMA SumRecStep ==
  ASSUME NEW g, NEW f, NEW S, IsFiniteSet(S), SumRec(g, f, S)
  PROVE  /\ g[{}] = 0
         /\ \A s \in SUBSET S : s # {} => g[s] = f[Pick(s)] + g[s \ {Pick(s)}]
BY DEF SumRec

\* The sum over a set depends on the values at its elements only.
LEMMA SumRecAgree ==
  ASSUME NEW g, NEW f, NEW S, IsFiniteSet(S), SumRec(g, f, S),
         NEW h, NEW e, NEW R, IsFiniteSet(R), SumRec(h, e, R),
         NEW u, u \subseteq S, u \subseteq R, \A x \in u : f[x] = e[x]
  PROVE  g[u] = h[u]
<1> DEFINE T == {n \in Nat : \A s \in SUBSET u : Cardinality(s) <= n => g[s] = h[s]}
<1>1. 0 \in T
  <2>1. \A s \in SUBSET u : Cardinality(s) <= 0 => s = {}
    BY PickLemma
  <2> QED BY <2>1, SumRecStep
<1>2. ASSUME NEW n \in Nat, n \in T
      PROVE  n + 1 \in T
  <2> SUFFICES ASSUME NEW s \in SUBSET u, Cardinality(s) <= n + 1
               PROVE  g[s] = h[s]
    OBVIOUS
  <2>1. CASE s = {}
    BY <2>1, SumRecStep
  <2>2. CASE s # {}
    <3> DEFINE x == Pick(s)
    <3>1. /\ x \in s /\ Cardinality(s) \in Nat
          /\ Cardinality(s \ {x}) = Cardinality(s) - 1
      BY <2>2, PickLemma
    <3>2. Cardinality(s \ {x}) <= n
      BY <3>1
    <3>3. g[s \ {x}] = h[s \ {x}]
      BY <1>2, <3>2
    <3>4. s \in SUBSET S /\ s \in SUBSET R
      OBVIOUS
    <3>5. g[s] = f[x] + g[s \ {x}]
      <4>1. \A t \in SUBSET S : t # {} => g[t] = f[Pick(t)] + g[t \ {Pick(t)}]
        BY SumRecStep, ZenonT(30)
      <4> QED BY <2>2, <3>4, <4>1
    <3>6. h[s] = e[x] + h[s \ {x}]
      BY <2>2, <3>4, SumRecStep
    <3> QED BY <3>1, <3>3, <3>5, <3>6
  <2> QED BY <2>1, <2>2
<1>3. IsFiniteSet(u)
  BY FS_Subset
<1>4. Cardinality(u) \in Nat
  BY <1>3, FS_CardinalityType
<1>5. Cardinality(u) \in T
  <2> HIDE DEF T
  <2> QED BY <1>1, <1>2, <1>4, NatClosed
<1> QED BY <1>4, <1>5

\* Any element may be taken first.
LEMMA SumRecRemove ==
  ASSUME NEW g, NEW f, NEW S, IsFiniteSet(S), SumRec(g, f, S), \A x \in S : f[x] \in Int
  PROVE  \A s \in SUBSET S : g[s] \in Int /\ \A x \in s : g[s] = f[x] + g[s \ {x}]
<1> DEFINE Good(s) == g[s] \in Int /\ \A x \in s : g[s] = f[x] + g[s \ {x}]
           T == {n \in Nat : \A s \in SUBSET S : Cardinality(s) <= n => Good(s)}
<1>1. 0 \in T
  <2>1. \A s \in SUBSET S : Cardinality(s) <= 0 => s = {}
    BY PickLemma
  <2>2. Good({})
    BY SumRecStep
  <2> QED BY <2>1, <2>2
<1>2. ASSUME NEW n \in Nat, n \in T
      PROVE  n + 1 \in T
  <2> SUFFICES ASSUME NEW s \in SUBSET S, Cardinality(s) <= n + 1
               PROVE  Good(s)
    OBVIOUS
  <2>1. CASE s = {}
    BY <2>1, SumRecStep
  <2>2. CASE s # {}
    <3>1. PICK c : c = Pick(s)
      OBVIOUS
    <3>2. /\ c \in s /\ Cardinality(s) \in Nat \ {0}
          /\ \A x \in s : Cardinality(s \ {x}) = Cardinality(s) - 1
      BY <2>2, <3>1, PickLemma
    <3>3. \A x \in s : Good(s \ {x})
      <4> TAKE x \in s
      <4>1. Cardinality(s \ {x}) <= n /\ s \ {x} \in SUBSET S
        BY <3>2
      <4> HIDE DEF Good
      <4> QED BY <1>2, <4>1
    <3>4. g[s] = f[c] + g[s \ {c}]
      BY <2>2, <3>1, SumRecStep
    <3>5. g[s] \in Int
      BY <3>2, <3>3, <3>4
    <3>6. ASSUME NEW x \in s, x # c
          PROVE  g[s] = f[x] + g[s \ {x}]
      <4>1. g[s \ {c}] = f[x] + g[(s \ {c}) \ {x}]
        BY <3>2, <3>3, <3>6
      <4>2. g[s \ {x}] = f[c] + g[(s \ {x}) \ {c}]
        BY <3>2, <3>3, <3>6
      <4>3. (s \ {c}) \ {x} = (s \ {x}) \ {c}
        OBVIOUS
      <4>4. /\ g[(s \ {c}) \ {x}] \in Int /\ f[c] \in Int /\ f[x] \in Int
        <5>1. Cardinality(s \ {c}) \in Nat /\ Cardinality(s \ {c}) <= n
          BY <3>2
        <5>2. /\ (s \ {c}) \ {x} \in SUBSET S /\ s \ {c} \in SUBSET S
              /\ x \in s \ {c} /\ s \ {c} # {}
          BY <3>6
        <5>3. Cardinality((s \ {c}) \ {x}) = Cardinality(s \ {c}) - 1
          BY <5>2, PickLemma
        <5>5. Cardinality((s \ {c}) \ {x}) <= n
          BY <5>1, <5>3
        <5>4. Good((s \ {c}) \ {x})
          <6> HIDE DEF Good
          <6> QED BY <1>2, <5>2, <5>5
        <5> QED BY <3>2, <5>4
      <4>5. \A a, b, r \in Int : a + (b + r) = b + (a + r)
        OBVIOUS
      <4>6. g[s] = f[c] + (f[x] + g[(s \ {c}) \ {x}])
        BY <3>4, <4>1
      <4>7. g[s \ {x}] = f[c] + g[(s \ {c}) \ {x}]
        BY <4>2, <4>3
      <4> QED BY <4>4, <4>5, <4>6, <4>7
    <3> QED BY <3>4, <3>5, <3>6
  <2> QED BY <2>1, <2>2
<1>3. ASSUME NEW s \in SUBSET S
      PROVE  Good(s)
  <2>1. IsFiniteSet(s)
    BY FS_Subset
  <2>2. Cardinality(s) \in Nat
    BY <2>1, FS_CardinalityType
  <2>3. Cardinality(s) \in T
    <3> HIDE DEF T
    <3> QED BY <1>1, <1>2, <2>2, NatClosed
  <2> HIDE DEF Good
  <2> QED BY <2>2, <2>3
<1> QED BY <1>3

-----------------------------------------------------------------------------
(* The facts the books use.                                                *)

LEMMA SumEmpty ==
  ASSUME NEW f
  PROVE  SumFunctionOnSet(f, {}) = 0
<1>1. IsFiniteSet({})
  BY FS_EmptySet
<1>2. SumRec(CHOOSE g : SumRec(g, f, {}), f, {})
  BY <1>1, SumRecExists
<1> QED BY <1>1, <1>2, SumRecStep, SumIsRec

LEMMA SumSame ==
  ASSUME NEW f, NEW e, NEW S, IsFiniteSet(S), \A x \in S : f[x] = e[x]
  PROVE  SumFunctionOnSet(f, S) = SumFunctionOnSet(e, S)
<1>1. PICK g : g = (CHOOSE k : SumRec(k, f, S)) /\ SumRec(g, f, S)
  BY SumRecExists
<1>2. PICK h : h = (CHOOSE k : SumRec(k, e, S)) /\ SumRec(h, e, S)
  BY SumRecExists
<1>3. g[S] = h[S]
  BY <1>1, <1>2, SumRecAgree
<1> QED BY <1>1, <1>2, <1>3, SumIsRec

LEMMA SumInt ==
  ASSUME NEW f, NEW S, IsFiniteSet(S), \A x \in S : f[x] \in Int
  PROVE  SumFunctionOnSet(f, S) \in Int
<1>1. PICK g : g = (CHOOSE k : SumRec(k, f, S)) /\ SumRec(g, f, S)
  BY SumRecExists
<1>2. g[S] \in Int
  BY <1>1, SumRecRemove
<1> QED BY <1>1, <1>2, SumIsRec

LEMMA SumRemove ==
  ASSUME NEW f, NEW S, IsFiniteSet(S), \A y \in S : f[y] \in Int, NEW x \in S
  PROVE  SumFunctionOnSet(f, S \ {x}) = SumFunctionOnSet(f, S) - f[x]
<1>1. IsFiniteSet(S \ {x})
  BY FS_RemoveElement
<1>2. PICK g : g = (CHOOSE k : SumRec(k, f, S)) /\ SumRec(g, f, S)
  BY SumRecExists
<1>3. PICK h : h = (CHOOSE k : SumRec(k, f, S \ {x})) /\ SumRec(h, f, S \ {x})
  BY <1>1, SumRecExists
<1>4. g[S] = f[x] + g[S \ {x}] /\ g[S \ {x}] \in Int
  <2>1. \A s \in SUBSET S : g[s] \in Int /\ \A y \in s : g[s] = f[y] + g[s \ {y}]
    BY <1>2, SumRecRemove
  <2>2. S \in SUBSET S /\ S \ {x} \in SUBSET S
    OBVIOUS
  <2> QED BY <2>1, <2>2
<1>5. g[S \ {x}] = h[S \ {x}]
  BY <1>1, <1>2, <1>3, SumRecAgree
<1>6. SumFunctionOnSet(f, S) = g[S] /\ SumFunctionOnSet(f, S \ {x}) = h[S \ {x}]
  BY <1>2, <1>3, SumIsRec
<1> QED BY <1>4, <1>5, <1>6

LEMMA SumAdd ==
  ASSUME NEW f, NEW S, IsFiniteSet(S), NEW x, x \notin S, \A y \in S \cup {x} : f[y] \in Int
  PROVE  SumFunctionOnSet(f, S \cup {x}) = SumFunctionOnSet(f, S) + f[x]
<1> DEFINE R == S \cup {x}
<1>1. IsFiniteSet(R) /\ R \ {x} = S
  BY FS_AddElement
<1>2. SumFunctionOnSet(f, R \ {x}) = SumFunctionOnSet(f, R) - f[x]
  BY <1>1, SumRemove
<1>3. SumFunctionOnSet(f, R) \in Int /\ f[x] \in Int
  BY <1>1, SumInt
<1> HIDE DEF R
<1>4. SumFunctionOnSet(f, R) = SumFunctionOnSet(f, S) + f[x]
  BY <1>1, <1>2, <1>3
<1> QED BY <1>4 DEF R

-----------------------------------------------------------------------------
(* Arithmetic modulo m, as unsigned integers are added.                    *)

LEMMA ModQuotient ==
  ASSUME NEW a \in Int, NEW m \in Nat \ {0}
  PROVE  a % m \in 0 .. m - 1 /\ \E q \in Int : a = m * q + (a % m)
<1>1. a = m * (a \div m) + (a % m)
  OBVIOUS
<1>2. a % m \in 0 .. m - 1
  OBVIOUS
<1>3. a \div m \in Int
  OBVIOUS
<1> QED BY <1>1, <1>2, <1>3

LEMMA ModUnique ==
  ASSUME NEW m \in Nat \ {0}, NEW q \in Int, NEW r \in 0 .. m - 1
  PROVE  (m * q + r) % m = r
OBVIOUS

LEMMA ModAdd ==
  ASSUME NEW a \in Int, NEW d \in Int, NEW m \in Nat \ {0}
  PROVE  ((a % m) + d) % m = (a + d) % m
<1>1. PICK q \in Int : a = m * q + (a % m)
  BY ModQuotient
<1>2. PICK r \in 0 .. m - 1 : r = a % m
  BY ModQuotient
<1>3. PICK b \in Int : b = r + d
  OBVIOUS
<1>4. PICK p \in Int : b = m * p + (b % m)
  BY ModQuotient
<1>5. PICK t \in 0 .. m - 1 : t = b % m
  BY ModQuotient
<1>6. a + d = m * (q + p) + t
  <2>1. m * q \in Int /\ m * p \in Int /\ m * (q + p) = m * q + m * p
    OBVIOUS
  <2>2. a = m * q + r /\ r + d = m * p + t
    BY <1>1, <1>2, <1>3, <1>4, <1>5
  <2> QED BY <2>1, <2>2
<1>7. (m * (q + p) + t) % m = t
  BY ModUnique
<1> QED BY <1>2, <1>3, <1>5, <1>6, <1>7

-----------------------------------------------------------------------------
(* The books *)

BookInv(b) == IsBook(b) /\ Indexed(b) /\ LimitsNonEmpty(b)

\* A limit that accepts or refuses an order is still a limit, and holds it.
LEMMA LimitAddLemma ==
  ASSUME NEW l, IsLimit(l), NEW id \in OrderId, NEW size \in Size
  PROVE  /\ IsLimit(LimitAdd(l, id, size))
         /\ DOMAIN LimitAdd(l, id, size).orders = DOMAIN l.orders \cup {id}
<1>1. CASE LimitAccepts(l, id)
  <2> DEFINE n == Put(l.orders, id, size)
             v == (l.volume + size) % VolMod
  <2>1. LimitAdd(l, id, size) = [orders |-> n, volume |-> v]
    BY <1>1 DEF LimitAdd
  <2>2. /\ DOMAIN n = DOMAIN l.orders \cup {id}
        /\ n = [x \in DOMAIN n |-> n[x]]
        /\ \A x \in DOMAIN n : n[x] \in Size
    BY DEF IsLimit, Put
  <2>3. v \in 0 .. VolMod - 1
    BY KBookAssumption DEF IsLimit
  <2> QED BY <2>1, <2>2, <2>3 DEF IsLimit
<1>2. CASE ~LimitAccepts(l, id)
  BY <1>2 DEF LimitAdd, LimitAccepts
<1> QED BY <1>1, <1>2

\* KLimit::modifyOrder leaves a limit, with the same orders queued at it.
LEMMA LimitModifyLemma ==
  ASSUME NEW l, IsLimit(l), NEW id \in OrderId, NEW size \in Size
  PROVE  /\ IsLimit(LimitModify(l, id, size))
         /\ DOMAIN LimitModify(l, id, size).orders = DOMAIN l.orders
<1>1. CASE id \in DOMAIN l.orders
  <2> DEFINE n == Put(l.orders, id, size)
             v == (l.volume - l.orders[id] + size) % VolMod
  <2>1. LimitModify(l, id, size) = [orders |-> n, volume |-> v]
    BY <1>1 DEF LimitModify
  <2>2. /\ DOMAIN n = DOMAIN l.orders
        /\ n = [x \in DOMAIN n |-> n[x]]
        /\ \A x \in DOMAIN n : n[x] \in Size
    BY <1>1 DEF IsLimit, Put
  <2>3. v \in 0 .. VolMod - 1
    BY <1>1, KBookAssumption DEF IsLimit
  <2> QED BY <2>1, <2>2, <2>3 DEF IsLimit
<1>2. CASE id \notin DOMAIN l.orders
  BY <1>2 DEF LimitModify
<1> QED BY <1>1, <1>2

\* KLimit::removeOrder takes that order, and only it, off the limit.
LEMMA LimitRemoveLemma ==
  ASSUME NEW l, IsLimit(l), NEW id \in DOMAIN l.orders
  PROVE  /\ IsLimit(LimitRemove(l, id))
         /\ DOMAIN LimitRemove(l, id).orders = DOMAIN l.orders \ {id}
<1> DEFINE n == Drop(l.orders, id)
           v == (l.volume - l.orders[id]) % VolMod
<1>1. LimitRemove(l, id) = [orders |-> n, volume |-> v]
  BY DEF LimitRemove
<1>2. /\ DOMAIN n = DOMAIN l.orders \ {id}
      /\ n = [x \in DOMAIN n |-> n[x]]
      /\ \A x \in DOMAIN n : n[x] \in Size
  BY DEF IsLimit, Drop
<1>3. v \in 0 .. VolMod - 1
  BY KBookAssumption DEF IsLimit
<1> QED BY <1>1, <1>2, <1>3 DEF IsLimit

\* Storing a limit in a tree.
LEMMA SetLimitLemma ==
  ASSUME NEW t, t = [s \in Side |-> t[s]], \A s \in Side : IsTree(t[s]),
         NEW s0 \in Side, NEW p0 \in Price, NEW l, IsLimit(l)
  PROVE  LET u == SetLimit(t, s0, p0, l)
         IN  /\ u = [s \in Side |-> u[s]]
             /\ \A s \in Side : IsTree(u[s])
             /\ DOMAIN u[s0] = DOMAIN t[s0] \cup {p0}
             /\ u[s0][p0] = l
             /\ \A p \in DOMAIN t[s0] \ {p0} : u[s0][p] = t[s0][p]
             /\ \A s \in Side \ {s0} : u[s] = t[s]
<1> DEFINE u == SetLimit(t, s0, p0, l)
<1>1. u = [t EXCEPT ![s0] = Put(t[s0], p0, l)]
  BY DEF SetLimit
<1>2. u = [s \in Side |-> IF s = s0 THEN Put(t[s0], p0, l) ELSE t[s]]
  BY <1>1
<1>3. /\ u[s0] = Put(t[s0], p0, l)
      /\ \A s \in Side \ {s0} : u[s] = t[s]
      /\ u = [s \in Side |-> u[s]]
  BY <1>2
<1>4. /\ DOMAIN u[s0] = DOMAIN t[s0] \cup {p0}
      /\ u[s0] = [p \in DOMAIN u[s0] |-> u[s0][p]]
      /\ u[s0][p0] = l
      /\ \A p \in DOMAIN t[s0] \ {p0} : u[s0][p] = t[s0][p]
  BY <1>3 DEF Put
<1>5. IsTree(u[s0])
  BY <1>4 DEF IsTree
<1>6. \A s \in Side : IsTree(u[s])
  BY <1>3, <1>5
<1> QED BY <1>3, <1>4, <1>6

\* KBook::add keeps the book consistent, duplicates included.
LEMMA AddPreserves ==
  ASSUME NEW b, BookInv(b), NEW id \in OrderId, NEW s \in Side, NEW size \in Size,
         NEW p \in Price
  PROVE  BookInv(AddOrder(b, id, s, size, p))
<1> DEFINE l == IF HasLimit(b, s, p) THEN b.tree[s][p] ELSE NewLimit
           k == LimitAdd(l, id, size)
           o == [side |-> s, price |-> p, size |-> size, shared |-> LimitAccepts(l, id)]
           c == AddOrder(b, id, s, size, p)
<1>1. IsLimit(l)
  <2>1. IsLimit(NewLimit)
    BY KBookAssumption DEF IsLimit, NewLimit, EmptyFcn
  <2>2. HasLimit(b, s, p) => IsLimit(b.tree[s][p])
    BY DEF HasLimit, BookInv, IsBook, IsTree
  <2> QED BY <2>1, <2>2
<1>2. IsLimit(k) /\ DOMAIN k.orders = DOMAIN l.orders \cup {id}
  BY <1>1, LimitAddLemma
<1> HIDE DEF k, l
<1>3. o \in Order
  BY DEF Order, LimitAccepts
<1> HIDE DEF o
<1>4. c = [map |-> Put(b.map, id, o), tree |-> SetLimit(b.tree, s, p, k)]
  BY DEF AddOrder, k, l, o
<1>5. /\ IsIndex(c.map)
      /\ DOMAIN c.map = DOMAIN b.map \cup {id}
      /\ c.map[id] = o
      /\ \A x \in DOMAIN b.map \ {id} : c.map[x] = b.map[x]
  BY <1>3, <1>4 DEF Put, BookInv, IsBook, IsIndex
<1>6. /\ c.tree = [x \in Side |-> c.tree[x]]
      /\ \A x \in Side : IsTree(c.tree[x])
      /\ DOMAIN c.tree[s] = DOMAIN b.tree[s] \cup {p}
      /\ c.tree[s][p] = k
      /\ \A q \in DOMAIN b.tree[s] \ {p} : c.tree[s][q] = b.tree[s][q]
      /\ \A x \in Side \ {s} : c.tree[x] = b.tree[x]
  <2>1. /\ b.tree = [x \in Side |-> b.tree[x]]
        /\ \A x \in Side : IsTree(b.tree[x])
    BY DEF BookInv, IsBook
  <2>2. c.tree = SetLimit(b.tree, s, p, k)
    BY <1>4
  <2> HIDE DEF c
  <2> QED BY <1>2, <2>1, <2>2, SetLimitLemma
<1>7. IsBook(c)
  BY <1>4, <1>5, <1>6 DEF IsBook
<1>8. p \in DOMAIN b.tree[s] => DOMAIN b.tree[s][p].orders \subseteq DOMAIN k.orders
  BY <1>2 DEF l, HasLimit
<1>9. Indexed(c)
  <2> SUFFICES ASSUME NEW x \in DOMAIN c.map
               PROVE  /\ c.map[x].price \in DOMAIN c.tree[c.map[x].side]
                      /\ x \in DOMAIN c.tree[c.map[x].side][c.map[x].price].orders
    BY DEF Indexed
  <2>1. CASE x = id
    BY <2>1, <1>2, <1>5, <1>6 DEF o
  <2>2. CASE x # id
    <3>1. /\ x \in DOMAIN b.map
          /\ c.map[x] = b.map[x]
          /\ b.map[x].side \in Side
      BY <2>2, <1>5 DEF BookInv, IsBook, IsIndex, Order
    <3>2. /\ b.map[x].price \in DOMAIN b.tree[b.map[x].side]
          /\ x \in DOMAIN b.tree[b.map[x].side][b.map[x].price].orders
      BY <3>1 DEF BookInv, Indexed
    <3>3. CASE b.map[x].side = s /\ b.map[x].price = p
      BY <3>1, <3>2, <3>3, <1>6, <1>8
    <3>4. CASE b.map[x].side = s /\ b.map[x].price # p
      BY <3>1, <3>2, <3>4, <1>6
    <3>5. CASE b.map[x].side # s
      BY <3>1, <3>2, <3>5, <1>6
    <3> QED BY <3>3, <3>4, <3>5
  <2> QED BY <2>1, <2>2
<1>10. LimitsNonEmpty(c)
  <2> SUFFICES ASSUME NEW x \in Side, NEW q \in DOMAIN c.tree[x]
               PROVE  DOMAIN c.tree[x][q].orders # {}
    BY DEF LimitsNonEmpty
  <2>1. CASE x = s /\ q = p
    BY <2>1, <1>2, <1>6
  <2>2. CASE x # s \/ q # p
    BY <2>2, <1>6 DEF BookInv, LimitsNonEmpty
  <2> QED BY <2>1, <2>2
<1> QED BY <1>7, <1>9, <1>10 DEF BookInv

\* In a consistent book KBook::remove of an indexed order finds the limit and
\* the order: it returns 1 and no assertion fails.
LEMMA RemoveFinds ==
  ASSUME NEW b, BookInv(b), NEW id
  PROVE  /\ RemoveFault(b, id) = "none"
         /\ RemoveRet(b, id) = 1 <=> id \in DOMAIN b.map
         /\ ModifyRet(b, id) = 1 <=> id \in DOMAIN b.map
<1>1. \A x \in DOMAIN b.map :
        /\ HasLimit(b, b.map[x].side, b.map[x].price)
        /\ LimitRemoveOk(b.tree[b.map[x].side][b.map[x].price], x)
  BY DEF BookInv, Indexed, HasLimit, LimitRemoveOk
<1>2. RemoveFault(b, id) = "none"
  BY <1>1 DEF RemoveFault
<1>3. RemoveRet(b, id) = 1 <=> id \in DOMAIN b.map
  BY <1>1 DEF RemoveRet
<1>4. ModifyRet(b, id) = 1 <=> id \in DOMAIN b.map
  BY <1>1 DEF ModifyRet
<1> QED BY <1>2, <1>3, <1>4

\* Dropping a limit from a tree.
LEMMA DropLimitLemma ==
  ASSUME NEW t, t = [s \in Side |-> t[s]], \A s \in Side : IsTree(t[s]),
         NEW s0 \in Side, NEW p0
  PROVE  LET u == DropLimit(t, s0, p0)
         IN  /\ u = [s \in Side |-> u[s]]
             /\ \A s \in Side : IsTree(u[s])
             /\ DOMAIN u[s0] = DOMAIN t[s0] \ {p0}
             /\ \A p \in DOMAIN t[s0] \ {p0} : u[s0][p] = t[s0][p]
             /\ \A s \in Side \ {s0} : u[s] = t[s]
<1> DEFINE u == DropLimit(t, s0, p0)
<1>1. u = [s \in Side |-> IF s = s0 THEN Drop(t[s0], p0) ELSE t[s]]
  BY DEF DropLimit
<1>2. /\ u[s0] = Drop(t[s0], p0)
      /\ \A s \in Side \ {s0} : u[s] = t[s]
      /\ u = [s \in Side |-> u[s]]
  BY <1>1
<1>3. /\ DOMAIN u[s0] = DOMAIN t[s0] \ {p0}
      /\ u[s0] = [p \in DOMAIN u[s0] |-> u[s0][p]]
      /\ \A p \in DOMAIN t[s0] \ {p0} : u[s0][p] = t[s0][p]
  BY <1>2 DEF Drop
<1>4. IsTree(u[s0])
  BY <1>3 DEF IsTree
<1>5. \A s \in Side : IsTree(u[s])
  BY <1>2, <1>4
<1> QED BY <1>2, <1>3, <1>5

\* Any change of a consistent book that leaves the index entries it keeps
\* alone, and queues each of them where it was, keeps the book consistent.
LEMMA KeptOrders ==
  ASSUME NEW b, BookInv(b), NEW c, IsBook(c), NEW s \in Side, NEW p,
         DOMAIN c.map \subseteq DOMAIN b.map,
         \A x \in DOMAIN c.map : /\ c.map[x].side = b.map[x].side
                                 /\ c.map[x].price = b.map[x].price,
         \A x \in Side \ {s} : c.tree[x] = b.tree[x],
         DOMAIN b.tree[s] \ {p} \subseteq DOMAIN c.tree[s],
         DOMAIN c.tree[s] \subseteq DOMAIN b.tree[s],
         \A q \in DOMAIN b.tree[s] \ {p} : c.tree[s][q] = b.tree[s][q],
         \A x \in DOMAIN c.map : (b.map[x].side = s /\ b.map[x].price = p) =>
             p \in DOMAIN c.tree[s] /\ x \in DOMAIN c.tree[s][p].orders,
         p \in DOMAIN c.tree[s] => DOMAIN c.tree[s][p].orders # {}
  PROVE  BookInv(c)
<1>1. Indexed(c)
  <2> SUFFICES ASSUME NEW x \in DOMAIN c.map
               PROVE  /\ c.map[x].price \in DOMAIN c.tree[c.map[x].side]
                      /\ x \in DOMAIN c.tree[c.map[x].side][c.map[x].price].orders
    BY DEF Indexed
  <2>1. /\ b.map[x].side \in Side
        /\ b.map[x].price \in DOMAIN b.tree[b.map[x].side]
        /\ x \in DOMAIN b.tree[b.map[x].side][b.map[x].price].orders
    BY DEF BookInv, IsBook, IsIndex, Indexed, Order
  <2>2. CASE b.map[x].side = s /\ b.map[x].price = p
    BY <2>1, <2>2
  <2>3. CASE b.map[x].side = s /\ b.map[x].price # p
    BY <2>1, <2>3
  <2>4. CASE b.map[x].side # s
    BY <2>1, <2>4
  <2> QED BY <2>2, <2>3, <2>4
<1>2. LimitsNonEmpty(c)
  <2> SUFFICES ASSUME NEW x \in Side, NEW q \in DOMAIN c.tree[x]
               PROVE  DOMAIN c.tree[x][q].orders # {}
    BY DEF LimitsNonEmpty
  <2>1. CASE x = s /\ q = p
    BY <2>1
  <2>2. CASE x # s \/ q # p
    BY <2>2 DEF BookInv, LimitsNonEmpty
  <2> QED BY <2>1, <2>2
<1> QED BY <1>1, <1>2 DEF BookInv

\* KBook::remove keeps the book consistent: the limit goes exactly when the
\* order was its last one.
LEMMA RemovePreserves ==
  ASSUME NEW b, BookInv(b), NEW id \in DOMAIN b.map
  PROVE  BookInv(RemoveOrder(b, id))
<1>1. PICK s \in Side, p \in Price : s = b.map[id].side /\ p = b.map[id].price
  BY DEF BookInv, IsBook, IsIndex, Order
<1>2. PICK k : k = LimitRemove(b.tree[s][p], id)
  OBVIOUS
<1>3. PICK c : c = RemoveOrder(b, id)
  OBVIOUS
<1>4. /\ p \in DOMAIN b.tree[s]
      /\ id \in DOMAIN b.tree[s][p].orders
      /\ IsLimit(b.tree[s][p])
  BY <1>1 DEF BookInv, IsBook, IsTree, Indexed
<1>5. IsLimit(k) /\ DOMAIN k.orders = DOMAIN b.tree[s][p].orders \ {id}
  BY <1>2, <1>4, LimitRemoveLemma
<1>6. /\ b.tree = [x \in Side |-> b.tree[x]]
      /\ \A x \in Side : IsTree(b.tree[x])
  BY DEF BookInv, IsBook
<1>7. c = [map  |-> Drop(b.map, id),
           tree |-> IF DOMAIN k.orders = {}
                    THEN DropLimit(b.tree, s, p)
                    ELSE SetLimit(b.tree, s, p, k)]
  BY <1>1, <1>2, <1>3 DEF RemoveOrder
<1>8. /\ c = [map |-> c.map, tree |-> c.tree]
      /\ IsIndex(c.map)
      /\ DOMAIN c.map = DOMAIN b.map \ {id}
      /\ \A x \in DOMAIN c.map : c.map[x] = b.map[x]
  BY <1>7 DEF Drop, BookInv, IsBook, IsIndex
<1>9. \A x \in DOMAIN c.map : (b.map[x].side = s /\ b.map[x].price = p)
                               => x \in DOMAIN k.orders
  BY <1>5, <1>8 DEF BookInv, Indexed
<1>10. CASE DOMAIN k.orders = {}
  <2>1. c.tree = DropLimit(b.tree, s, p)
    BY <1>7, <1>10
  <2>2. /\ c.tree = [x \in Side |-> c.tree[x]]
        /\ \A x \in Side : IsTree(c.tree[x])
        /\ DOMAIN c.tree[s] = DOMAIN b.tree[s] \ {p}
        /\ \A q \in DOMAIN b.tree[s] \ {p} : c.tree[s][q] = b.tree[s][q]
        /\ \A x \in Side \ {s} : c.tree[x] = b.tree[x]
    BY <1>6, <2>1, DropLimitLemma
  <2>3. IsBook(c)
    BY <1>8, <2>2 DEF IsBook
  <2>4. BookInv(c)
    BY <1>8, <1>9, <1>10, <2>2, <2>3, KeptOrders
  <2> QED BY <1>3, <2>4
<1>11. CASE DOMAIN k.orders # {}
  <2>1. c.tree = SetLimit(b.tree, s, p, k)
    BY <1>7, <1>11
  <2>2. /\ c.tree = [x \in Side |-> c.tree[x]]
        /\ \A x \in Side : IsTree(c.tree[x])
        /\ DOMAIN c.tree[s] = DOMAIN b.tree[s] \cup {p}
        /\ c.tree[s][p] = k
        /\ \A q \in DOMAIN b.tree[s] \ {p} : c.tree[s][q] = b.tree[s][q]
        /\ \A x \in Side \ {s} : c.tree[x] = b.tree[x]
    BY <1>5, <1>6, <2>1, SetLimitLemma
  <2>3. IsBook(c)
    BY <1>8, <2>2 DEF IsBook
  <2>4. BookInv(c)
    BY <1>4, <1>8, <1>9, <1>11, <2>2, <2>3, KeptOrders
  <2> QED BY <1>3, <2>4
<1> QED BY <1>10, <1>11

\* KBook::modify keeps the book consistent.
LEMMA ModifyPreserves ==
  ASSUME NEW b, BookInv(b), NEW id \in DOMAIN b.map, NEW size \in Size
  PROVE  BookInv(ModifyOrder(b, id, size))
<1>1. PICK s \in Side, p \in Price : s = b.map[id].side /\ p = b.map[id].price
  BY DEF BookInv, IsBook, IsIndex, Order
<1>2. PICK k : k = LimitModify(b.tree[s][p], id, size)
  OBVIOUS
<1>3. PICK c : c = ModifyOrder(b, id, size)
  OBVIOUS
<1>4. /\ p \in DOMAIN b.tree[s]
      /\ id \in DOMAIN b.tree[s][p].orders
      /\ IsLimit(b.tree[s][p])
      /\ id \in OrderId
  BY <1>1 DEF BookInv, IsBook, IsTree, IsIndex, Indexed
<1>5. IsLimit(k) /\ DOMAIN k.orders = DOMAIN b.tree[s][p].orders
  BY <1>2, <1>4, LimitModifyLemma
<1>6. /\ b.tree = [x \in Side |-> b.tree[x]]
      /\ \A x \in Side : IsTree(b.tree[x])
  BY DEF BookInv, IsBook
<1>7. c = [map  |-> IF b.map[id].shared /\ id \in DOMAIN b.tree[s][p].orders
                    THEN [b.map EXCEPT ![id].size = size] ELSE b.map,
           tree |-> SetLimit(b.tree, s, p, k)]
  BY <1>1, <1>2, <1>3 DEF ModifyOrder
<1>8. /\ c = [map |-> c.map, tree |-> c.tree]
      /\ IsIndex(c.map)
      /\ DOMAIN c.map = DOMAIN b.map
      /\ \A x \in DOMAIN c.map : /\ c.map[x].side = b.map[x].side
                                  /\ c.map[x].price = b.map[x].price
  BY <1>7, SMTT(30) DEF BookInv, IsBook, IsIndex, Order
<1>9. /\ c.tree = [x \in Side |-> c.tree[x]]
      /\ \A x \in Side : IsTree(c.tree[x])
      /\ DOMAIN c.tree[s] = DOMAIN b.tree[s] \cup {p}
      /\ c.tree[s][p] = k
      /\ \A q \in DOMAIN b.tree[s] \ {p} : c.tree[s][q] = b.tree[s][q]
      /\ \A x \in Side \ {s} : c.tree[x] = b.tree[x]
  <2>1. c.tree = SetLimit(b.tree, s, p, k)
    BY <1>7
  <2> QED BY <1>5, <1>6, <2>1, SetLimitLemma, SMTT(30)
<1>10. IsBook(c)
  BY <1>8, <1>9 DEF IsBook
<1>11. \A x \in DOMAIN c.map : (b.map[x].side = s /\ b.map[x].price = p)
                                => x \in DOMAIN k.orders
  BY <1>5, <1>8 DEF BookInv, Indexed
<1>12. BookInv(c)
  BY <1>4, <1>5, <1>8, <1>9, <1>10, <1>11, KeptOrders
<1> QED BY <1>3, <1>12

\* The book starts, and KBook::clear leaves it, consistent.
LEMMA EmptyBookInv == BookInv(EmptyBook)
<1>1. /\ EmptyBook.map = EmptyFcn
      /\ EmptyBook.tree = [s \in Side |-> EmptyFcn]
      /\ DOMAIN EmptyFcn = {}
  BY DEF EmptyBook, EmptyFcn
<1>2. IsIndex(EmptyFcn) /\ IsTree(EmptyFcn)
  BY DEF IsIndex, IsTree, EmptyFcn
<1>3. EmptyBook = [map |-> EmptyBook.map, tree |-> EmptyBook.tree]
  BY DEF EmptyBook
<1>4. \A s \in Side : EmptyBook.tree[s] = EmptyFcn
  BY <1>1
<1>5. IsBook(EmptyBook)
  BY <1>1, <1>2, <1>3, <1>4 DEF IsBook
<1> QED BY <1>1, <1>4, <1>5 DEF BookInv, Indexed, LimitsNonEmpty

\* The public calls: each keeps the book consistent, whatever its arguments.
LEMMA CallsPreserve ==
  ASSUME NEW b, BookInv(b), NEW id \in OrderId, NEW s \in SideArg, NEW size \in Size,
         NEW p \in Price
  PROVE  /\ BookInv(Add(b, id, s, size, p))
         /\ BookInv(Remove(b, id))
         /\ BookInv(Modify(b, id, size))
<1>1. BookInv(Add(b, id, s, size, p))
  BY AddPreserves DEF Add
<1>2. BookInv(Remove(b, id))
  BY RemoveFinds, RemovePreserves DEF Remove
<1>3. BookInv(Modify(b, id, size))
  BY RemoveFinds, ModifyPreserves DEF Modify
<1> QED BY <1>1, <1>2, <1>3

-----------------------------------------------------------------------------
(* Exact books.  Mirrors is preserved together with the fact that every    *)
(* indexed order is the object queued at its limit: an id that is not in   *)
(* the index is then at no limit, so no limit refuses it.                  *)

AllShared(b) == \A id \in DOMAIN b.map : b.map[id].shared

Exact(b) == BookInv(b) /\ Mirrors(b) /\ AllShared(b)

\* A fresh id is queued at a limit and indexed as the same object.
LEMMA AddExact ==
  ASSUME NEW b, Exact(b), NEW id \in OrderId \ DOMAIN b.map, NEW s \in Side,
         NEW size \in Size, NEW p \in Price
  PROVE  Exact(AddOrder(b, id, s, size, p))
<1>1. PICK l : l = IF HasLimit(b, s, p) THEN b.tree[s][p] ELSE NewLimit
  OBVIOUS
<1>2. PICK c : c = AddOrder(b, id, s, size, p)
  OBVIOUS
<1>3. PICK k : k = LimitAdd(l, id, size)
  OBVIOUS
<1>4. /\ \A x \in DOMAIN l.orders : x \in DOMAIN b.map
      /\ \A x \in DOMAIN l.orders : /\ b.map[x].side = s /\ b.map[x].price = p
                                    /\ b.map[x].size = l.orders[x]
  BY <1>1 DEF Exact, Mirrors, HasLimit, NewLimit, EmptyFcn
<1>5. LimitAccepts(l, id)
  BY <1>4 DEF LimitAccepts
<1>6. k = [orders |-> Put(l.orders, id, size), volume |-> (l.volume + size) % VolMod]
  BY <1>3, <1>5 DEF LimitAdd
<1>7. c = [map  |-> Put(b.map, id, [side |-> s, price |-> p, size |-> size,
                                    shared |-> TRUE]),
           tree |-> SetLimit(b.tree, s, p, k)]
  BY <1>1, <1>2, <1>3, <1>5 DEF AddOrder
<1>8. BookInv(c)
  BY <1>2, AddPreserves DEF Exact
<1>9. /\ DOMAIN c.map = DOMAIN b.map \cup {id}
      /\ c.map[id] = [side |-> s, price |-> p, size |-> size, shared |-> TRUE]
      /\ \A x \in DOMAIN b.map : c.map[x] = b.map[x]
  BY <1>7 DEF Put
<1>10. /\ DOMAIN k.orders = DOMAIN l.orders \cup {id}
       /\ k.orders[id] = size
       /\ \A x \in DOMAIN l.orders \ {id} : k.orders[x] = l.orders[x]
  BY <1>6 DEF Put
<1>11. /\ DOMAIN c.tree[s] = DOMAIN b.tree[s] \cup {p}
       /\ c.tree[s][p] = k
       /\ \A q \in DOMAIN b.tree[s] \ {p} : c.tree[s][q] = b.tree[s][q]
       /\ \A x \in Side \ {s} : c.tree[x] = b.tree[x]
  <2>1. c.tree = SetLimit(b.tree, s, p, k)
    BY <1>7
  <2>2. c.tree = [x \in Side |-> IF x = s THEN Put(b.tree[s], p, k) ELSE b.tree[x]]
    BY <2>1 DEF SetLimit, Exact, BookInv, IsBook
  <2> QED BY <2>2 DEF Put
<1>12. Mirrors(c)
  <2> SUFFICES ASSUME NEW t \in Side, NEW q \in DOMAIN c.tree[t],
                      NEW x \in DOMAIN c.tree[t][q].orders
               PROVE  /\ x \in DOMAIN c.map
                      /\ c.map[x].side = t /\ c.map[x].price = q
                      /\ c.map[x].size = c.tree[t][q].orders[x]
    BY DEF Mirrors
  <2>1. CASE t = s /\ q = p
    BY <2>1, <1>4, <1>9, <1>10, <1>11
  <2>2. CASE t # s \/ q # p
    <3>1. q \in DOMAIN b.tree[t] /\ c.tree[t][q] = b.tree[t][q]
      BY <2>2, <1>11
    <3> QED BY <3>1, <1>9 DEF Exact, Mirrors
  <2> QED BY <2>1, <2>2
<1>13. AllShared(c)
  BY <1>9 DEF Exact, AllShared
<1> QED BY <1>2, <1>8, <1>12, <1>13 DEF Exact

\* KBook::remove takes the order off the index and off its limit.
LEMMA RemoveExact ==
  ASSUME NEW b, Exact(b), NEW id \in DOMAIN b.map
  PROVE  Exact(RemoveOrder(b, id))
<1>1. PICK s \in Side, p \in Price : s = b.map[id].side /\ p = b.map[id].price
  BY DEF Exact, BookInv, IsBook, IsIndex, Order
<1>2. PICK k : k = LimitRemove(b.tree[s][p], id)
  OBVIOUS
<1>3. PICK c : c = RemoveOrder(b, id)
  OBVIOUS
<1>4. p \in DOMAIN b.tree[s] /\ id \in DOMAIN b.tree[s][p].orders
  BY <1>1 DEF Exact, BookInv, Indexed
<1>5. k.orders = Drop(b.tree[s][p].orders, id)
  BY <1>2, <1>4 DEF LimitRemove
<1>6. c = [map  |-> Drop(b.map, id),
           tree |-> IF DOMAIN k.orders = {} THEN DropLimit(b.tree, s, p)
                                            ELSE SetLimit(b.tree, s, p, k)]
  BY <1>1, <1>2, <1>3 DEF RemoveOrder
<1>7. BookInv(c)
  BY <1>3, RemovePreserves DEF Exact
<1>8. /\ DOMAIN c.map = DOMAIN b.map \ {id}
      /\ \A x \in DOMAIN c.map : c.map[x] = b.map[x]
  BY <1>6 DEF Drop
<1>9. \A t \in Side : \A q \in DOMAIN c.tree[t] :
        /\ q \in DOMAIN b.tree[t]
        /\ t = s /\ q = p => c.tree[t][q] = k
        /\ t # s \/ q # p => c.tree[t][q] = b.tree[t][q]
  <2>0. b.tree = [x \in Side |-> b.tree[x]]
    BY DEF Exact, BookInv, IsBook
  <2>1. CASE DOMAIN k.orders = {}
    <3>1. c.tree = [x \in Side |-> IF x = s THEN Drop(b.tree[s], p) ELSE b.tree[x]]
      BY <1>6, <2>0, <2>1 DEF DropLimit
    <3> QED BY <3>1 DEF Drop
  <2>2. CASE DOMAIN k.orders # {}
    <3>1. c.tree = [x \in Side |-> IF x = s THEN Put(b.tree[s], p, k) ELSE b.tree[x]]
      BY <1>6, <2>0, <2>2 DEF SetLimit
    <3> QED BY <3>1, <1>4 DEF Put
  <2> QED BY <2>1, <2>2
<1>10. Mirrors(c)
  <2> SUFFICES ASSUME NEW t \in Side, NEW q \in DOMAIN c.tree[t],
                      NEW x \in DOMAIN c.tree[t][q].orders
               PROVE  /\ x \in DOMAIN c.map
                      /\ c.map[x].side = t /\ c.map[x].price = q
                      /\ c.map[x].size = c.tree[t][q].orders[x]
    BY DEF Mirrors
  <2>1. /\ q \in DOMAIN b.tree[t]
        /\ x \in DOMAIN b.tree[t][q].orders
        /\ c.tree[t][q].orders[x] = b.tree[t][q].orders[x]
        /\ x # id \/ t # s \/ q # p
    BY <1>5, <1>9 DEF Drop
  <2>2. /\ x \in DOMAIN b.map
        /\ b.map[x].side = t /\ b.map[x].price = q
        /\ b.map[x].size = b.tree[t][q].orders[x]
    BY <2>1 DEF Exact, Mirrors
  <2>3. x # id
    BY <1>1, <2>1, <2>2
  <2> QED BY <1>8, <2>1, <2>2, <2>3
<1>11. AllShared(c)
  BY <1>8 DEF Exact, AllShared
<1> QED BY <1>3, <1>7, <1>10, <1>11 DEF Exact

\* KBook::modify gives index and limit the same new size.
LEMMA ModifyExact ==
  ASSUME NEW b, Exact(b), NEW id \in DOMAIN b.map, NEW size \in Size
  PROVE  /\ Exact(ModifyOrder(b, id, size))
         /\ ModifyOrder(b, id, size).map[id].size = size
<1>1. PICK s \in Side, p \in Price : s = b.map[id].side /\ p = b.map[id].price
  BY DEF Exact, BookInv, IsBook, IsIndex, Order
<1>2. PICK k : k = LimitModify(b.tree[s][p], id, size)
  OBVIOUS
<1>3. PICK c : c = ModifyOrder(b, id, size)
  OBVIOUS
<1>4. p \in DOMAIN b.tree[s] /\ id \in DOMAIN b.tree[s][p].orders /\ b.map[id].shared
  BY <1>1 DEF Exact, BookInv, Indexed, AllShared
<1>5. k.orders = Put(b.tree[s][p].orders, id, size)
  BY <1>2, <1>4 DEF LimitModify
<1>6. c = [map |-> [b.map EXCEPT ![id].size = size], tree |-> SetLimit(b.tree, s, p, k)]
  BY <1>1, <1>2, <1>3, <1>4 DEF ModifyOrder
<1>7. BookInv(c)
  BY <1>3, ModifyPreserves DEF Exact
<1>8. /\ DOMAIN c.map = DOMAIN b.map
      /\ c.map[id].size = size
      /\ c.map[id].side = s /\ c.map[id].price = p /\ c.map[id].shared
      /\ \A x \in DOMAIN b.map \ {id} : c.map[x] = b.map[x]
  BY <1>1, <1>4, <1>6 DEF Exact, BookInv, IsBook, IsIndex, Order
<1>9. /\ DOMAIN c.tree[s] = DOMAIN b.tree[s]
      /\ c.tree[s][p] = k
      /\ \A q \in DOMAIN b.tree[s] \ {p} : c.tree[s][q] = b.tree[s][q]
      /\ \A x \in Side \ {s} : c.tree[x] = b.tree[x]
  <2>1. c.tree = [x \in Side |-> IF x = s THEN Put(b.tree[s], p, k) ELSE b.tree[x]]
    BY <1>6 DEF SetLimit, Exact, BookInv, IsBook
  <2> QED BY <1>4, <2>1 DEF Put
<1>10. Mirrors(c)
  <2> SUFFICES ASSUME NEW t \in Side, NEW q \in DOMAIN c.tree[t],
                      NEW x \in DOMAIN c.tree[t][q].orders
               PROVE  /\ x \in DOMAIN c.map
                      /\ c.map[x].side = t /\ c.map[x].price = q
                      /\ c.map[x].size = c.tree[t][q].orders[x]
    BY DEF Mirrors
  <2>1. CASE t = s /\ q = p /\ x = id
    BY <2>1, <1>4, <1>5, <1>8, <1>9 DEF Put
  <2>2. CASE t # s \/ q # p \/ x # id
    <3>1. /\ q \in DOMAIN b.tree[t]
          /\ x \in DOMAIN b.tree[t][q].orders
          /\ c.tree[t][q].orders[x] = b.tree[t][q].orders[x]
      BY <2>2, <1>4, <1>5, <1>9 DEF Put
    <3>2. /\ x \in DOMAIN b.map
          /\ b.map[x].side = t /\ b.map[x].price = q
          /\ b.map[x].size = b.tree[t][q].orders[x]
      BY <3>1 DEF Exact, Mirrors
    <3>3. x # id
      BY <1>1, <2>2, <3>2
    <3> QED BY <1>8, <3>1, <3>2, <3>3
  <2> QED BY <2>1, <2>2
<1>11. AllShared(c)
  BY <1>8 DEF Exact, AllShared
<1> QED BY <1>3, <1>7, <1>8, <1>10, <1>11 DEF Exact

-----------------------------------------------------------------------------
(* The running totals.                                                     *)

\* A limit with finitely many orders and the total of their sizes.
LimitSums(l) ==
  /\ IsFiniteSet(DOMAIN l.orders)
  /\ l.volume = SumFunction(l.orders) % VolMod

BookSums(b) == \A s \in Side : \A p \in DOMAIN b.tree[s] : LimitSums(b.tree[s][p])

LEMMA LimitSumInt ==
  ASSUME NEW l, IsLimit(l), LimitSums(l)
  PROVE  /\ \A id \in DOMAIN l.orders : l.orders[id] \in Int
         /\ SumFunction(l.orders) \in Int
<1>1. \A id \in DOMAIN l.orders : l.orders[id] \in Int
  BY KBookAssumption DEF IsLimit
<1>2. SumFunctionOnSet(l.orders, DOMAIN l.orders) \in Int
  BY <1>1, SumInt DEF LimitSums
<1> QED BY <1>1, <1>2 DEF SumFunction

\* KLimit::addOrder adds the size of the order it accepts.
LEMMA LimitAddSums ==
  ASSUME NEW l, IsLimit(l), LimitSums(l), NEW id \in OrderId, NEW size \in Size
  PROVE  LimitSums(LimitAdd(l, id, size))
<1>1. CASE LimitAccepts(l, id)
  <2>1. PICK n : n = Put(l.orders, id, size)
    OBVIOUS
  <2>2. PICK D : D = DOMAIN l.orders
    OBVIOUS
  <2>3. LimitAdd(l, id, size) = [orders |-> n, volume |-> (l.volume + size) % VolMod]
    BY <1>1, <2>1 DEF LimitAdd
  <2>4. /\ DOMAIN n = D \cup {id} /\ id \notin D /\ n[id] = size
        /\ \A x \in D : n[x] = l.orders[x]
    BY <1>1, <2>1, <2>2 DEF Put, LimitAccepts
  <2>5. IsFiniteSet(D) /\ IsFiniteSet(D \cup {id})
    BY <2>2, FS_AddElement DEF LimitSums
  <2>6. size \in Int /\ \A x \in D : l.orders[x] \in Int
    BY <2>2, LimitSumInt, KBookAssumption
  <2>7. SumFunctionOnSet(n, D \cup {id}) = SumFunctionOnSet(n, D) + n[id]
    BY <2>4, <2>5, <2>6, SumAdd
  <2>8. SumFunctionOnSet(n, D) = SumFunctionOnSet(l.orders, D)
    BY <2>4, <2>5, SumSame
  <2>9. SumFunction(n) = SumFunction(l.orders) + size
    BY <2>2, <2>4, <2>7, <2>8 DEF SumFunction
  <2>10. ((SumFunction(l.orders) % VolMod) + size) % VolMod
           = (SumFunction(l.orders) + size) % VolMod
    BY <2>6, LimitSumInt, ModAdd, KBookAssumption
  <2> QED BY <2>3, <2>4, <2>5, <2>9, <2>10 DEF LimitSums
<1>2. CASE ~LimitAccepts(l, id)
  BY <1>2 DEF LimitAdd
<1> QED BY <1>1, <1>2

\* KLimit::removeOrder takes the size of the order off.
LEMMA LimitRemoveSums ==
  ASSUME NEW l, IsLimit(l), LimitSums(l), NEW id \in DOMAIN l.orders
  PROVE  LimitSums(LimitRemove(l, id))
<1>1. PICK n : n = Drop(l.orders, id)
  OBVIOUS
<1>2. PICK D : D = DOMAIN l.orders
  OBVIOUS
<1>3. LimitRemove(l, id) = [orders |-> n, volume |-> (l.volume - l.orders[id]) % VolMod]
  BY <1>1 DEF LimitRemove
<1>4. /\ DOMAIN n = D \ {id} /\ id \in D
      /\ \A x \in D \ {id} : n[x] = l.orders[x]
  BY <1>1, <1>2 DEF Drop
<1>5. IsFiniteSet(D) /\ IsFiniteSet(D \ {id})
  BY <1>2, FS_RemoveElement DEF LimitSums
<1>6. \A x \in D : l.orders[x] \in Int
  BY <1>2, LimitSumInt
<1>7. SumFunctionOnSet(l.orders, D \ {id}) = SumFunctionOnSet(l.orders, D) - l.orders[id]
  BY <1>4, <1>5, <1>6, SumRemove
<1>8. SumFunctionOnSet(n, D \ {id}) = SumFunctionOnSet(l.orders, D \ {id})
  BY <1>4, <1>5, SumSame
<1>9. PICK d \in Int : d = 0 - l.orders[id]
  BY <1>4, <1>6
<1>10. SumFunction(n) = SumFunction(l.orders) + d
  BY <1>2, <1>4, <1>6, <1>7, <1>8, <1>9, LimitSumInt DEF SumFunction
<1>11. ((SumFunction(l.orders) % VolMod) + d) % VolMod = (SumFunction(l.orders) + d) % VolMod
  BY LimitSumInt, ModAdd, KBookAssumption
<1>12. l.volume - l.orders[id] = (SumFunction(l.orders) % VolMod) + d
  BY <1>2, <1>4, <1>6, <1>9, KBookAssumption DEF LimitSums, IsLimit
<1> QED BY <1>3, <1>4, <1>5, <1>10, <1>11, <1>12 DEF LimitSums

\* KLimit::modifyOrder replaces the old size by the new one.
LEMMA LimitModifySums ==
  ASSUME NEW l, IsLimit(l), LimitSums(l), NEW id \in OrderId, NEW size \in Size
  PROVE  LimitSums(LimitModify(l, id, size))
<1>1. CASE id \in DOMAIN l.orders
  <2>1. PICK n : n = Put(l.orders, id, size)
    OBVIOUS
  <2>2. PICK D : D = DOMAIN l.orders
    OBVIOUS
  <2>3. LimitModify(l, id, size)
          = [orders |-> n, volume |-> (l.volume - l.orders[id] + size) % VolMod]
    BY <1>1, <2>1 DEF LimitModify
  <2>4. /\ DOMAIN n = D /\ id \in D /\ n[id] = size
        /\ \A x \in D \ {id} : n[x] = l.orders[x]
    BY <1>1, <2>1, <2>2 DEF Put
  <2>5. IsFiniteSet(D) /\ IsFiniteSet(D \ {id})
    BY <2>2, FS_RemoveElement DEF LimitSums
  <2>6. size \in Int /\ (\A x \in D : l.orders[x] \in Int) /\ \A x \in D : n[x] \in Int
    BY <2>2, <2>4, LimitSumInt, KBookAssumption
  <2>7. SumFunctionOnSet(l.orders, D \ {id}) = SumFunctionOnSet(l.orders, D) - l.orders[id]
    BY <2>4, <2>5, <2>6, SumRemove
  <2>8. SumFunctionOnSet(n, D \ {id}) = SumFunctionOnSet(n, D) - n[id]
    BY <2>4, <2>5, <2>6, SumRemove
  <2>9. SumFunctionOnSet(n, D \ {id}) = SumFunctionOnSet(l.orders, D \ {id})
    BY <2>4, <2>5, SumSame
  <2>10. SumFunctionOnSet(n, D) \in Int
    BY <2>5, <2>6, SumInt
  <2>11. PICK d \in Int : d = size - l.orders[id]
    BY <2>4, <2>6
  <2>12. SumFunction(n) = SumFunction(l.orders) + d
    BY <2>2, <2>4, <2>6, <2>7, <2>8, <2>9, <2>10, <2>11, LimitSumInt DEF SumFunction
  <2>13. ((SumFunction(l.orders) % VolMod) + d) % VolMod = (SumFunction(l.orders) + d) % VolMod
    BY LimitSumInt, ModAdd, KBookAssumption
  <2>14. l.volume - l.orders[id] + size = (SumFunction(l.orders) % VolMod) + d
    BY <2>2, <2>4, <2>6, <2>11, KBookAssumption DEF LimitSums, IsLimit
  <2> QED BY <2>3, <2>4, <2>5, <2>12, <2>13, <2>14 DEF LimitSums
<1>2. CASE id \notin DOMAIN l.orders
  BY <1>2 DEF LimitModify
<1> QED BY <1>1, <1>2

\* A book in which one limit was set or dropped.
LEMMA SetSums ==
  ASSUME NEW b, BookInv(b), BookSums(b), NEW c, NEW s \in Side, NEW p \in Price, NEW k,
         IsLimit(k), LimitSums(k), c.tree = SetLimit(b.tree, s, p, k)
  PROVE  BookSums(c)
<1>1. /\ b.tree = [x \in Side |-> b.tree[x]]
      /\ \A x \in Side : IsTree(b.tree[x])
  BY DEF BookInv, IsBook
<1>2. /\ DOMAIN c.tree[s] = DOMAIN b.tree[s] \cup {p}
      /\ c.tree[s][p] = k
      /\ \A q \in DOMAIN b.tree[s] \ {p} : c.tree[s][q] = b.tree[s][q]
      /\ \A x \in Side \ {s} : c.tree[x] = b.tree[x]
  BY <1>1, SetLimitLemma
<1> QED BY <1>2 DEF BookSums

LEMMA DropSums ==
  ASSUME NEW b, BookInv(b), BookSums(b), NEW c, NEW s \in Side, NEW p,
         c.tree = DropLimit(b.tree, s, p)
  PROVE  BookSums(c)
<1>1. /\ b.tree = [x \in Side |-> b.tree[x]]
      /\ \A x \in Side : IsTree(b.tree[x])
  BY DEF BookInv, IsBook
<1>2. /\ DOMAIN c.tree[s] = DOMAIN b.tree[s] \ {p}
      /\ \A q \in DOMAIN b.tree[s] \ {p} : c.tree[s][q] = b.tree[s][q]
      /\ \A x \in Side \ {s} : c.tree[x] = b.tree[x]
  BY <1>1, DropLimitLemma
<1> QED BY <1>2 DEF BookSums

LEMMA EmptySums == BookSums(EmptyBook)
BY DEF BookSums, EmptyBook, EmptyFcn

LEMMA AddSums ==
  ASSUME NEW b, BookInv(b), BookSums(b), NEW id \in OrderId, NEW s \in Side,
         NEW size \in Size, NEW p \in Price
  PROVE  BookSums(AddOrder(b, id, s, size, p))
<1>1. PICK l : l = IF HasLimit(b, s, p) THEN b.tree[s][p] ELSE NewLimit
  OBVIOUS
<1>2. IsLimit(NewLimit) /\ LimitSums(NewLimit)
  <2>1. DOMAIN NewLimit.orders = {} /\ NewLimit.volume = 0
    BY DEF NewLimit, EmptyFcn
  <2>2. IsFiniteSet({}) /\ SumFunctionOnSet(NewLimit.orders, {}) = 0
    BY FS_EmptySet, SumEmpty
  <2>3. 0 % VolMod = 0
    BY KBookAssumption
  <2>4. IsLimit(NewLimit)
    BY KBookAssumption DEF IsLimit, NewLimit, EmptyFcn
  <2> QED BY <2>1, <2>2, <2>3, <2>4 DEF LimitSums, SumFunction
<1>3. HasLimit(b, s, p) => IsLimit(b.tree[s][p]) /\ LimitSums(b.tree[s][p])
  BY DEF HasLimit, BookInv, IsBook, IsTree, BookSums
<1>4. IsLimit(l) /\ LimitSums(l)
  BY <1>1, <1>2, <1>3
<1>5. IsLimit(LimitAdd(l, id, size)) /\ LimitSums(LimitAdd(l, id, size))
  BY <1>4, LimitAddLemma, LimitAddSums
<1>6. AddOrder(b, id, s, size, p).tree = SetLimit(b.tree, s, p, LimitAdd(l, id, size))
  BY <1>1 DEF AddOrder
<1> QED BY <1>5, <1>6, SetSums

\* What remove and modify find through the index.
LEMMA IndexedLimit ==
  ASSUME NEW b, BookInv(b), BookSums(b), NEW id \in DOMAIN b.map
  PROVE  LET s == b.map[id].side
             p == b.map[id].price
         IN  /\ id \in OrderId /\ s \in Side /\ p \in Price /\ p \in DOMAIN b.tree[s]
             /\ IsLimit(b.tree[s][p]) /\ LimitSums(b.tree[s][p])
             /\ id \in DOMAIN b.tree[s][p].orders
<1>1. id \in OrderId /\ b.map[id].side \in Side /\ b.map[id].price \in Price
  BY DEF BookInv, IsBook, IsIndex, Order
<1> QED BY <1>1 DEF BookInv, IsBook, IsTree, Indexed, BookSums

LEMMA RemoveSums ==
  ASSUME NEW b, BookInv(b), BookSums(b), NEW id \in DOMAIN b.map
  PROVE  BookSums(RemoveOrder(b, id))
<1>1. PICK s \in Side, p \in Price : s = b.map[id].side /\ p = b.map[id].price
  BY IndexedLimit
<1>2. PICK k : k = LimitRemove(b.tree[s][p], id)
  OBVIOUS
<1>3. IsLimit(k) /\ LimitSums(k)
  BY <1>1, <1>2, IndexedLimit, LimitRemoveLemma, LimitRemoveSums
<1>4. RemoveOrder(b, id).tree = IF DOMAIN k.orders = {} THEN DropLimit(b.tree, s, p)
                                ELSE SetLimit(b.tree, s, p, k)
  BY <1>1, <1>2 DEF RemoveOrder
<1>5. CASE DOMAIN k.orders = {}
  BY <1>4, <1>5, DropSums
<1>6. CASE DOMAIN k.orders # {}
  BY <1>3, <1>4, <1>6, SetSums
<1> QED BY <1>5, <1>6

LEMMA ModifySums ==
  ASSUME NEW b, BookInv(b), BookSums(b), NEW id \in DOMAIN b.map, NEW size \in Size
  PROVE  BookSums(ModifyOrder(b, id, size))
<1>1. PICK s \in Side, p \in Price : s = b.map[id].side /\ p = b.map[id].price
  BY IndexedLimit
<1>2. PICK k : k = LimitModify(b.tree[s][p], id, size)
  OBVIOUS
<1>3. IsLimit(k) /\ LimitSums(k)
  BY <1>1, <1>2, IndexedLimit, LimitModifyLemma, LimitModifySums
<1>4. ModifyOrder(b, id, size).tree = SetLimit(b.tree, s, p, k)
  BY <1>1, <1>2 DEF ModifyOrder
<1> QED BY <1>3, <1>4, SetSums

\* KBook::bestPrice finds a limit of the tree, and none is better; an empty
\* side is answered with a value that is no price.
LEMMA BestPriceLemma ==
  ASSUME NEW b, BookInv(b), NEW s \in Side
  PROVE  /\ DOMAIN b.tree[s] = {} => BestPrice(b, s) \notin Price
         /\ DOMAIN b.tree[s] # {} => BestPrice(b, s) \in DOMAIN b.tree[s]
         /\ \A p \in DOMAIN b.tree[s] : IF s = "BID" THEN p <= BestPrice(b, s)
                                                     ELSE BestPrice(b, s) <= p
<1>1. PICK D : D = DOMAIN b.tree[s]
  OBVIOUS
<1>2. /\ NO_BID \in Int /\ NO_ASK \in Int /\ NO_BID \notin Price /\ NO_ASK \notin Price
      /\ D \subseteq Int /\ \A p \in D : NO_BID <= p /\ p <= NO_ASK
  <2>1. D \subseteq Price
    BY <1>1 DEF BookInv, IsBook, IsTree
  <2>2. \A p \in Price : p \in Int /\ NO_BID < p /\ p < NO_ASK
    BY KBookAssumption
  <2>3. NO_BID \in Int /\ NO_ASK \in Int
    BY KBookAssumption
  <2>4. NO_BID \notin Price /\ NO_ASK \notin Price
    BY <2>2, <2>3
  <2> QED BY <2>1, <2>2, <2>3, <2>4
<1>3. CASE D = {}
  BY <1>1, <1>2, <1>3 DEF BestPrice
<1>4. CASE D # {} /\ s = "BID"
  <2>1. Max(D) \in D /\ \A p \in D : p <= Max(D)
    BY <1>2, <1>4, MaxLemma
  <2> QED BY <1>1, <1>4, <2>1 DEF BestPrice
<1>5. CASE D # {} /\ s # "BID"
  <2>1. Min(D) \in D /\ \A p \in D : Min(D) <= p
    BY <1>2, <1>5, MinLemma
  <2> QED BY <1>1, <1>5, <2>1 DEF BestPrice
<1> QED BY <1>3, <1>4, <1>5

-----------------------------------------------------------------------------
(* What an exact book shows of its orders.                                 *)

\* Orders given by id, with the sides, prices and sizes of the index.
ShowsOrders(b, live) ==
  /\ DOMAIN live = DOMAIN b.map
  /\ \A id \in DOMAIN b.map : /\ live[id].side = b.map[id].side
                              /\ live[id].price = b.map[id].price
                              /\ live[id].size = b.map[id].size

OrdersOnSide(live, s) == {id \in DOMAIN live : live[id].side = s}

\* A side has a limit at the prices of its orders, each with the orders of
\* that price.
LEMMA LimitsAreOrders ==
  ASSUME NEW b, Exact(b), NEW s \in Side, NEW live, ShowsOrders(b, live)
  PROVE  /\ {live[id].price : id \in OrdersOnSide(live, s)} = DOMAIN b.tree[s]
         /\ \A p \in DOMAIN b.tree[s] :
              {id \in OrdersOnSide(live, s) : live[id].price = p} = DOMAIN b.tree[s][p].orders
         /\ \A p \in DOMAIN b.tree[s] : \A id \in DOMAIN b.tree[s][p].orders :
              id \in DOMAIN live /\ live[id].size = b.tree[s][p].orders[id]
<1>1. PICK m : m = b.map
  OBVIOUS
<1>2. /\ DOMAIN live = DOMAIN m
      /\ \A id \in DOMAIN m : /\ live[id].side = m[id].side
                              /\ live[id].price = m[id].price
                              /\ live[id].size = m[id].size
  BY <1>1 DEF ShowsOrders
<1>3. PICK on : on = OrdersOnSide(live, s)
  OBVIOUS
<1>4. on = {id \in DOMAIN m : m[id].side = s}
  BY <1>2, <1>3 DEF OrdersOnSide
<1>5. \A id \in on : /\ m[id].price \in DOMAIN b.tree[s]
                     /\ id \in DOMAIN b.tree[s][m[id].price].orders
  BY <1>1, <1>4 DEF Exact, BookInv, Indexed
<1>6. \A p \in DOMAIN b.tree[s] : \A id \in DOMAIN b.tree[s][p].orders :
        id \in on /\ m[id].price = p /\ m[id].size = b.tree[s][p].orders[id]
  BY <1>1, <1>4 DEF Exact, Mirrors
<1>7. \A p \in DOMAIN b.tree[s] : DOMAIN b.tree[s][p].orders # {}
  BY DEF Exact, BookInv, LimitsNonEmpty
<1>8. {live[id].price : id \in on} = DOMAIN b.tree[s]
  <2>1. \A id \in on : live[id].price = m[id].price
    BY <1>2, <1>4
  <2> QED BY <2>1, <1>5, <1>6, <1>7
<1>9. \A p \in DOMAIN b.tree[s] :
        {id \in on : live[id].price = p} = DOMAIN b.tree[s][p].orders
  BY <1>2, <1>4, <1>5, <1>6
<1> QED BY <1>2, <1>3, <1>4, <1>6, <1>8, <1>9

\* bestPriceVolume is the total of the orders at the best price.
LEMMA BestVolumeIsSum ==
  ASSUME NEW b, Exact(b), BookSums(b), NEW s \in Side, NEW live, ShowsOrders(b, live)
  PROVE  BestPriceVolume(b, s)
           = SumFunctionOnSet([id \in DOMAIN live |-> live[id].size],
                              {id \in OrdersOnSide(live, s) : live[id].price = BestPrice(b, s)})
             % VolMod
<1>1. PICK p : p = BestPrice(b, s)
  OBVIOUS
<1>2. PICK f : f = [id \in DOMAIN live |-> live[id].size]
  OBVIOUS
<1>3. PICK R : R = {id \in OrdersOnSide(live, s) : live[id].price = p}
  OBVIOUS
<1>4. CASE DOMAIN b.tree[s] = {}
  <2>1. BestPriceVolume(b, s) = 0
    BY <1>4 DEF BestPriceVolume, TotalVolumeAtLimit, HasLimit
  <2>2. R = {}
    BY <1>3, <1>4, LimitsAreOrders
  <2>3. SumFunctionOnSet(f, R) % VolMod = 0
    BY <2>2, SumEmpty, KBookAssumption
  <2> QED BY <1>1, <1>2, <1>3, <2>1, <2>3
<1>5. CASE DOMAIN b.tree[s] # {}
  <2>1. p \in DOMAIN b.tree[s]
    BY <1>1, <1>5, BestPriceLemma DEF Exact
  <2>2. PICK l : l = b.tree[s][p]
    OBVIOUS
  <2>3. LimitSums(l) /\ R = DOMAIN l.orders
    BY <1>3, <2>1, <2>2, LimitsAreOrders DEF BookSums
  <2>4. \A id \in R : f[id] = l.orders[id]
    BY <1>2, <2>1, <2>2, <2>3, LimitsAreOrders
  <2>5. SumFunctionOnSet(f, R) = SumFunctionOnSet(l.orders, R)
    BY <2>3, <2>4, SumSame DEF LimitSums
  <2>6. l.volume = SumFunctionOnSet(f, R) % VolMod
    BY <2>3, <2>5 DEF LimitSums, SumFunction
  <2>7. BestPriceVolume(b, s) = l.volume
    BY <1>1, <2>1, <2>2 DEF BestPriceVolume, TotalVolumeAtLimit, HasLimit
  <2> QED BY <1>1, <1>2, <1>3, <2>6, <2>7
<1> QED BY <1>4, <1>5

-----------------------------------------------------------------------------
(* The book and its caller.                                                *)

IInv == BookInv(book) /\ BookSums(book) /\ fault = "none"

\* Every call keeps the book consistent, and remove runs into no fault.
LEMMA InvStep == IInv /\ [BookNext]_bookVars => IInv'
<1> SUFFICES ASSUME IInv, [BookNext]_bookVars PROVE IInv'
  OBVIOUS
<1>1. ASSUME NEW id \in OrderId, NEW s \in SideArg, NEW size \in Size, NEW p \in Price,
             AddCall(id, s, size, p)
      PROVE  IInv'
  <2>1. BookInv(Add(book, id, s, size, p)) /\ BookSums(Add(book, id, s, size, p))
    BY AddPreserves, AddSums DEF IInv, Add
  <2> QED BY <1>1, <2>1 DEF IInv, AddCall
<1>2. ASSUME NEW id \in OrderId, RemoveCall(id)
      PROVE  IInv'
  <2>1. fault' = "none" /\ book' = Remove(book, id)
    BY <1>2, RemoveFinds DEF RemoveCall, IInv
  <2>2. BookInv(Remove(book, id)) /\ BookSums(Remove(book, id))
    BY RemoveFinds, RemovePreserves, RemoveSums DEF IInv, Remove
  <2> QED BY <2>1, <2>2 DEF IInv
<1>3. ASSUME NEW id \in OrderId, NEW size \in Size, ModifyCall(id, size)
      PROVE  IInv'
  <2>1. BookInv(Modify(book, id, size)) /\ BookSums(Modify(book, id, size))
    BY RemoveFinds, ModifyPreserves, ModifySums DEF IInv, Modify
  <2> QED BY <1>3, <2>1 DEF IInv, ModifyCall
<1>4. CASE ClearCall
  BY <1>4, EmptyBookInv, EmptySums DEF ClearCall, Clear, IInv
<1>5. CASE UNCHANGED bookVars
  BY <1>5 DEF bookVars, IInv
<1> QED BY <1>1, <1>2, <1>3, <1>4, <1>5 DEF BookNext

\* Whatever sequence of calls a caller makes (duplicate ids included), the
\* book is a book, its index leads to the limit that queues each order, no
\* limit is empty, and KBook::remove neither fails its assertion nor
\* dereferences the end of a tree.
THEOREM BookCorrect ==
  BookSpec => [](BookTypeOK /\ IndexConsistent /\ NoEmptyLimit /\ RemoveNeverFaults)
<1>1. BookInit => IInv
  BY EmptyBookInv, EmptySums DEF BookInit, IInv
<1>2. IInv => BookTypeOK /\ IndexConsistent /\ NoEmptyLimit /\ RemoveNeverFaults
  BY DEF IInv, BookInv, BookTypeOK, IndexConsistent, NoEmptyLimit, RemoveNeverFaults
<1> QED BY <1>1, <1>2, InvStep, PTL DEF BookSpec

\* The volume of every limit is the sum of the sizes queued at it, modulo the
\* width of _totalVolume, and bestPrice answers with the price of a limit
\* somebody is queued at that no order of the index beats.
THEOREM TopOfBookCorrect == BookSpec => [](VolumeIsSum /\ BestPriceIsBest)
<1>1. BookInit => IInv
  BY EmptyBookInv, EmptySums DEF BookInit, IInv
<1>2. ASSUME IInv PROVE VolumeIsSum
  BY <1>2 DEF IInv, BookSums, LimitSums, VolumeIsSum, VolumesAreSums
<1>3. ASSUME IInv PROVE BestPriceIsBest
  <2>1. BookInv(book) /\ BookSums(book)
    BY <1>3 DEF IInv
  <2>2. ASSUME NEW s \in Side, BestPrice(book, s) \in Price
        PROVE  OrderCountAtLimit(book, s, BestPrice(book, s)) > 0
    <3>1. PICK p : p = BestPrice(book, s)
      OBVIOUS
    <3>2. p \in DOMAIN book.tree[s]
      BY <2>1, <2>2, <3>1, BestPriceLemma
    <3>3. PICK D : D = DOMAIN book.tree[s][p].orders
      OBVIOUS
    <3>4. IsFiniteSet(D) /\ D # {}
      BY <2>1, <3>2, <3>3 DEF BookSums, LimitSums, BookInv, LimitsNonEmpty
    <3>5. Cardinality(D) \in Nat /\ Cardinality(D) # 0
      BY <3>4, FS_EmptySet, FS_CardinalityType
    <3> QED BY <3>1, <3>2, <3>3, <3>5 DEF OrderCountAtLimit, HasLimit
  <2>3. ASSUME NEW id \in DOMAIN book.map
        PROVE  LET o == book.map[id]
               IN  /\ o.side = "BID" => BestPrice(book, "BID") >= o.price
                   /\ o.side = "ASK" => BestPrice(book, "ASK") <= o.price
    <3>1. PICK s \in Side, p \in Price : /\ s = book.map[id].side /\ p = book.map[id].price
                                         /\ p \in DOMAIN book.tree[s]
      BY <2>1, IndexedLimit
    <3>2. IF s = "BID" THEN p <= BestPrice(book, s) ELSE BestPrice(book, s) <= p
      BY <2>1, <3>1, BestPriceLemma
    <3> QED BY <3>1, <3>2
  <2> QED BY <2>2, <2>3 DEF BestPriceIsBest
<1> QED BY <1>1, <1>2, <1>3, InvStep, PTL DEF BookSpec

UInv == Exact(book) /\ BookSums(book) /\ fault = "none"

\* Every call of a caller that adds no indexed id keeps index and trees equal.
LEMMA UniqueStep == UInv /\ [NextUnique]_bookVars => UInv'
<1> SUFFICES ASSUME UInv, [NextUnique]_bookVars PROVE UInv'
  OBVIOUS
<1>0. BookInv(book)
  BY DEF UInv, Exact
<1>1. ASSUME NEW id \in OrderId \ DOMAIN book.map, NEW s \in SideArg, NEW size \in Size,
             NEW p \in Price, AddCall(id, s, size, p)
      PROVE  UInv'
  <2>1. Exact(Add(book, id, s, size, p)) /\ BookSums(Add(book, id, s, size, p))
    BY <1>0, AddExact, AddSums DEF UInv, Add
  <2> QED BY <1>1, <2>1 DEF UInv, AddCall
<1>2. ASSUME NEW id \in OrderId, RemoveCall(id)
      PROVE  UInv'
  <2>1. fault' = "none" /\ book' = Remove(book, id)
    BY <1>0, <1>2, RemoveFinds DEF RemoveCall
  <2>2. Exact(Remove(book, id)) /\ BookSums(Remove(book, id))
    BY <1>0, RemoveFinds, RemoveExact, RemoveSums DEF UInv, Remove
  <2> QED BY <2>1, <2>2 DEF UInv
<1>3. ASSUME NEW id \in OrderId, NEW size \in Size, ModifyCall(id, size)
      PROVE  UInv'
  <2>1. Exact(Modify(book, id, size)) /\ BookSums(Modify(book, id, size))
    BY <1>0, RemoveFinds, ModifyExact, ModifySums DEF UInv, Modify
  <2> QED BY <1>3, <2>1 DEF UInv, ModifyCall
<1>4. CASE ClearCall
  <2>1. Exact(EmptyBook)
    BY EmptyBookInv DEF Exact, Mirrors, AllShared, EmptyBook, EmptyFcn
  <2> QED BY <1>4, <2>1, EmptySums DEF ClearCall, Clear, UInv
<1>5. CASE UNCHANGED bookVars
  BY <1>5 DEF bookVars, UInv
<1> QED BY <1>1, <1>2, <1>3, <1>4, <1>5 DEF NextUnique

\* With that caller index and trees are equal at every moment.
LEMMA UniqueInv == SpecUnique => []UInv
<1>1. BookInit => UInv
  <2>1. Exact(EmptyBook)
    BY EmptyBookInv DEF Exact, Mirrors, AllShared, EmptyBook, EmptyFcn
  <2> QED BY <2>1, EmptySums DEF BookInit, UInv
<1> QED BY <1>1, UniqueStep, PTL DEF SpecUnique

\* With a caller that never adds an id that is still indexed, no order is ever
\* left at a limit that the index has lost, and sizes agree.
THEOREM UniqueIdsMirror == SpecUnique => []BookMirrorsIndex
<1>1. UInv => BookMirrorsIndex
  BY DEF UInv, Exact, BookMirrorsIndex
<1> QED BY <1>1, UniqueInv, PTL

-----------------------------------------------------------------------------
(* The refinement.                                                         *)

\* Both modules take sums and extrema from the same library.
LEMMA SameLibrary ==
  ASSUME NEW f, NEW S
  PROVE  /\ Abstract!SumFunctionOnSet(f, S) = SumFunctionOnSet(f, S)
         /\ Abstract!Max(S) = Max(S) /\ Abstract!Min(S) = Min(S)
<1>1. Abstract!SumFunctionOnSet(f, S) = SumFunctionOnSet(f, S)
  BY DEF Abstract!SumFunctionOnSet, Abstract!FoldFunctionOnSet, Abstract!MapThenFoldSet,
         SumFunctionOnSet, FoldFunctionOnSet, MapThenFoldSet
<1>2. Abstract!Max(S) = Max(S)
  BY DEF Abstract!Max, Max
<1>3. Abstract!Min(S) = Min(S)
  BY DEF Abstract!Min, Min
<1> QED BY <1>1, <1>2, <1>3

LEMMA LiveOfLemma ==
  ASSUME NEW b
  PROVE  /\ DOMAIN LiveOf(b) = DOMAIN b.map
         /\ \A id \in DOMAIN b.map : /\ LiveOf(b)[id].side = b.map[id].side
                                     /\ LiveOf(b)[id].price = b.map[id].price
                                     /\ LiveOf(b)[id].size = b.map[id].size
BY DEF LiveOf

\* bestPrice and bestPriceVolume answer as the live orders do.
LEMMA TopIsLive ==
  ASSUME NEW b, Exact(b), BookSums(b)
  PROVE  TopOfBook(b) = Abstract!TopOf(LiveOf(b))
<1>1. PICK live : live = LiveOf(b)
  OBVIOUS
<1>2. ShowsOrders(b, live)
  BY <1>1, LiveOfLemma DEF ShowsOrders
<1>3. ASSUME NEW s \in Side
      PROVE  /\ BestPrice(b, s) = Abstract!BestOf(live, s)
             /\ BestPriceVolume(b, s)
                  = Abstract!VolumeAt(live, s, Abstract!BestOf(live, s))
  <2>1. Abstract!OrdersOn(live, s) = OrdersOnSide(live, s)
    BY DEF Abstract!OrdersOn, OrdersOnSide
  <2>2. Abstract!PricesOn(live, s) = DOMAIN b.tree[s]
    BY <1>2, <2>1, LimitsAreOrders DEF Abstract!PricesOn
  <2>3. BestPrice(b, s) = Abstract!BestOf(live, s)
    BY <2>2, SameLibrary DEF BestPrice, Abstract!BestOf
  <2>4. BestPriceVolume(b, s) = Abstract!VolumeAt(live, s, BestPrice(b, s))
    BY <1>2, <2>1, BestVolumeIsSum, SameLibrary DEF Abstract!VolumeAt
  <2> QED BY <2>3, <2>4
<1> QED BY <1>1, <1>3 DEF TopOfBook, Abstract!TopOf, Abstract!Sides, Side

\* Each call of the book is a step of the live orders, or changes nothing.
LEMMA CallIsLive ==
  ASSUME UInv, UInv', [NextUnique]_bookVars
  PROVE  [Abstract!LiveNext]_<<LiveOf(book), TopOfBook(book)>>
<1>0. TopOfBook(book)' = Abstract!TopOf(LiveOf(book))'
  BY TopIsLive DEF UInv
<1>00. Exact(book) /\ BookInv(book)
  BY DEF UInv, Exact
<1>1. ASSUME NEW id \in OrderId \ DOMAIN book.map, NEW s \in SideArg, NEW size \in Size,
             NEW p \in Price, AddCall(id, s, size, p)
      PROVE  book' = book \/ (Abstract!Enter(id, s, size, p) /\ s \in Side)
  <2>1. CASE s \notin Side
    BY <1>1, <2>1 DEF AddCall, Add
  <2>2. CASE s \in Side
    <3>1. PICK o : o = book'.map[id]
      OBVIOUS
    <3>2. /\ book'.map = Put(book.map, id, o)
          /\ o.side = s /\ o.price = p /\ o.size = size
      BY <1>1, <2>2, <3>1 DEF AddCall, Add, AddOrder, Put
    <3>3. LiveOf(book')
            = Put(LiveOf(book), id, [side |-> s, price |-> p, size |-> size])
      BY <3>2 DEF LiveOf, Put
    <3>4. id \notin DOMAIN LiveOf(book)
      BY LiveOfLemma
    <3> QED BY <2>2, <3>3, <3>4 DEF Abstract!Enter, Abstract!Put, Put
  <2> QED BY <2>1, <2>2
<1>2. ASSUME NEW id \in OrderId, RemoveCall(id)
      PROVE  book' = book \/ Abstract!Leave(id)
  <2>1. book' = Remove(book, id)
    BY <1>00, <1>2, RemoveFinds DEF RemoveCall
  <2>2. CASE id \notin DOMAIN book.map
    BY <1>00, <2>1, <2>2, RemoveFinds DEF Remove
  <2>3. CASE id \in DOMAIN book.map
    <3>1. book'.map = Drop(book.map, id)
      BY <1>00, <2>1, <2>3, RemoveFinds DEF Remove, RemoveOrder
    <3>2. LiveOf(book') = Drop(LiveOf(book), id)
      BY <3>1 DEF LiveOf, Drop
    <3> QED BY <2>3, <3>2, LiveOfLemma DEF Abstract!Leave, Abstract!Drop, Drop
  <2> QED BY <2>2, <2>3
<1>3. ASSUME NEW id \in OrderId, NEW size \in Size, ModifyCall(id, size)
      PROVE  book' = book \/ Abstract!Resize(id, size)
  <2>1. CASE id \notin DOMAIN book.map
    BY <1>00, <1>3, <2>1, RemoveFinds DEF ModifyCall, Modify
  <2>2. CASE id \in DOMAIN book.map
    <3>1. book' = ModifyOrder(book, id, size)
      BY <1>00, <1>3, <2>2, RemoveFinds DEF ModifyCall, Modify
    <3>2. book'.map = [book.map EXCEPT ![id].size = size]
      BY <1>00, <2>2, <3>1 DEF ModifyOrder, Exact, AllShared, BookInv, Indexed
    <3>3. \A x \in DOMAIN book.map : book.map[x] \in Order
      BY <1>00 DEF BookInv, IsBook, IsIndex
    <3>4. LiveOf(book') = [LiveOf(book) EXCEPT ![id].size = size]
      BY <2>2, <3>2, <3>3 DEF LiveOf, Order
    <3> QED BY <2>2, <3>4, LiveOfLemma DEF Abstract!Resize
  <2> QED BY <2>1, <2>2
<1>4. ASSUME ClearCall
      PROVE  Abstract!Snapshot
  BY <1>4 DEF ClearCall, Clear, EmptyBook, EmptyFcn, LiveOf, Abstract!Snapshot,
              Abstract!EmptyFcn
<1>5. ASSUME book' = book
      PROVE  UNCHANGED <<LiveOf(book), TopOfBook(book)>>
  BY <1>5
<1>6. CASE book' = book
  BY <1>5, <1>6
<1>7. CASE book' # book
  BY <1>0, <1>1, <1>2, <1>3, <1>4, <1>7 DEF NextUnique, bookVars, Abstract!LiveNext, Abstract!Sides,
     Side
<1> QED BY <1>6, <1>7

\* With a caller that never adds an id that is still indexed, the book shows
\* through getOrder, bestPrice and bestPriceVolume exactly the set of its live
\* orders: every call is a step of LiveOrders, whose top of book is computed
\* from those orders anew.
THEOREM BookImplementsLiveOrders == SpecUnique => ImplementsLiveOrders
<1>1. ASSUME BookInit
      PROVE  Abstract!LiveInit
  <2>1. Exact(EmptyBook)
    BY EmptyBookInv DEF Exact, Mirrors, AllShared, EmptyBook, EmptyFcn
  <2>2. TopOfBook(book) = Abstract!TopOf(LiveOf(book))
    BY <1>1, <2>1, EmptySums, TopIsLive DEF BookInit
  <2>3. LiveOf(book) = EmptyFcn
    BY <1>1 DEF BookInit, EmptyBook, LiveOf, EmptyFcn
  <2> QED BY <2>2, <2>3 DEF Abstract!LiveInit, Abstract!EmptyFcn, EmptyFcn
<1>2. UInv /\ UInv' /\ [NextUnique]_bookVars
        => [Abstract!LiveNext]_<<LiveOf(book), TopOfBook(book)>>
  BY CallIsLive
<1> QED BY <1>1, <1>2, UniqueInv, PTL
        DEF SpecUnique, ImplementsLiveOrders, Abstract!LiveSpec
=============================================================================
