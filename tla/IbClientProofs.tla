--------------------------- MODULE IbClientProofs ---------------------------
(***************************************************************************)
(* Proofs about IbClient, for every script of whole messages, every        *)
(* version of TWS, every number of fields a read returns and every break   *)
(* of the connection.                                                      *)
(*                                                                         *)
(* The argument has three parts.  A message's size and its calls depend on *)
(* no field behind the message (SizeAgrees, CallsAgree), so what           *)
(* processMsg sees of a longer buffer it would see of the message alone,   *)
(* and a buffer that ends earlier is never taken for the whole message     *)
(* (NextMessage).  What TWS sends is one stream of fields, in which        *)
(* message i ends at EndsAt(i); the invariant places buffer and wire in    *)
(* it, and says that checkMessages always stands where a message ends      *)
(* (Parsed).  And a tick cannot come before its subscription, so none is   *)
(* read before there is a best bid and offer to keep it in (Asked).        *)
(***************************************************************************)
EXTENDS IbClient, SequenceTheorems, WellFoundedInduction, TLAPS

-----------------------------------------------------------------------------
\* f and g have the same first n fields.
Agree(f, g, n) ==
  n \in Nat /\ n <= Len(f) /\ n <= Len(g) /\ \A i \in 1 .. n : f[i] = g[i]

LEMMA SameField ==
  ASSUME NEW f \in Seq(Int), NEW g \in Seq(Int), NEW n, Agree(f, g, n),
         NEW i \in Nat \ {0}, i <= n
  PROVE  Field(f, i) = Field(g, i)
BY DEF Field, Agree

LEMMA FieldInt ==
  ASSUME NEW f \in Seq(Int), NEW i \in Nat \ {0}
  PROVE  Field(f, i) \in Int
BY DEF Field

LEMMA AlsoNat ==
  ASSUME NEW b, NEW n \in Nat
  PROVE  Also(b, n) \in Nat
BY DEF Also

LEMMA TimesNat ==
  ASSUME NEW x \in Int, NEW n \in Nat
  PROVE  Times(x, n) \in Nat
<1>1. CASE x > 0
  <2>1. x \in Nat
    BY <1>1
  <2>2. x * n \in Nat
    BY <2>1
  <2> QED BY <1>1, <2>2 DEF Times
<1>2. CASE ~(x > 0)
  BY <1>2 DEF Times
<1> QED BY <1>1, <1>2

LEMMA OptionAgrees ==
  ASSUME NEW f \in Seq(Int), NEW g \in Seq(Int), Agree(f, g, OptionComputationSize(f))
  PROVE  OptionComputationSize(g) = OptionComputationSize(f)
<1>1. OptionComputationSize(f) \in Nat /\ OptionComputationSize(f) >= 6
  BY AlsoNat DEF OptionComputationSize
<1>2. Field(f, 2) = Field(g, 2) /\ Field(f, 4) = Field(g, 4)
  BY <1>1, SameField
<1> QED BY <1>2 DEF OptionComputationSize, Version

LEMMA PortfolioAgrees ==
  ASSUME NEW f \in Seq(Int), NEW g \in Seq(Int), NEW v, Agree(f, g, PortfolioSize(f, v))
  PROVE  PortfolioSize(g, v) = PortfolioSize(f, v)
<1>1. PortfolioSize(f, v) \in Nat /\ PortfolioSize(f, v) >= 17
  BY AlsoNat DEF PortfolioSize
<1>2. Field(f, 2) = Field(g, 2)
  BY <1>1, SameField
<1> QED BY <1>2 DEF PortfolioSize, Version

LEMMA ContractAgrees ==
  ASSUME NEW f \in Seq(Int), NEW g \in Seq(Int), Agree(f, g, ContractSize(f))
  PROVE  ContractSize(g) = ContractSize(f)
<1>1. ContractSize(f) \in Nat /\ ContractSize(f) >= 18
  BY SMTT(30), AlsoNat DEF ContractSize
<1>2. Field(f, 2) = Field(g, 2)
  BY <1>1, SameField
<1> QED BY <1>2 DEF ContractSize, Version

LEMMA BondAgrees ==
  ASSUME NEW f \in Seq(Int), NEW g \in Seq(Int), Agree(f, g, BondSize(f))
  PROVE  BondSize(g) = BondSize(f)
<1>1. BondSize(f) \in Nat /\ BondSize(f) >= 27
  BY AlsoNat DEF BondSize
<1>2. Field(f, 2) = Field(g, 2)
  BY <1>1, SameField
<1> QED BY <1>2 DEF BondSize, Version

LEMMA ExecutionAgrees ==
  ASSUME NEW f \in Seq(Int), NEW g \in Seq(Int), Agree(f, g, ExecutionSize(f))
  PROVE  ExecutionSize(g) = ExecutionSize(f)
<1>1. ExecutionSize(f) \in Nat /\ ExecutionSize(f) >= 22
  BY AlsoNat DEF ExecutionSize
<1>2. Field(f, 2) = Field(g, 2)
  BY <1>1, SameField
<1> QED BY <1>2 DEF ExecutionSize, Version

LEMMA HistoricalAgrees ==
  ASSUME NEW f \in Seq(Int), NEW g \in Seq(Int), Agree(f, g, HistoricalSize(f))
  PROVE  HistoricalSize(g) = HistoricalSize(f)
<1>1. HistoricalSize(f) \in Nat /\ HistoricalSize(f) >= 6
  <2>1. Field(f, 6) \in Int
    BY FieldInt
  <2>2. Times(Field(f, 6), 9) \in Nat
    BY <2>1, TimesNat
  <2> QED BY <2>2 DEF HistoricalSize
<1>2. Field(f, 6) = Field(g, 6)
  BY <1>1, SameField
<1> QED BY <1>2 DEF HistoricalSize

LEMMA ScannerAgrees ==
  ASSUME NEW f \in Seq(Int), NEW g \in Seq(Int), Agree(f, g, ScannerSize(f))
  PROVE  ScannerSize(g) = ScannerSize(f)
<1>1. ScannerSize(f) \in Nat /\ ScannerSize(f) >= 4
  <2>1. Field(f, 4) \in Int
    BY FieldInt
  <2>2. Times(Field(f, 4), 16) \in Nat
    BY <2>1, TimesNat
  <2> QED BY <2>2 DEF ScannerSize
<1>2. Field(f, 4) = Field(g, 4)
  BY <1>1, SameField
<1> QED BY <1>2 DEF ScannerSize

\* The fields an open order has up to its delta neutral ones.
LEMMA HeadAgrees ==
  ASSUME NEW f \in Seq(Int), NEW g \in Seq(Int), NEW v, NEW n,
         Agree(f, g, n), OpenOrderHead(f, v) <= n
  PROVE  OpenOrderHead(g, v) = OpenOrderHead(f, v)
<1>1. n \in Nat
  BY DEF Agree
<1>2. PICK aux : aux = 61 + Also(v = MIN_SERVER_VER.SSHORTX_OLD \/ Version(f) >= 23, 1)
  OBVIOUS
<1>3. aux \in {61, 62}
  BY <1>2 DEF Also
<1>4. OpenOrderHead(f, v) = aux + Also(Version(f) >= 27 /\ Field(f, aux - 1) # 0, 4)
  BY <1>2 DEF OpenOrderHead
<1>5. aux <= n
  BY <1>1, <1>3, <1>4, AlsoNat DEF Also
<1>6. Field(f, 2) = Field(g, 2) /\ Field(f, aux - 1) = Field(g, aux - 1)
  BY <1>1, <1>3, <1>5, SameField
<1> QED BY <1>2, <1>4, <1>6 DEF OpenOrderHead, Version

LEMMA HeadNat ==
  ASSUME NEW f, NEW v
  PROVE  OpenOrderHead(f, v) \in Nat /\ OpenOrderHead(f, v) >= 61
BY DEF OpenOrderHead, Also

\* What is added for an optional field and what it decides.
LEMMA Optional ==
  ASSUME NEW b, NEW n \in Nat, NEW x \in Nat
  PROVE  /\ x + Also(b, 1 + n) \in Nat /\ x + Also(b, 1 + n) >= x
         /\ b => x + Also(b, 1 + n) >= x + 1
BY DEF Also


LEMMA OpenOrderAgrees ==
  ASSUME NEW f \in Seq(Int), NEW g \in Seq(Int), NEW v, Agree(f, g, OpenOrderSize(f, v))
  PROVE  OpenOrderSize(g, v) = OpenOrderSize(f, v)
<1>1. PICK ver, n : ver = Version(f) /\ n = OpenOrderSize(f, v)
  OBVIOUS
<1>2. PICK legs : legs = OpenOrderHead(f, v) + 6
  OBVIOUS
<1>3. PICK legPairs : legPairs = Times(Field(f, legs + 1), 2)
  OBVIOUS
<1>4. PICK scale : scale = legs + Also(ver >= 26, 1 + legPairs) + 3
  OBVIOUS
<1>5. PICK hedgeParam : hedgeParam = Also(Field(f, scale + 1) # 0, 1)
  OBVIOUS
<1>6. PICK notHeld :
        notHeld = scale + Also(ver >= 24, 1 + hedgeParam) + Also(ver >= 25, 1) + 2 + Also(ver >= 22, 1)
  OBVIOUS
<1>7. PICK underComp : underComp = Also(Field(f, notHeld + 1) > 0, 3)
  OBVIOUS
<1>8. PICK strategy : strategy = notHeld + Also(ver >= 20, 1 + underComp) + Also(ver >= 21, 1)
  OBVIOUS
<1>9. PICK algoPairs : algoPairs = Times(Field(f, strategy + 1), 2)
  OBVIOUS
<1>10. n = strategy + Also(ver >= 21 /\ Field(f, strategy) # 0, 1 + algoPairs) + 10
  BY <1>1, <1>2, <1>3, <1>4, <1>5, <1>6, <1>7, <1>8, <1>9 DEF OpenOrderSize
\* Every field read so far lies before the ones read later.
<1>11. legs \in Nat /\ legs >= 61
  BY <1>2, HeadNat
<1>12. legPairs \in Nat
  <2>1. Field(f, legs + 1) \in Int
    BY <1>11, FieldInt
  <2> QED BY <1>3, <2>1, TimesNat
<1>13. scale \in Nat /\ scale >= legs /\ (ver >= 26 => scale >= legs + 1)
  <2> DEFINE x == legs + Also(ver >= 26, 1 + legPairs)
  <2>1. x \in Nat /\ x >= legs /\ (ver >= 26 => x >= legs + 1)
    BY <1>11, <1>12, Optional
  <2> HIDE DEF x
  <2> QED BY <1>4, <1>11, <2>1 DEF x
<1>14. hedgeParam \in Nat /\ underComp \in Nat
  BY <1>5, <1>7, AlsoNat
<1>15. notHeld \in Nat /\ notHeld >= scale /\ (ver >= 24 => notHeld >= scale + 1)
  <2> DEFINE x == scale + Also(ver >= 24, 1 + hedgeParam)
  <2>1. x \in Nat /\ x >= scale /\ (ver >= 24 => x >= scale + 1)
    BY <1>13, <1>14, Optional
  <2>2. Also(ver >= 25, 1) \in Nat /\ Also(ver >= 22, 1) \in Nat
    BY AlsoNat
  <2> HIDE DEF x
  <2>3. PICK y, z : y = Also(ver >= 25, 1) /\ z = Also(ver >= 22, 1)
    OBVIOUS
  <2>4. y \in Nat /\ z \in Nat /\ notHeld = x + y + 2 + z
    BY <1>6, <2>2, <2>3 DEF x
  <2>5. notHeld \in Nat /\ notHeld >= x
    BY ONLY <2>1, <2>4
  <2> QED BY <1>13, <2>1, <2>5
<1>16. strategy \in Nat /\ strategy >= notHeld /\ (ver >= 20 => strategy >= notHeld + 1)
  <2> DEFINE x == notHeld + Also(ver >= 20, 1 + underComp)
  <2>1. x \in Nat /\ x >= notHeld /\ (ver >= 20 => x >= notHeld + 1)
    BY <1>14, <1>15, Optional
  <2>2. Also(ver >= 21, 1) \in Nat
    BY AlsoNat
  <2> HIDE DEF x
  <2>3. strategy = x + Also(ver >= 21, 1)
    BY <1>8 DEF x
  <2> QED BY <1>15, <2>1, <2>2, <2>3
<1>17. algoPairs \in Nat
  <2>1. Field(f, strategy + 1) \in Int
    BY <1>16, FieldInt
  <2> QED BY <1>9, <2>1, TimesNat
<1>18. n \in Nat /\ n >= strategy + 10
  <2> DEFINE x == strategy + Also(ver >= 21 /\ Field(f, strategy) # 0, 1 + algoPairs)
  <2>1. x \in Nat /\ x >= strategy
    BY <1>16, <1>17, Optional
  <2> HIDE DEF x
  <2>2. n = x + 10
    BY <1>10 DEF x
  <2> QED BY <1>16, <2>1, <2>2
\* So g has the same of each.
<1>19. Agree(f, g, n)
  BY <1>1
<1>20. /\ 2 <= n /\ OpenOrderHead(f, v) <= n
       /\ \A i \in {strategy, strategy + 1, notHeld + 1, scale + 1, legs + 1} :
            i \in Nat \ {0} /\ i <= n
  BY <1>2, <1>11, <1>13, <1>15, <1>16, <1>18, HeadNat
<1>21. Version(g) = ver /\ OpenOrderHead(g, v) + 6 = legs
  BY <1>1, <1>2, <1>19, <1>20, SameField, HeadAgrees DEF Version
<1>22. \A i \in {strategy, strategy + 1, notHeld + 1, scale + 1, legs + 1} :
         Field(f, i) = Field(g, i)
  BY <1>19, <1>20, SameField
<1>23. OpenOrderSize(g, v) =
         strategy + Also(ver >= 21 /\ Field(f, strategy) # 0, 1 + algoPairs) + 10
  BY <1>3, <1>4, <1>5, <1>6, <1>7, <1>8, <1>9, <1>21, <1>22 DEF OpenOrderSize
<1> QED BY <1>1, <1>10, <1>23

\* How many fields a message has depends on these fields only.
LEMMA SizeAgrees ==
  ASSUME NEW f \in Seq(Int), NEW g \in Seq(Int), NEW v, f[1] = g[1],
         Agree(f, g, MsgSize(f, v))
  PROVE  MsgSize(g, v) = MsgSize(f, v)
<1>1. CASE f[1] \in FixedIds
  BY <1>1 DEF MsgSize
<1>2. CASE f[1] \notin FixedIds
  <2> DEFINE known == {MsgId.TICK_OPTION_COMPUTATION, MsgId.PORTFOLIO_VALUE, MsgId.CONTRACT_DATA,
                       MsgId.BOND_CONTRACT_DATA, MsgId.EXECUTION_DATA, MsgId.HISTORICAL_DATA,
                       MsgId.SCANNER_DATA, MsgId.OPEN_ORDER}
  <2>1. CASE f[1] = MsgId.TICK_OPTION_COMPUTATION
    <3>1. MsgSize(f, v) = OptionComputationSize(f) /\ MsgSize(g, v) = OptionComputationSize(g)
      BY <1>2, <2>1 DEF MsgSize, MsgId
    <3> QED BY <3>1, OptionAgrees
  <2>2. CASE f[1] = MsgId.PORTFOLIO_VALUE
    <3>1. MsgSize(f, v) = PortfolioSize(f, v) /\ MsgSize(g, v) = PortfolioSize(g, v)
      BY <1>2, <2>2 DEF MsgSize, MsgId
    <3> QED BY <3>1, PortfolioAgrees
  <2>3. CASE f[1] = MsgId.CONTRACT_DATA
    <3>1. MsgSize(f, v) = ContractSize(f) /\ MsgSize(g, v) = ContractSize(g)
      BY <1>2, <2>3 DEF MsgSize, MsgId
    <3> QED BY <3>1, ContractAgrees
  <2>4. CASE f[1] = MsgId.BOND_CONTRACT_DATA
    <3>1. MsgSize(f, v) = BondSize(f) /\ MsgSize(g, v) = BondSize(g)
      BY <1>2, <2>4 DEF MsgSize, MsgId
    <3> QED BY <3>1, BondAgrees
  <2>5. CASE f[1] = MsgId.EXECUTION_DATA
    <3>1. MsgSize(f, v) = ExecutionSize(f) /\ MsgSize(g, v) = ExecutionSize(g)
      BY <1>2, <2>5 DEF MsgSize, MsgId
    <3> QED BY <3>1, ExecutionAgrees
  <2>6. CASE f[1] = MsgId.HISTORICAL_DATA
    <3>1. MsgSize(f, v) = HistoricalSize(f) /\ MsgSize(g, v) = HistoricalSize(g)
      BY <1>2, <2>6 DEF MsgSize, MsgId
    <3> QED BY <3>1, HistoricalAgrees
  <2>7. CASE f[1] = MsgId.SCANNER_DATA
    <3>1. MsgSize(f, v) = ScannerSize(f) /\ MsgSize(g, v) = ScannerSize(g)
      BY <1>2, <2>7 DEF MsgSize, MsgId
    <3> QED BY <3>1, ScannerAgrees
  <2>8. CASE f[1] = MsgId.OPEN_ORDER
    <3>1. MsgSize(f, v) = OpenOrderSize(f, v) /\ MsgSize(g, v) = OpenOrderSize(g, v)
      BY <1>2, <2>8 DEF MsgSize, MsgId
    <3> QED BY <3>1, OpenOrderAgrees
  <2>9. CASE f[1] \notin known
    <3>1. MsgSize(f, v) = 1 /\ MsgSize(g, v) = 1
      BY <1>2, <2>9 DEF MsgSize
    <3> QED BY <3>1
  <2> QED BY <2>1, <2>2, <2>3, <2>4, <2>5, <2>6, <2>7, <2>8, <2>9
<1> QED BY <1>1, <1>2

-----------------------------------------------------------------------------
LEMMA LeastNat ==
  ASSUME NEW T, T \subseteq Nat, T # {}
  PROVE  \E n \in T : \A m \in T : n <= m
<1>1. PICK n \in T : \A m \in T : <<m, n>> \notin OpToRel(<, Nat)
  BY WFMin, NatLessThanWellFounded
<1>2. \A m \in T : ~(m < n)
  <2> TAKE m \in T
  <2>1. <<m, n>> \notin OpToRel(<, Nat) /\ m \in Nat /\ n \in Nat
    BY <1>1
  <2> QED BY <2>1 DEF OpToRel
<1> QED BY <1>2

\* What is true of 0 and of the successor of each number below m where it is
\* true is true up to m.
LEMMA UpTo ==
  ASSUME NEW m \in Nat, NEW T, 0 \in T, \A n \in 0 .. m - 1 : n \in T => n + 1 \in T
  PROVE  0 .. m \subseteq T
<1> SUFFICES ASSUME (0 .. m) \ T # {} PROVE FALSE
  OBVIOUS
<1>1. PICK n \in (0 .. m) \ T : \A k \in (0 .. m) \ T : n <= k
  <2>1. (0 .. m) \ T \subseteq Nat
    OBVIOUS
  <2> QED BY <2>1, LeastNat
<1>2. n - 1 \in 0 .. m - 1 /\ n = (n - 1) + 1
  BY <1>1
<1>3. n - 1 \in T
  BY <1>1, <1>2
<1> QED BY <1>1, <1>2, <1>3

\* The loop of FlattenSeq over the first m sequences.
JoinStep(seqs, f, n) == IF n = 1 THEN seqs[n] ELSE f[n - 1] \o seqs[n]

Join(seqs, f, m) == f = [n \in 1 .. m |-> JoinStep(seqs, f, n)]

LEMMA JoinExists ==
  ASSUME NEW S, NEW seqs \in Seq(S)
  PROVE  \E f : Join(seqs, f, Len(seqs))
<1> DEFINE T == {m \in 0 .. Len(seqs) : \E f : Join(seqs, f, m)}
<1>1. 0 \in T
  <2>1. 1 .. 0 = {} /\ 0 \in 0 .. Len(seqs)
    OBVIOUS
  <2>2. <<>> = [n \in 1 .. 0 |-> JoinStep(seqs, <<>>, n)]
    BY <2>1
  <2> QED BY <2>1, <2>2 DEF Join
<1>2. ASSUME NEW m \in 0 .. Len(seqs) - 1, m \in T
      PROVE  m + 1 \in T
  <2>1. PICK f : f = [n \in 1 .. m |-> JoinStep(seqs, f, n)]
    BY <1>2 DEF Join
  <2>2. PICK g : g = [n \in 1 .. m + 1 |-> IF n <= m THEN f[n] ELSE JoinStep(seqs, f, n)]
    OBVIOUS
  <2>3. \A n \in 1 .. m : g[n] = f[n]
    BY <2>2
  <2>4. \A n \in 1 .. m + 1 : g[n] = JoinStep(seqs, f, n)
    <3> TAKE n \in 1 .. m + 1
    <3>1. CASE n <= m
      <4>1. n \in 1 .. m
        BY <3>1
      <4> QED BY <2>1, <2>3, <4>1
    <3>2. CASE ~(n <= m)
      BY <2>2, <3>2
    <3> QED BY <3>1, <3>2
  <2>5. \A n \in 1 .. m + 1 : n # 1 => n - 1 \in 1 .. m
    OBVIOUS
  <2>6. \A n \in 1 .. m + 1 : JoinStep(seqs, f, n) = JoinStep(seqs, g, n)
    BY <2>3, <2>5 DEF JoinStep
  <2>7. g = [n \in 1 .. m + 1 |-> g[n]]
    BY <2>2
  <2>8. g = [n \in 1 .. m + 1 |-> JoinStep(seqs, g, n)]
    BY <2>4, <2>6, <2>7
  <2>9. m + 1 \in 0 .. Len(seqs)
    OBVIOUS
  <2> QED BY <2>8, <2>9 DEF Join
<1>3. 0 .. Len(seqs) \subseteq T
  <2> HIDE DEF T
  <2> QED BY <1>1, <1>2, UpTo
<1>4. Len(seqs) \in 0 .. Len(seqs)
  OBVIOUS
<1> QED BY <1>3, <1>4

LEMMA FlattenJoins ==
  ASSUME NEW S, NEW seqs \in Seq(S), seqs # <<>>
  PROVE  \E f : Join(seqs, f, Len(seqs)) /\ FlattenSeq(seqs) = f[Len(seqs)]
<1> DEFINE u == CHOOSE f : f = [i \in 1 .. Len(seqs) |->
                   IF i = 1 THEN seqs[i] ELSE f[i - 1] \o seqs[i]]
<1>1. \E f : f = [i \in 1 .. Len(seqs) |-> IF i = 1 THEN seqs[i] ELSE f[i - 1] \o seqs[i]]
  BY JoinExists DEF Join, JoinStep
<1>2. u = [i \in 1 .. Len(seqs) |-> IF i = 1 THEN seqs[i] ELSE u[i - 1] \o seqs[i]]
  BY <1>1
<1>3. FlattenSeq(seqs) = u[Len(seqs)]
  <2>1. Len(seqs) # 0
    OBVIOUS
  <2> QED BY <2>1 DEF FlattenSeq
<1>4. Join(seqs, u, Len(seqs))
  BY <1>2 DEF Join, JoinStep
<1> QED BY <1>3, <1>4

LEMMA FlattenNone == FlattenSeq(<<>>) = <<>>
BY DEF FlattenSeq

LEMMA FlattenAppend ==
  ASSUME NEW S, NEW seqs \in Seq(Seq(S)), NEW t \in Seq(S)
  PROVE  FlattenSeq(Append(seqs, t)) = FlattenSeq(seqs) \o t
<1> DEFINE more == Append(seqs, t)
           k == Len(seqs)
<1>1. /\ k \in Nat /\ more \in Seq(Seq(S)) /\ Len(more) = k + 1 /\ more # <<>>
      /\ more[k + 1] = t /\ \A i \in 1 .. k : more[i] = seqs[i]
  <2>1. k \in Nat /\ more \in Seq(Seq(S)) /\ Len(more) = k + 1
    OBVIOUS
  <2>2. more[k + 1] = t /\ \A i \in 1 .. k : more[i] = seqs[i]
    OBVIOUS
  <2>3. more # <<>>
    <3> HIDE DEF more
    <3> QED BY <2>1
  <2> QED BY <2>1, <2>2, <2>3
<1> HIDE DEF more
<1>2. PICK f : Join(more, f, k + 1) /\ FlattenSeq(more) = f[k + 1]
  BY <1>1, FlattenJoins
<1>3. \A n \in 1 .. k + 1 : f[n] = JoinStep(more, f, n)
  BY <1>2 DEF Join
<1>4. k + 1 \in 1 .. k + 1 /\ (k + 1) - 1 = k
  BY <1>1
<1>5. CASE k = 0
  <2>1. seqs = <<>> /\ f[1] = t
    BY <1>1, <1>3, <1>4, <1>5 DEF JoinStep
  <2>2. <<>> \o t = t
    OBVIOUS
  <2> QED BY <1>2, <1>5, <2>1, <2>2, FlattenNone DEF more
<1>6. CASE k # 0
  <2>1. seqs # <<>>
    BY <1>6
  <2>2. PICK g : Join(seqs, g, k) /\ FlattenSeq(seqs) = g[k]
    BY <2>1, FlattenJoins
  <2>3. \A n \in 1 .. k : g[n] = JoinStep(seqs, g, n)
    BY <2>2 DEF Join
  <2> DEFINE T == {n \in 0 .. k : n # 0 => f[n] = g[n]}
  <2>4. 0 \in T
    BY <1>1
  <2>5. ASSUME NEW n \in 0 .. k - 1, n \in T
        PROVE  n + 1 \in T
    <3>1. n + 1 \in 1 .. k /\ n + 1 \in 1 .. k + 1 /\ (n + 1) - 1 = n /\ (n + 1 = 1 <=> n = 0)
      BY <1>1
    <3>2. more[n + 1] = seqs[n + 1]
      BY <1>1, <3>1
    <3>3. f[n + 1] = IF n + 1 = 1 THEN more[n + 1] ELSE f[n] \o more[n + 1]
      BY <1>3, <3>1 DEF JoinStep
    <3>4. g[n + 1] = IF n + 1 = 1 THEN seqs[n + 1] ELSE g[n] \o seqs[n + 1]
      BY <2>3, <3>1 DEF JoinStep
    <3>5. f[n + 1] = g[n + 1]
      BY <2>5, <3>1, <3>2, <3>3, <3>4
    <3> QED BY <3>1, <3>5
  <2>6. 0 .. k \subseteq T
    <3> HIDE DEF T, k
    <3> QED BY <1>1, <2>4, <2>5, UpTo
  <2>7. f[k] = g[k]
    <3>1. k \in 0 .. k
      BY <1>1
    <3> QED BY <1>6, <2>6, <3>1
  <2>8. f[k + 1] = f[k] \o t
    <3>1. k + 1 # 1 /\ k \in Nat
      BY <1>1, <1>6
    <3>2. f[k + 1] = f[(k + 1) - 1] \o more[k + 1]
      BY <1>3, <1>4, <3>1 DEF JoinStep
    <3> QED BY <1>1, <1>4, <3>2
  <2> QED BY <1>2, <2>2, <2>7, <2>8 DEF more
<1> QED BY <1>5, <1>6

-----------------------------------------------------------------------------
(* The calls of a message. *)

LEMMA FixedLemma ==
  /\ FixedSize(1) = 7 /\ FixedSize(2) = 5 /\ FixedSize(4) = 5
  /\ {1, 2, 4} \subseteq FixedIds /\ FixedIds \cap {5, 7, 10, 11, 17, 18, 20, 21} = {}
<1>1. FixedSizes =
        {<<45, 5>>, <<46, 5>>, <<47, 11>>, <<3, 12>>, <<4, 5>>, <<8, 3>>, <<9, 3>>,
         <<12, 8>>, <<13, 9>>, <<14, 6>>, <<15, 3>>, <<16, 4>>,
         <<19, 3>>, <<49, 3>>, <<50, 11>>, <<51, 4>>,
         <<52, 3>>, <<53, 2>>, <<54, 3>>, <<55, 3>>, <<56, 6>>, <<57, 3>>, <<58, 4>>,
         <<1, 7>>, <<2, 5>>, <<6, 6>>}
  BY DEF FixedSizes, TickSizes, StatusSizes, AccountSizes, DepthSizes, DownloadSizes, EndSizes, MsgId
<1>2. \A id, size \in Int :
        <<id, size>> \in FixedSizes /\ (\A s \in FixedSizes : s[1] = id => s = <<id, size>>) =>
          FixedSize(id) = size /\ id \in FixedIds
  BY DEF FixedSize, FixedIds
<1>3. /\ <<1, 7>> \in FixedSizes /\ \A s \in FixedSizes : s[1] = 1 => s = <<1, 7>>
      /\ <<2, 5>> \in FixedSizes /\ \A s \in FixedSizes : s[1] = 2 => s = <<2, 5>>
      /\ <<4, 5>> \in FixedSizes /\ \A s \in FixedSizes : s[1] = 4 => s = <<4, 5>>
      /\ \A s \in FixedSizes : s[1] \notin {5, 7, 10, 11, 17, 18, 20, 21}
  BY <1>1
<1>4. FixedIds \cap {5, 7, 10, 11, 17, 18, 20, 21} = {}
  BY <1>3 DEF FixedIds
<1> QED BY <1>2, <1>3, <1>4

CallNames == {"tickPrice", "tickSize", "error", "historicalData", "scannerData",
              "scannerDataEnd", "other", "unknown"}

CallSet == [name : CallNames, id : Int, tick : Int, value : Int]

LEMMA CallType ==
  ASSUME NEW name \in CallNames, NEW id \in Int, NEW tick \in Int, NEW value \in Int
  PROVE  Call(name, id, tick, value) \in CallSet
BY DEF Call, CallSet

LEMMA Ids ==
  /\ MsgId.TICK_PRICE = 1 /\ MsgId.TICK_SIZE = 2 /\ MsgId.ERR_MSG = 4
  /\ MsgId.HISTORICAL_DATA = 17 /\ MsgId.SCANNER_DATA = 20
BY DEF MsgId

LEMMA SizeOfFixed ==
  ASSUME NEW f, NEW v, f[1] \in FixedIds
  PROVE  MsgSize(f, v) = FixedSize(f[1])
<1>1. f[1] \notin {5, 7, 10, 11, 17, 18, 20, 21}
  BY FixedLemma
<1> QED BY <1>1 DEF MsgSize, MsgId

\* The cases of Calls.
LEMMA CallsCases ==
  ASSUME NEW f
  PROVE  /\ f[1] = 1 => Calls(f) =
              <<Call("tickPrice", f[3], f[4], f[5])>>
                \o IF SizeTickType(f[4]) # TickType.NOT_SET
                   THEN <<Call("tickSize", f[3], SizeTickType(f[4]), f[6])>> ELSE <<>>
         /\ f[1] = 2 => Calls(f) = <<Call("tickSize", f[3], f[4], f[5])>>
         /\ f[1] = 4 => Calls(f) = <<Call("error", f[3], f[4], f[5])>>
         /\ f[1] = 17 => Calls(f) =
              Rows("historicalData", f, 6, 9) \o <<Call("historicalData", f[3], 0, 0)>>
         /\ f[1] = 20 => Calls(f) =
              Rows("scannerData", f, 4, 16) \o <<Call("scannerDataEnd", f[3], 0, 0)>>
         /\ f[1] \notin {1, 2, 4, 17, 20} =>
              Calls(f) = <<Call(IF f[1] \in KnownIds THEN "other" ELSE "unknown", f[1], 0, 0)>>
<1>1. CASE f[1] = 1
  BY <1>1, Ids DEF Calls
<1>2. CASE f[1] = 2
  BY <1>2, Ids DEF Calls
<1>3. CASE f[1] = 4
  BY <1>3, Ids DEF Calls
<1>4. CASE f[1] = 17
  BY <1>4, Ids DEF Calls
<1>5. CASE f[1] = 20
  BY <1>5, Ids DEF Calls
<1>6. CASE f[1] \notin {1, 2, 4, 17, 20}
  BY <1>6, Ids DEF Calls
<1> QED BY <1>1, <1>2, <1>3, <1>4, <1>5, <1>6

\* As many rows follow as the count says.
LEMMA RowsAgree ==
  ASSUME NEW f \in Seq(Int), NEW g \in Seq(Int), NEW size, Agree(f, g, size),
         NEW at \in Nat \ {0}, NEW width \in Nat \ {0}, at >= 3,
         size = at + Times(Field(f, at), width), NEW name \in CallNames
  PROVE  /\ Rows(name, f, at, width) \in Seq(CallSet)
         /\ Rows(name, g, at, width) = Rows(name, f, at, width)
         /\ f[3] = g[3] /\ f[3] \in Int
         /\ \A i \in 1 .. Len(Rows(name, f, at, width)) : Rows(name, f, at, width)[i].name = name
<1>a. ASSUME NEW i \in Nat \ {0}, i <= size
      PROVE  f[i] = g[i] /\ f[i] \in Int
  BY <1>a DEF Agree
<1>n. PICK n : n = Times(f[at], 1)
  OBVIOUS
<1>0. at <= Len(f)
  <2>1. CASE at <= Len(f)
    BY <2>1
  <2>2. CASE ~(at <= Len(f))
    <3>1. Field(f, at) = 0
      BY <2>2 DEF Field
    <3>2. size = at
      BY <3>1 DEF Times
    <3> QED BY <2>2, <3>2 DEF Agree
  <2> QED BY <2>1, <2>2
<1>1. Field(f, at) = f[at] /\ f[at] \in Int
  BY <1>0 DEF Field
<1>2. Times(f[at], width) \in Nat /\ n \in Nat
  BY <1>n, <1>1, TimesNat
<1>3. f[at] = g[at] /\ f[3] = g[3] /\ f[3] \in Int
  BY <1>a, <1>1, <1>2
<1>4. ASSUME NEW i \in 1 .. n
      PROVE  LET j == at + width * (i - 1) + 1 IN f[j] = g[j] /\ f[j] \in Int
  <2>1. f[at] > 0 /\ n = f[at] /\ Times(f[at], width) = f[at] * width
    BY <1>n, <1>1, <1>4 DEF Times
  <2>2. i <= f[at] /\ i >= 1 /\ i \in Nat /\ f[at] \in Nat
    BY <1>1, <2>1
  <2>3. width * (i - 1) \in Nat /\ width * (i - 1) + width <= f[at] * width
    <3>1. PICK r \in Nat : f[at] = (i - 1) + 1 + r
      <4>1. f[at] - i \in Nat /\ f[at] = (i - 1) + 1 + (f[at] - i)
        BY <2>2
      <4> QED BY <4>1
    <3>2. f[at] * width = width * (i - 1) + width + r * width
      BY <2>2, <3>1
    <3>3. r * width \in Nat /\ width * (i - 1) \in Nat
      BY <2>2, <3>1
    <3> QED BY <3>2, <3>3
  <2>4. at + width * (i - 1) + 1 <= size /\ at + width * (i - 1) + 1 \in Nat \ {0}
    <3>1. PICK x, y : x = width * (i - 1) /\ y = f[at] * width
      OBVIOUS
    <3>2. x \in Nat /\ y \in Nat /\ x + width <= y /\ size = at + y
      BY <1>1, <1>2, <2>1, <2>3, <3>1
    <3>3. at + x + 1 <= size /\ at + x + 1 \in Nat \ {0}
      BY <3>2
    <3> QED BY <3>1, <3>3
  <2> QED BY <1>a, <2>4
<1>5. \A i \in 1 .. n : /\ Call(name, f[3], i, f[at + width * (i - 1) + 1]) \in CallSet
                       /\ Call(name, f[3], i, f[at + width * (i - 1) + 1])
                            = Call(name, g[3], i, g[at + width * (i - 1) + 1])
  <2> TAKE i \in 1 .. n
  <2>1. PICK j : j = at + width * (i - 1) + 1
    OBVIOUS
  <2>2. f[j] = g[j] /\ f[j] \in Int /\ i \in Int
    <3>1. i \in Int
      BY <1>2
    <3>2. LET k == at + width * (i - 1) + 1 IN f[k] = g[k] /\ f[k] \in Int
      BY <1>4
    <3> QED BY <2>1, <3>1, <3>2
  <2>3. Call(name, f[3], i, f[j]) \in CallSet /\ Call(name, f[3], i, f[j]) = Call(name, g[3], i, g[j])
    BY <1>3, <2>2, CallType
  <2> QED BY <2>1, <2>3
<1>6. Rows(name, f, at, width) = [i \in 1 .. n |-> Call(name, f[3], i, f[at + width * (i - 1) + 1])]
  BY <1>n DEF Rows
<1>7. Rows(name, g, at, width) = [i \in 1 .. n |-> Call(name, g[3], i, g[at + width * (i - 1) + 1])]
  BY <1>n, <1>3 DEF Rows
<1>8. Rows(name, f, at, width) \in Seq(CallSet)
  BY <1>2, <1>5, <1>6
<1>9. \A i \in 1 .. Len(Rows(name, f, at, width)) : Rows(name, f, at, width)[i].name = name
  <2>1. Len(Rows(name, f, at, width)) = n
    BY <1>2, <1>6
  <2>2. \A i, j, x : Call(name, i, j, x).name = name
    BY DEF Call
  <2>3. \A i \in 1 .. n : Rows(name, f, at, width)[i].name = name
    BY <1>6, <2>2
  <2> QED BY <2>1, <2>3
<1> QED BY <1>3, <1>5, <1>6, <1>7, <1>8, <1>9

\* The calls of a message whose fields are all there.
LEMMA CallsAgree ==
  ASSUME NEW f \in Seq(Int), NEW g \in Seq(Int), NEW v, f[1] = g[1], f[1] \in Int,
         Agree(f, g, MsgSize(f, v))
  PROVE  Calls(g) = Calls(f) /\ Calls(f) \in Seq(CallSet)
<1>1. ASSUME NEW i \in Nat \ {0}, i <= MsgSize(f, v)
      PROVE  f[i] = g[i] /\ f[i] \in Int
  BY <1>1 DEF Agree
<1>2. CASE f[1] = 1
  <2>1. MsgSize(f, v) = 7
    BY <1>2, FixedLemma, SizeOfFixed
  <2>2. f[3] = g[3] /\ f[4] = g[4] /\ f[5] = g[5] /\ f[6] = g[6]
    BY <1>1, <2>1
  <2>3. f[3] \in Int /\ f[4] \in Int /\ f[5] \in Int /\ f[6] \in Int
    BY <1>1, <2>1
  <2>4. PICK a, b, e, h : a = f[3] /\ b = f[4] /\ e = f[5] /\ h = f[6]
    OBVIOUS
  <2>5. PICK one, two : /\ one = Call("tickPrice", a, b, e)
                        /\ two = Call("tickSize", a, SizeTickType(b), h)
    OBVIOUS
  <2>6. /\ Calls(f) = <<one>> \o IF SizeTickType(b) # TickType.NOT_SET THEN <<two>> ELSE <<>>
        /\ Calls(g) = <<one>> \o IF SizeTickType(b) # TickType.NOT_SET THEN <<two>> ELSE <<>>
    BY <1>2, <2>2, <2>4, <2>5, CallsCases
  <2>7. SizeTickType(b) \in Int
    BY DEF SizeTickType, TickType
  <2>8. one \in CallSet /\ two \in CallSet
    BY <2>3, <2>4, <2>5, <2>7, CallType DEF CallNames
  <2> QED BY <2>6, <2>8
<1>3. CASE f[1] = 2
  <2>1. MsgSize(f, v) = 5
    BY <1>3, FixedLemma, SizeOfFixed
  <2>2. f[3] = g[3] /\ f[4] = g[4] /\ f[5] = g[5]
    BY <1>1, <2>1
  <2>3. f[3] \in Int /\ f[4] \in Int /\ f[5] \in Int
    BY <1>1, <2>1
  <2>4. Calls(f) = <<Call("tickSize", f[3], f[4], f[5])>> /\ Calls(g) = Calls(f)
    BY <1>3, <2>2, CallsCases
  <2>5. Call("tickSize", f[3], f[4], f[5]) \in CallSet
    BY <2>3, CallType DEF CallNames
  <2> QED BY <2>4, <2>5
<1>4. CASE f[1] = 4
  <2>1. MsgSize(f, v) = 5
    BY <1>4, FixedLemma, SizeOfFixed
  <2>2. f[3] = g[3] /\ f[4] = g[4] /\ f[5] = g[5]
    BY <1>1, <2>1
  <2>3. f[3] \in Int /\ f[4] \in Int /\ f[5] \in Int
    BY <1>1, <2>1
  <2>4. Calls(f) = <<Call("error", f[3], f[4], f[5])>> /\ Calls(g) = Calls(f)
    BY <1>4, <2>2, CallsCases
  <2>5. Call("error", f[3], f[4], f[5]) \in CallSet
    BY <2>3, CallType DEF CallNames
  <2> QED BY <2>4, <2>5
<1>6. CASE f[1] = 17
  <2>1. MsgSize(f, v) = 6 + Times(Field(f, 6), 9)
    BY <1>6, FixedLemma DEF MsgSize, HistoricalSize, MsgId
  <2>2. PICK rows, last : /\ rows = Rows("historicalData", f, 6, 9)
                          /\ last = Call("historicalData", f[3], 0, 0)
    OBVIOUS
  <2>3. /\ rows \in Seq(CallSet) /\ rows = Rows("historicalData", g, 6, 9)
        /\ f[3] = g[3] /\ f[3] \in Int
    BY <2>1, <2>2, RowsAgree DEF CallNames
  <2>4. Calls(f) = rows \o <<last>> /\ Calls(g) = rows \o <<last>>
    BY <1>6, <2>2, <2>3, CallsCases
  <2>5. last \in CallSet
    BY <2>2, <2>3, CallType DEF CallNames
  <2> QED BY <2>3, <2>4, <2>5
<1>7. CASE f[1] = 20
  <2>1. MsgSize(f, v) = 4 + Times(Field(f, 4), 16)
    BY <1>7, FixedLemma DEF MsgSize, ScannerSize, MsgId
  <2>2. PICK rows, last : /\ rows = Rows("scannerData", f, 4, 16)
                          /\ last = Call("scannerDataEnd", f[3], 0, 0)
    OBVIOUS
  <2>3. /\ rows \in Seq(CallSet) /\ rows = Rows("scannerData", g, 4, 16)
        /\ f[3] = g[3] /\ f[3] \in Int
    BY <2>1, <2>2, RowsAgree DEF CallNames
  <2>4. Calls(f) = rows \o <<last>> /\ Calls(g) = rows \o <<last>>
    BY <1>7, <2>2, <2>3, CallsCases
  <2>5. last \in CallSet
    BY <2>2, <2>3, CallType DEF CallNames
  <2> QED BY <2>3, <2>4, <2>5
<1>8. CASE f[1] \notin {1, 2, 4, 17, 20}
  <2>1. PICK call : call = Call(IF f[1] \in KnownIds THEN "other" ELSE "unknown", f[1], 0, 0)
    OBVIOUS
  <2>2. Calls(f) = <<call>> /\ Calls(g) = <<call>>
    BY <1>8, <2>1, CallsCases
  <2>3. call \in CallSet
    BY <2>1, CallType DEF CallNames
  <2> QED BY <2>2, <2>3
<1> QED BY <1>2, <1>3, <1>4, <1>6, <1>7, <1>8

-----------------------------------------------------------------------------
(* The stream of one connection: the acknowledgement and the script.       *)
EndsLoop(script, f, m) ==
  f = [j \in 0 .. m |-> IF j = 0 THEN 2 ELSE f[j - 1] + Len(script[j])]

\* EndOf of a script, and the messages' calls.
EndsAt(script, i) ==
  LET upTo[j \in 0 .. Len(script)] == IF j = 0 THEN 2 ELSE upTo[j - 1] + Len(script[j])
  IN  upTo[i]

CallsOf(script, n) == FlattenSeq([i \in 1 .. n |-> Calls(script[i])])

LEMMA EndsLoopExists ==
  ASSUME NEW script, NEW n \in Nat
  PROVE  \E f : EndsLoop(script, f, n)
<1> DEFINE T == {m \in 0 .. n : \E f : EndsLoop(script, f, m)}
<1>1. 0 \in T
  <2>1. PICK f : f = [j \in 0 .. 0 |-> 2]
    OBVIOUS
  <2>2. \A j \in 0 .. 0 : j = 0
    OBVIOUS
  <2>3. f = [j \in 0 .. 0 |-> IF j = 0 THEN 2 ELSE f[j - 1] + Len(script[j])]
    BY <2>1, <2>2
  <2>4. 0 \in 0 .. n
    OBVIOUS
  <2> QED BY <2>3, <2>4 DEF EndsLoop
<1>2. ASSUME NEW m \in 0 .. n - 1, m \in T
      PROVE  m + 1 \in T
  <2>1. PICK f : f = [j \in 0 .. m |-> IF j = 0 THEN 2 ELSE f[j - 1] + Len(script[j])]
    BY <1>2 DEF EndsLoop
  <2>2. PICK g : g = [j \in 0 .. m + 1 |-> IF j <= m THEN f[j] ELSE f[j - 1] + Len(script[j])]
    OBVIOUS
  <2>3. \A j \in 0 .. m : g[j] = f[j]
    BY <2>2
  <2>4. \A j \in 0 .. m + 1 : g[j] = IF j = 0 THEN 2 ELSE g[j - 1] + Len(script[j])
    <3> TAKE j \in 0 .. m + 1
    <3>1. CASE j = 0
      <4>1. j \in 0 .. m
        BY <3>1
      <4> QED BY <2>1, <2>3, <3>1, <4>1
    <3>2. CASE j # 0 /\ j <= m
      <4>1. j \in 0 .. m /\ j - 1 \in 0 .. m
        BY <3>2
      <4>2. f[j] = f[j - 1] + Len(script[j])
        BY <2>1, <3>2, <4>1
      <4> QED BY <2>3, <3>2, <4>1, <4>2
    <3>3. CASE ~(j <= m)
      <4>1. j - 1 \in 0 .. m /\ j # 0
        BY <3>3
      <4>2. g[j] = f[j - 1] + Len(script[j])
        BY <2>2, <3>3
      <4> QED BY <2>3, <4>1, <4>2
    <3> QED BY <3>1, <3>2, <3>3
  <2>5. g = [j \in 0 .. m + 1 |-> g[j]]
    BY <2>2
  <2>6. g = [j \in 0 .. m + 1 |-> IF j = 0 THEN 2 ELSE g[j - 1] + Len(script[j])]
    BY <2>4, <2>5
  <2>7. m + 1 \in 0 .. n
    OBVIOUS
  <2> QED BY <2>6, <2>7 DEF EndsLoop
<1>3. 0 .. n \subseteq T
  <2> HIDE DEF T
  <2> QED BY <1>1, <1>2, UpTo
<1>4. n \in 0 .. n
  OBVIOUS
<1> QED BY <1>3, <1>4

\* Each message ends where its fields behind the one before it end.
LEMMA Ends ==
  ASSUME NEW script \in Seq(Seq(Int))
  PROVE  /\ EndsAt(script, 0) = 2
         /\ \A i \in 1 .. Len(script) : EndsAt(script, i) = EndsAt(script, i - 1) + Len(script[i])
<1> DEFINE u == CHOOSE f : f = [j \in 0 .. Len(script) |->
                                  IF j = 0 THEN 2 ELSE f[j - 1] + Len(script[j])]
<1>0. Len(script) \in Nat
  OBVIOUS
<1>1. \E f : f = [j \in 0 .. Len(script) |-> IF j = 0 THEN 2 ELSE f[j - 1] + Len(script[j])]
  BY <1>0, EndsLoopExists DEF EndsLoop
<1>2. u = [j \in 0 .. Len(script) |-> IF j = 0 THEN 2 ELSE u[j - 1] + Len(script[j])]
  BY <1>1
<1>3. \A i : EndsAt(script, i) = u[i]
  BY DEF EndsAt
<1> HIDE DEF u
<1>4. 0 \in 0 .. Len(script) /\ \A i \in 1 .. Len(script) : i \in 0 .. Len(script) /\ i # 0
  BY <1>0
<1> QED BY <1>2, <1>3, <1>4

\* A script as TWS sends it.
Whole(script, version) ==
  /\ script \in Seq(Seq(Int)) /\ version \in Int
  /\ \A i \in 1 .. Len(script) : /\ script[i] \in Seq(Int) /\ Len(script[i]) \in Nat \ {0}
                                 /\ script[i][1] \in Int
                                 /\ Len(script[i]) = MsgSize(script[i], version)

LEMMA EndsGrow ==
  ASSUME NEW script, NEW version, Whole(script, version)
  PROVE  /\ \A i \in 0 .. Len(script) : EndsAt(script, i) \in Nat /\ EndsAt(script, i) >= 2
         /\ \A i, j \in 0 .. Len(script) : i < j => EndsAt(script, i) < EndsAt(script, j)
<1> DEFINE n == Len(script)
           T == {i \in 0 .. n : EndsAt(script, i) \in Nat /\ EndsAt(script, i) >= 2}
<1>0. n \in Nat /\ script \in Seq(Seq(Int))
  BY DEF Whole
<1>1. \A i \in 1 .. n : Len(script[i]) \in Nat /\ Len(script[i]) > 0
  BY DEF Whole
<1>2. 0 \in T
  BY <1>0, Ends
<1>3. ASSUME NEW i \in 0 .. n - 1, i \in T
      PROVE  i + 1 \in T
  <2>1. i + 1 \in 1 .. n /\ (i + 1) - 1 = i
    BY <1>0
  <2>2. EndsAt(script, i + 1) = EndsAt(script, i) + Len(script[i + 1])
    BY <1>0, <2>1, Ends
  <2> QED BY <1>1, <1>3, <2>1, <2>2
<1>4. 0 .. n \subseteq T
  <2> HIDE DEF T, n
  <2> QED BY <1>0, <1>2, <1>3, UpTo
<1>5. ASSUME NEW i \in 0 .. n
      PROVE  \A j \in 0 .. n : i < j => EndsAt(script, i) < EndsAt(script, j)
  <2> DEFINE B == {j \in 0 .. n : i < j => EndsAt(script, i) < EndsAt(script, j)}
  <2>1. 0 \in B
    BY <1>0
  <2>2. ASSUME NEW j \in 0 .. n - 1, j \in B
        PROVE  j + 1 \in B
    <3>1. j + 1 \in 1 .. n /\ (j + 1) - 1 = j /\ j \in 0 .. n /\ j + 1 \in 0 .. n
      BY <1>0
    <3>2. EndsAt(script, j + 1) = EndsAt(script, j) + Len(script[j + 1])
      BY <1>0, <3>1, Ends
    <3>3. EndsAt(script, j) \in Nat /\ EndsAt(script, i) \in Nat /\ Len(script[j + 1]) \in Nat
          /\ Len(script[j + 1]) > 0
      BY <1>1, <1>4, <3>1
    <3>4. EndsAt(script, j) < EndsAt(script, j + 1)
      BY <3>2, <3>3
    <3>5. i < j + 1 => i < j \/ i = j
      BY <1>0
    <3>6. i < j + 1 => EndsAt(script, i) < EndsAt(script, j + 1)
      BY <2>2, <3>2, <3>3, <3>4, <3>5
    <3> QED BY <3>1, <3>6
  <2>3. 0 .. n \subseteq B
    <3> HIDE DEF B, n
    <3> QED BY <1>0, <2>1, <2>2, UpTo
  <2> QED BY <2>3
<1> QED BY <1>4, <1>5

\* The field at place p of the stream, counted from 1.
MsgAt(script, p) ==
  CHOOSE j \in 1 .. Len(script) : EndsAt(script, j - 1) < p /\ p <= EndsAt(script, j)

Stream(version, script, p) ==
  IF p = 1 THEN version
  ELSE IF p = 2 THEN 1
  ELSE script[MsgAt(script, p)][p - EndsAt(script, MsgAt(script, p) - 1)]

LEMMA StreamHolds ==
  ASSUME NEW script, NEW version, Whole(script, version),
         NEW j \in 1 .. Len(script), NEW x \in 1 .. Len(script[j])
  PROVE  Stream(version, script, EndsAt(script, j - 1) + x) = script[j][x]
<1> DEFINE n == Len(script)
           E(i) == EndsAt(script, i)
           p == E(j - 1) + x
<1>0. n \in Nat /\ script \in Seq(Seq(Int)) /\ j - 1 \in 0 .. n /\ j \in 0 .. n
      /\ Len(script[j]) \in Nat /\ x \in Nat /\ x >= 1 /\ x <= Len(script[j]) /\ j \in Nat
  BY DEF Whole
<1>1. E(j) = E(j - 1) + Len(script[j])
  BY <1>0, Ends
<1>2. \A i \in 0 .. n : E(i) \in Nat /\ E(i) >= 2
  BY EndsGrow
<1>3. \A i, k \in 0 .. n : i < k => E(i) < E(k)
  BY EndsGrow
<1> HIDE DEF E
<1>a. E(j - 1) \in Nat /\ E(j - 1) >= 2 /\ E(j) \in Nat
  BY <1>0, <1>2
<1>4. E(j - 1) < p /\ p <= E(j) /\ p > 2 /\ p \in Nat
  <2>1. PICK a, b, len : a = E(j - 1) /\ b = E(j) /\ len = Len(script[j])
    OBVIOUS
  <2>2. /\ a \in Nat /\ a >= 2 /\ len \in Nat /\ x \in Nat /\ x >= 1 /\ x <= len
        /\ b = a + len /\ p = a + x
    BY <1>0, <1>1, <1>a, <2>1
  <2>3. a < p /\ p <= b /\ p > 2 /\ p \in Nat
    <3> HIDE DEF p
    <3> QED BY <2>2
  <2> QED BY <2>1, <2>3
<1> HIDE DEF p
<1>b. \A i, k \in 0 .. n : i <= k => E(i) <= E(k)
  <2> TAKE i, k \in 0 .. n
  <2>1. i < k \/ i = k \/ ~(i <= k)
    BY <1>0
  <2>2. E(i) \in Nat /\ E(k) \in Nat
    BY <1>2
  <2>3. i < k => E(i) < E(k)
    BY <1>3
  <2> QED BY <2>1, <2>2, <2>3
<1>5. \A i \in 1 .. n : E(i - 1) < p /\ p <= E(i) => i = j
  <2> TAKE i \in 1 .. n
  <2> SUFFICES ASSUME E(i - 1) < p, p <= E(i) PROVE i = j
    OBVIOUS
  <2>0. i - 1 \in 0 .. n /\ i \in 0 .. n /\ i \in Nat
    BY <1>0
  <2>1. E(i) \in Nat /\ E(i - 1) \in Nat
    BY <1>2, <2>0
  <2>2. ~(i < j)
    <3> SUFFICES ASSUME i < j PROVE FALSE
      OBVIOUS
    <3>1. i <= j - 1
      BY <1>0, <2>0
    <3>2. E(i) <= E(j - 1)
      BY <1>0, <1>b, <2>0, <3>1
    <3> QED BY <1>a, <1>4, <2>1, <3>2
  <2>3. ~(j < i)
    <3> SUFFICES ASSUME j < i PROVE FALSE
      OBVIOUS
    <3>1. j <= i - 1
      BY <1>0, <2>0
    <3>2. E(j) <= E(i - 1)
      BY <1>0, <1>b, <2>0, <3>1
    <3> QED BY <1>a, <1>4, <2>1, <3>2
  <2> QED BY <1>0, <2>0, <2>2, <2>3
<1>6. MsgAt(script, p) = j
  <2>1. MsgAt(script, p) = CHOOSE i \in 1 .. n : E(i - 1) < p /\ p <= E(i)
    BY DEF MsgAt, E
  <2> QED BY <1>4, <1>5, <2>1
<1>7. p - E(j - 1) = x /\ p # 1 /\ p # 2
  BY <1>0, <1>a, <1>4 DEF p
<1>8. Stream(version, script, p) = script[j][p - E(j - 1)]
  BY <1>6, <1>7 DEF Stream, E
<1> QED BY <1>7, <1>8 DEF p, E

-----------------------------------------------------------------------------
(* Sizes are numbers of fields. *)
LEMMA OpenOrderNat ==
  ASSUME NEW f \in Seq(Int), NEW v
  PROVE  OpenOrderSize(f, v) \in Nat
<1>1. PICK ver, legs : ver = Version(f) /\ legs = OpenOrderHead(f, v) + 6
  OBVIOUS
<1>2. legs \in Nat
  BY <1>1, HeadNat
<1>3. PICK legPairs : legPairs = Times(Field(f, legs + 1), 2)
  OBVIOUS
<1>4. legPairs \in Nat
  <2>1. Field(f, legs + 1) \in Int
    BY <1>2, FieldInt
  <2> QED BY <1>3, <2>1, TimesNat
<1>5. PICK routing : routing = legs + Also(ver >= 26, 1 + legPairs)
  OBVIOUS
<1>6. routing \in Nat
  BY <1>2, <1>4, <1>5, Optional
<1>7. PICK scale : scale = routing + 3
  OBVIOUS
<1>8. PICK hedgeParam : hedgeParam = Also(Field(f, scale + 1) # 0, 1)
  OBVIOUS
<1>9. PICK hedge : hedge = scale + Also(ver >= 24, 1 + hedgeParam)
  OBVIOUS
<1>10. scale \in Nat /\ hedgeParam \in Nat
  BY <1>6, <1>7, <1>8, AlsoNat
<1>11. hedge \in Nat
  BY <1>9, <1>10, Optional
<1>12. PICK clearing : clearing = hedge + Also(ver >= 25, 1) + 2
  OBVIOUS
<1>13. PICK notHeld : notHeld = clearing + Also(ver >= 22, 1)
  OBVIOUS
<1>14. clearing \in Nat /\ notHeld \in Nat
  <2>1. Also(ver >= 25, 1) \in Nat /\ Also(ver >= 22, 1) \in Nat
    BY AlsoNat
  <2> QED BY <1>11, <1>12, <1>13, <2>1
<1>15. PICK underComp : underComp = Also(Field(f, notHeld + 1) > 0, 3)
  OBVIOUS
<1>16. PICK under : under = notHeld + Also(ver >= 20, 1 + underComp)
  OBVIOUS
<1>17. PICK strategy : strategy = under + Also(ver >= 21, 1)
  OBVIOUS
<1>18. strategy \in Nat
  <2>1. under \in Nat
    BY <1>14, <1>15, <1>16, AlsoNat, Optional
  <2>2. Also(ver >= 21, 1) \in Nat
    BY AlsoNat
  <2> QED BY <1>17, <2>1, <2>2
<1>19. PICK algoPairs : algoPairs = Times(Field(f, strategy + 1), 2)
  OBVIOUS
<1>20. algoPairs \in Nat
  <2>1. Field(f, strategy + 1) \in Int
    BY <1>18, FieldInt
  <2> QED BY <1>19, <2>1, TimesNat
<1>21. strategy + Also(ver >= 21 /\ Field(f, strategy) # 0, 1 + algoPairs) \in Nat
  BY <1>18, <1>20, Optional
<1>22. OpenOrderSize(f, v) =
         strategy + Also(ver >= 21 /\ Field(f, strategy) # 0, 1 + algoPairs) + 10
  BY <1>1, <1>3, <1>5, <1>7, <1>8, <1>9, <1>12, <1>13, <1>15, <1>16, <1>17, <1>19
     DEF OpenOrderSize
<1> QED BY <1>21, <1>22

LEMMA FixedNat ==
  ASSUME NEW id \in FixedIds
  PROVE  FixedSize(id) \in Nat
<1>1. \A s \in FixedSizes : s[2] \in Nat
  BY DEF FixedSizes, TickSizes, StatusSizes, AccountSizes, DepthSizes, DownloadSizes, EndSizes
<1>2. \E s \in FixedSizes : s[1] = id
  BY DEF FixedIds
<1> QED BY <1>1, <1>2 DEF FixedSize

LEMMA MsgSizeNat ==
  ASSUME NEW f \in Seq(Int), NEW v
  PROVE  MsgSize(f, v) \in Nat
<1>1. CASE f[1] \in FixedIds
  BY <1>1, SizeOfFixed, FixedNat
<1>2. CASE f[1] \notin FixedIds
  <2>1. OptionComputationSize(f) \in Nat
    BY AlsoNat DEF OptionComputationSize
  <2>2. PortfolioSize(f, v) \in Nat
    BY AlsoNat DEF PortfolioSize
  <2>3. ContractSize(f) \in Nat
    BY AlsoNat DEF ContractSize
  <2>4. BondSize(f) \in Nat
    BY AlsoNat DEF BondSize
  <2>5. ExecutionSize(f) \in Nat
    BY AlsoNat DEF ExecutionSize
  <2>6. HistoricalSize(f) \in Nat
    <3>1. Field(f, 6) \in Int
      BY FieldInt
    <3>2. Times(Field(f, 6), 9) \in Nat
      BY <3>1, TimesNat
    <3> QED BY <3>2 DEF HistoricalSize
  <2>7. ScannerSize(f) \in Nat
    <3>1. Field(f, 4) \in Int
      BY FieldInt
    <3>2. Times(Field(f, 4), 16) \in Nat
      BY <3>1, TimesNat
    <3> QED BY <3>2 DEF ScannerSize
  <2>8. OpenOrderSize(f, v) \in Nat
    BY OpenOrderNat
  <2> QED BY <1>2, <2>1, <2>2, <2>3, <2>4, <2>5, <2>6, <2>7, <2>8 DEF MsgSize
<1> QED BY <1>1, <1>2

-----------------------------------------------------------------------------
(* The buffer behind k messages. *)

\* rest holds the stream from its k-th message's end on.
Follows(rest, version, script, k) ==
  /\ rest \in Seq(Int)
  /\ \A x \in 1 .. Len(rest) : rest[x] = Stream(version, script, EndsAt(script, k) + x)

LEMMA Buffered ==
  ASSUME NEW script, NEW version, Whole(script, version), NEW k \in 0 .. Len(script) - 1,
         NEW rest, Follows(rest, version, script, k)
  PROVE  \A x \in 1 .. Len(rest) : x <= Len(script[k + 1]) => rest[x] = script[k + 1][x]
<1> TAKE x \in 1 .. Len(rest)
<1> SUFFICES ASSUME x <= Len(script[k + 1]) PROVE rest[x] = script[k + 1][x]
  OBVIOUS
<1>1. k + 1 \in 1 .. Len(script) /\ (k + 1) - 1 = k
  BY DEF Whole
<1>2. x \in 1 .. Len(script[k + 1])
  <2>1. Len(rest) \in Nat /\ Len(script[k + 1]) \in Nat
    BY <1>1 DEF Whole, Follows
  <2> QED BY <2>1
<1>3. Stream(version, script, EndsAt(script, k) + x) = script[k + 1][x]
  BY <1>1, <1>2, StreamHolds
<1> QED BY <1>3 DEF Follows

\* What processMsg makes of the next message, when it takes it for whole.
LEMMA NextMessage ==
  ASSUME NEW script, NEW version, Whole(script, version), NEW k \in 0 .. Len(script) - 1,
         NEW rest, Follows(rest, version, script, k), rest # <<>>
  PROVE  /\ Complete(rest, version) <=> Len(script[k + 1]) <= Len(rest)
         /\ Complete(rest, version) =>
              /\ MsgSize(rest, version) = Len(script[k + 1])
              /\ Calls(rest) = Calls(script[k + 1])
<1>1. PICK m : m = script[k + 1]
  OBVIOUS
<1>2. /\ m \in Seq(Int) /\ Len(m) \in Nat \ {0} /\ m[1] \in Int
      /\ Len(m) = MsgSize(m, version)
  <2>1. k + 1 \in 1 .. Len(script)
    BY DEF Whole
  <2> QED BY <1>1, <2>1 DEF Whole
<1>3. rest \in Seq(Int) /\ Len(rest) \in Nat \ {0}
  BY DEF Follows
<1>4. \A x \in 1 .. Len(rest) : x <= Len(m) => rest[x] = m[x]
  BY <1>1, Buffered
<1>5. rest[1] = m[1]
  <2>1. 1 \in 1 .. Len(rest) /\ 1 <= Len(m)
    BY <1>2, <1>3
  <2> QED BY <1>4, <2>1
<1>6. ASSUME NEW n \in Nat, n <= Len(m), n <= Len(rest)
      PROVE  Agree(m, rest, n) /\ Agree(rest, m, n)
  <2>1. \A i \in 1 .. n : i \in 1 .. Len(rest) /\ i <= Len(m)
    BY <1>2, <1>3, <1>6
  <2> QED BY <1>4, <1>6, <2>1 DEF Agree
<1>7. CASE Len(m) <= Len(rest)
  <2>1. Agree(m, rest, MsgSize(m, version))
    BY <1>2, <1>6, <1>7
  <2>2. MsgSize(rest, version) = MsgSize(m, version)
    BY <1>2, <1>3, <1>5, <2>1, SizeAgrees
  <2>3. Calls(rest) = Calls(m)
    BY <1>2, <1>3, <1>5, <2>1, CallsAgree
  <2> QED BY <1>1, <1>2, <1>7, <2>2, <2>3 DEF Complete
<1>8. CASE ~(Len(m) <= Len(rest))
  <2> SUFFICES ASSUME Complete(rest, version) PROVE FALSE
    BY <1>1, <1>8
  <2>1. MsgSize(rest, version) \in Nat /\ MsgSize(rest, version) <= Len(rest)
    BY <1>3, MsgSizeNat DEF Complete
  <2>2. MsgSize(rest, version) <= Len(m)
    BY <1>2, <1>3, <1>8, <2>1
  <2>3. Agree(rest, m, MsgSize(rest, version))
    BY <1>6, <2>1, <2>2
  <2>4. MsgSize(m, version) = MsgSize(rest, version)
    BY <1>2, <1>3, <1>5, <2>3, SizeAgrees
  <2> QED BY <1>2, <1>3, <1>8, <2>1, <2>4
<1> QED BY <1>7, <1>8

LEMMA CallsOfNone ==
  ASSUME NEW script
  PROVE  CallsOf(script, 0) = <<>>
<1>1. [i \in 1 .. 0 |-> Calls(script[i])] = <<>>
  OBVIOUS
<1> QED BY <1>1, FlattenNone DEF CallsOf

LEMMA CallsOfNext ==
  ASSUME NEW script, NEW version, Whole(script, version), NEW k \in 0 .. Len(script) - 1
  PROVE  CallsOf(script, k + 1) = CallsOf(script, k) \o Calls(script[k + 1])
<1>0. Len(script) \in Nat /\ k \in Nat
  BY DEF Whole
<1>1. \A i \in 1 .. Len(script) : Calls(script[i]) \in Seq(CallSet)
  <2> TAKE i \in 1 .. Len(script)
  <2>1. PICK m : m = script[i]
    OBVIOUS
  <2>2. m \in Seq(Int) /\ m[1] \in Int /\ Len(m) \in Nat /\ MsgSize(m, version) = Len(m)
    BY <2>1 DEF Whole
  <2>3. Agree(m, m, MsgSize(m, version))
    BY <2>2 DEF Agree
  <2> QED BY <2>1, <2>2, <2>3, CallsAgree
<1>2. PICK seqs, t : seqs = [i \in 1 .. k |-> Calls(script[i])] /\ t = Calls(script[k + 1])
  OBVIOUS
<1>3. \A i \in 1 .. k : Calls(script[i]) \in Seq(CallSet)
  BY <1>0, <1>1
<1>4. seqs \in Seq(Seq(CallSet)) /\ Len(seqs) = k
  BY <1>0, <1>2, <1>3
<1>5. t \in Seq(CallSet)
  <2>1. k + 1 \in 1 .. Len(script)
    BY <1>0
  <2> QED BY <1>1, <1>2, <2>1
<1>6. Append(seqs, t) = [i \in 1 .. k + 1 |-> Calls(script[i])]
  <2>1. PICK more : more = Append(seqs, t)
    OBVIOUS
  <2>2. /\ more \in Seq(Seq(CallSet)) /\ Len(more) = k + 1 /\ more[k + 1] = t
        /\ \A i \in 1 .. k : more[i] = seqs[i]
    BY <1>4, <1>5, <2>1
  <2>3. more = [i \in 1 .. k + 1 |-> more[i]]
    BY <2>2
  <2>4. \A i \in 1 .. k + 1 : more[i] = Calls(script[i])
    <3> TAKE i \in 1 .. k + 1
    <3>1. i \in 1 .. k \/ i = k + 1
      BY <1>0
    <3>2. i \in 1 .. k => more[i] = Calls(script[i])
      BY <1>2, <2>2
    <3>3. i = k + 1 => more[i] = Calls(script[i])
      BY <1>2, <2>2
    <3> QED BY <3>1, <3>2, <3>3
  <2> QED BY <2>1, <2>3, <2>4
<1>7. FlattenSeq(Append(seqs, t)) = FlattenSeq(seqs) \o t
  BY <1>4, <1>5, FlattenAppend
<1> QED BY <1>2, <1>6, <1>7 DEF CallsOf

-----------------------------------------------------------------------------
(* What is true between any two steps. *)

\* The connection is the client's, and main waits for or reads it.
Live == c.fd /\ (c.connected \/ pc = "ack")

Requests == {"CLIENT_VERSION", "CLIENT_ID", "REQ_CURRENT_TIME", "REQ_MKT_DATA"}

Types ==
  /\ pc \in {"connect", "ack", "wait", "time", "subscribe", "loop", "sleep", "end"}
  /\ ptr \in Nat \cup {Idle}
  /\ ptr # Idle => pc \in {"ack", "loop"}
  /\ bbo \in [Quotes -> Int] \cup {NoBBO}
  /\ c \in [fd : BOOLEAN, connected : BOOLEAN, serverVersion : Int, in : Seq(Int),
            half : BOOLEAN, out : Seq(Requests)]
  /\ tws \in [up : BOOLEAN, version : Int, conn : {"none", "open", "closed", "reset"},
              got : Seq(Requests), wire : Seq(Int), script : Seq(Seq(Int)), sent : Nat, read : Nat]
  /\ Whole(tws.script, tws.version)
  /\ tws.sent <= Len(tws.script) + 1

Client ==
  /\ c.fd => c.out = <<>>
  /\ ~c.fd => c.in = <<>>
  /\ c.connected => pc \in {"ack", "wait", "time", "subscribe", "loop"}
  /\ ~c.connected /\ pc \in {"time", "subscribe", "loop"} => c.in = <<>>

\* The acknowledgement was answered on a connection that was broken.
Dead ==
  /\ tws.conn = "none" /\ tws.sent = 0 /\ tws.read = 0
  /\ calls = <<>> /\ published = <<>>

\* Where what was sent ends in the stream.
SentEnd == IF tws.sent = 0 THEN 0 ELSE EndsAt(tws.script, tws.sent - 1)

\* The buffer and the wire hold the stream around the place read so far.
Wired ==
  /\ tws.conn # "none"
  /\ Len(c.in) <= tws.read
  /\ \A x \in 1 .. Len(c.in) :
        c.in[x] = Stream(tws.version, tws.script, tws.read - Len(c.in) + x)
  /\ \A x \in 1 .. Len(tws.wire) : tws.wire[x] = Stream(tws.version, tws.script, tws.read + x)
  /\ tws.read + Len(tws.wire) <= SentEnd
  /\ tws.conn \in {"open", "closed"} => tws.read + Len(tws.wire) = SentEnd
  /\ ptr # Idle => ptr <= Len(c.in)

\* The requests main can have sent, and what TWS sends before a subscription.
Stage == IF ~c.connected THEN 1
         ELSE IF pc \in {"ack", "wait", "time"} THEN 2
         ELSE IF pc = "subscribe" THEN 3 ELSE 4

Asked ==
  /\ Len(tws.got) <= Stage
  /\ \A i \in 1 .. tws.sent - 1 : IsTick(tws.script[i]) => Len(tws.got) = 4
  /\ published \in Seq([PublishedQuotes -> Int])
  /\ published # <<>> => bbo # NoBBO /\ Last(published) = ZmqPublishTick(bbo)
  /\ pc = "loop" <=> bbo # NoBBO

Waiting ==
  /\ tws.read = Len(c.in) /\ ptr \in {Idle, 0}
  /\ calls = <<>> /\ published = <<>>

\* The best bid and offer after n messages.
Quoted(n) ==
  /\ bbo # NoBBO => Reflects(bbo, n)
  /\ (\E q \in PublishedQuotes, i \in 1 .. n : Says(tws.script[i], q)) => published # <<>>

\* checkMessages stands behind the n-th message.
Parsed(n) ==
  /\ tws.sent > n
  /\ c.serverVersion = tws.version
  /\ calls = CallsOf(tws.script, n)
  /\ tws.read - Len(c.in) + (IF ptr = Idle THEN 0 ELSE ptr) = EndsAt(tws.script, n)
  /\ ptr = Idle /\ n < Len(tws.script) => tws.read < EndsAt(tws.script, n + 1)
  /\ Quoted(n)

IInv ==
  /\ Types
  /\ Client
  /\ c.connected /\ ~c.fd => Dead
  /\ Live => Wired /\ Asked
  /\ Live /\ ~c.connected => Waiting
  /\ Live /\ c.connected => \E n \in 0 .. Len(tws.script) : Parsed(n)

-----------------------------------------------------------------------------
(* What a message does to the best bid and offer. *)

TickLoop(f, cs) ==
  f = [i \in 0 .. Len(cs) |->
         IF i = 0 THEN bbo
         ELSE IF Known(cs[i]) THEN HandleTick(f[i - 1], cs[i]) ELSE f[i - 1]]

LEMMA TicksAre ==
  ASSUME NEW cs, \E f : TickLoop(f, cs)
  PROVE  TickLoop(AfterTicks(cs), cs)
<1> DEFINE u == CHOOSE f : f = [i \in 0 .. Len(cs) |->
                  IF i = 0 THEN bbo
                  ELSE IF Known(cs[i]) THEN HandleTick(f[i - 1], cs[i]) ELSE f[i - 1]]
<1>1. u = [i \in 0 .. Len(cs) |->
             IF i = 0 THEN bbo
             ELSE IF Known(cs[i]) THEN HandleTick(u[i - 1], cs[i]) ELSE u[i - 1]]
  BY DEF TickLoop
<1>2. AfterTicks(cs) = u
  BY DEF AfterTicks
<1> HIDE DEF u
<1> QED BY <1>1, <1>2 DEF TickLoop

LEMMA TicksNone ==
  ASSUME NEW cs \in Seq(CallSet), \A i \in 1 .. Len(cs) : ~Known(cs[i])
  PROVE  AfterTicks(cs)[Len(cs)] = bbo
<1>0. Len(cs) \in Nat
  OBVIOUS
<1>1. PICK f : f = [i \in 0 .. Len(cs) |-> bbo]
  OBVIOUS
<1>2. TickLoop(f, cs)
  <2>1. \A i \in 0 .. Len(cs) : i # 0 => i \in 1 .. Len(cs) /\ i - 1 \in 0 .. Len(cs)
    BY <1>0
  <2>2. \A i \in 0 .. Len(cs) :
          bbo = IF i = 0 THEN bbo
                ELSE IF Known(cs[i]) THEN HandleTick(f[i - 1], cs[i]) ELSE f[i - 1]
    BY <1>1, <2>1
  <2> QED BY <1>1, <2>2 DEF TickLoop
<1>3. PICK g : g = AfterTicks(cs) /\ TickLoop(g, cs)
  BY <1>2, TicksAre
<1> DEFINE T == {i \in 0 .. Len(cs) : g[i] = bbo}
<1>4. \A i \in 0 .. Len(cs) : g[i] = IF i = 0 THEN bbo
               ELSE IF Known(cs[i]) THEN HandleTick(g[i - 1], cs[i]) ELSE g[i - 1]
  BY <1>3 DEF TickLoop
<1>5. 0 \in T
  BY <1>0, <1>4
<1>6. ASSUME NEW i \in 0 .. Len(cs) - 1, i \in T
      PROVE  i + 1 \in T
  <2>1. i + 1 \in 0 .. Len(cs) /\ i + 1 \in 1 .. Len(cs) /\ (i + 1) - 1 = i /\ i + 1 # 0
    BY <1>0
  <2>2. g[i + 1] = g[i]
    BY <1>4, <2>1
  <2> QED BY <1>6, <2>1, <2>2
<1>7. 0 .. Len(cs) \subseteq T
  <2> HIDE DEF T
  <2> QED BY <1>0, <1>5, <1>6, UpTo
<1>8. Len(cs) \in 0 .. Len(cs)
  BY <1>0
<1> QED BY <1>3, <1>7, <1>8

LEMMA TicksOne ==
  ASSUME NEW a
  PROVE  AfterTicks(<<a>>)[1] = IF Known(a) THEN HandleTick(bbo, a) ELSE bbo
<1>1. PICK x, cs : x = (IF Known(a) THEN HandleTick(bbo, a) ELSE bbo) /\ cs = <<a>>
  OBVIOUS
<1>2. Len(cs) = 1 /\ cs[1] = a
  BY <1>1
<1>3. PICK f : f = [i \in 0 .. 1 |-> IF i = 0 THEN bbo ELSE x]
  OBVIOUS
<1>4. f[0] = bbo /\ f[1] = x
  BY <1>3
<1>5. TickLoop(f, cs)
  <2>1. \A i \in 0 .. 1 : f[i] = IF i = 0 THEN bbo
              ELSE IF Known(cs[i]) THEN HandleTick(f[i - 1], cs[i]) ELSE f[i - 1]
    <3> TAKE i \in 0 .. 1
    <3>1. CASE i = 0
      BY <1>4, <3>1
    <3>2. CASE i = 1
      <4>1. f[i - 1] = bbo /\ cs[i] = a /\ f[i] = x
        BY <1>2, <1>4, <3>2
      <4> QED BY <1>1, <3>2, <4>1
    <3> QED BY <3>1, <3>2
  <2>2. f = [i \in 0 .. 1 |-> f[i]]
    BY <1>3
  <2> QED BY <1>2, <2>1, <2>2 DEF TickLoop
<1>6. PICK g : g = AfterTicks(cs) /\ TickLoop(g, cs)
  BY <1>5, TicksAre
<1>7. \A i \in 0 .. 1 : g[i] = IF i = 0 THEN bbo
           ELSE IF Known(cs[i]) THEN HandleTick(g[i - 1], cs[i]) ELSE g[i - 1]
  BY <1>2, <1>6 DEF TickLoop
<1>8. 0 \in 0 .. 1 /\ 1 \in 0 .. 1 /\ 1 - 1 = 0
  OBVIOUS
<1>9. g[0] = bbo
  BY <1>7, <1>8
<1>10. g[1] = IF Known(cs[1]) THEN HandleTick(g[0], cs[1]) ELSE g[0]
  BY <1>7, <1>8
<1> QED BY <1>1, <1>2, <1>6, <1>9, <1>10

LEMMA TicksTwo ==
  ASSUME NEW a, NEW b, NEW x, x = IF Known(a) THEN HandleTick(bbo, a) ELSE bbo
  PROVE  /\ AfterTicks(<<a, b>>)[1] = x
         /\ AfterTicks(<<a, b>>)[2] = IF Known(b) THEN HandleTick(x, b) ELSE x
<1>1. PICK y, cs : y = (IF Known(b) THEN HandleTick(x, b) ELSE x) /\ cs = <<a, b>>
  OBVIOUS
<1>2. Len(cs) = 2 /\ cs[1] = a /\ cs[2] = b
  BY <1>1
<1>3. PICK f : f = [i \in 0 .. 2 |-> IF i = 0 THEN bbo ELSE IF i = 1 THEN x ELSE y]
  OBVIOUS
<1>4. f[0] = bbo /\ f[1] = x /\ f[2] = y
  BY <1>3
<1>5. TickLoop(f, cs)
  <2>1. \A i \in 0 .. 2 : f[i] = IF i = 0 THEN bbo
              ELSE IF Known(cs[i]) THEN HandleTick(f[i - 1], cs[i]) ELSE f[i - 1]
    <3> TAKE i \in 0 .. 2
    <3>1. CASE i = 0
      BY <1>4, <3>1
    <3>2. CASE i = 1
      <4>1. f[i - 1] = bbo /\ cs[i] = a /\ f[i] = x
        BY <1>2, <1>4, <3>2
      <4> QED BY <3>2, <4>1
    <3>3. CASE i = 2
      <4>1. f[i - 1] = x /\ cs[i] = b /\ f[i] = y
        BY <1>2, <1>4, <3>3
      <4> QED BY <1>1, <3>3, <4>1
    <3> QED BY <3>1, <3>2, <3>3
  <2>2. f = [i \in 0 .. 2 |-> f[i]]
    BY <1>3
  <2> QED BY <1>2, <2>1, <2>2 DEF TickLoop
<1>6. PICK g : g = AfterTicks(cs) /\ TickLoop(g, cs)
  BY <1>5, TicksAre
<1>7. \A i \in 0 .. 2 : g[i] = IF i = 0 THEN bbo
           ELSE IF Known(cs[i]) THEN HandleTick(g[i - 1], cs[i]) ELSE g[i - 1]
  BY <1>2, <1>6 DEF TickLoop
<1>8. 0 \in 0 .. 2 /\ 1 \in 0 .. 2 /\ 2 \in 0 .. 2 /\ 1 - 1 = 0 /\ 2 - 1 = 1
  OBVIOUS
<1>9. g[0] = bbo
  BY <1>7, <1>8
<1>10. g[1] = x
  BY <1>2, <1>7, <1>8, <1>9
<1>11. g[2] = IF Known(cs[2]) THEN HandleTick(g[1], cs[2]) ELSE g[1]
  BY <1>7, <1>8
<1> QED BY <1>1, <1>2, <1>6, <1>10, <1>11

TickNames == {"tickPrice", "tickSize"}

LEMMA OtherCalls ==
  ASSUME NEW m \in Seq(Int), NEW v, m[1] \in Int, Len(m) = MsgSize(m, v), ~IsTick(m)
  PROVE  Calls(m) \in Seq(CallSet) /\ \A i \in 1 .. Len(Calls(m)) : Calls(m)[i].name \notin TickNames
<1>0. Agree(m, m, MsgSize(m, v))
  BY DEF Agree
<1>1. Calls(m) \in Seq(CallSet)
  BY <1>0, CallsAgree
<1>2. m[1] # 1 /\ m[1] # 2
  BY Ids DEF IsTick
<1>3. ASSUME NEW rows \in Seq(CallSet), NEW last, Calls(m) = rows \o <<last>>,
             last.name \notin TickNames, \A i \in 1 .. Len(rows) : rows[i].name \notin TickNames
      PROVE  \A i \in 1 .. Len(Calls(m)) : Calls(m)[i].name \notin TickNames
  <2> TAKE i \in 1 .. Len(Calls(m))
  <2>1. Len(Calls(m)) = Len(rows) + 1 /\ Len(rows) \in Nat
    BY <1>3
  <2>2. CASE i \in 1 .. Len(rows)
    <3>1. Calls(m)[i] = rows[i]
      BY <1>3, <2>2
    <3> QED BY <1>3, <2>2, <3>1
  <2>3. CASE i = Len(rows) + 1
    <3>1. Calls(m)[i] = last
      BY <1>3, <2>3
    <3> QED BY <1>3, <3>1
  <2> QED BY <2>1, <2>2, <2>3
<1>4. CASE m[1] = 17
  <2>1. MsgSize(m, v) = 6 + Times(Field(m, 6), 9)
    BY <1>4, FixedLemma DEF MsgSize, HistoricalSize, MsgId
  <2>2. PICK rows, last : /\ rows = Rows("historicalData", m, 6, 9)
                          /\ last = Call("historicalData", m[3], 0, 0)
    OBVIOUS
  <2>3. rows \in Seq(CallSet) /\ \A i \in 1 .. Len(rows) : rows[i].name = "historicalData"
    BY <1>0, <2>1, <2>2, RowsAgree DEF CallNames
  <2>4. Calls(m) = rows \o <<last>> /\ last.name = "historicalData"
    BY <1>4, <2>2, CallsCases DEF Call
  <2>5. "historicalData" \notin TickNames
    BY DEF TickNames
  <2> QED BY <1>1, <1>3, <2>3, <2>4, <2>5
<1>5. CASE m[1] = 20
  <2>1. MsgSize(m, v) = 4 + Times(Field(m, 4), 16)
    BY <1>5, FixedLemma DEF MsgSize, ScannerSize, MsgId
  <2>2. PICK rows, last : /\ rows = Rows("scannerData", m, 4, 16)
                          /\ last = Call("scannerDataEnd", m[3], 0, 0)
    OBVIOUS
  <2>3. rows \in Seq(CallSet) /\ \A i \in 1 .. Len(rows) : rows[i].name = "scannerData"
    BY SMTT(30), <1>0, <2>1, <2>2, RowsAgree DEF CallNames
  <2>4. Calls(m) = rows \o <<last>> /\ last.name = "scannerDataEnd"
    BY <1>5, <2>2, CallsCases DEF Call
  <2>5. "scannerData" \notin TickNames /\ "scannerDataEnd" \notin TickNames
    BY DEF TickNames
  <2> QED BY <1>1, <1>3, <2>3, <2>4, <2>5
<1>6. CASE m[1] = 4
  <2>1. Calls(m) = <<Call("error", m[3], m[4], m[5])>>
    BY <1>6, CallsCases
  <2>2. "error" \notin TickNames
    BY DEF TickNames
  <2> QED BY <1>1, <2>1, <2>2 DEF Call
<1>7. CASE m[1] \notin {4, 17, 20}
  <2>1. PICK name \in {"other", "unknown"} :
          name = IF m[1] \in KnownIds THEN "other" ELSE "unknown"
    OBVIOUS
  <2>2. Calls(m) = <<Call(name, m[1], 0, 0)>>
    BY <1>2, <1>7, <2>1, CallsCases
  <2>3. name \notin TickNames
    BY DEF TickNames
  <2> QED BY <1>1, <2>2, <2>3 DEF Call
<1> QED BY <1>4, <1>5, <1>6, <1>7

LEMMA QuotesAre ==
  /\ Prices = {1, 2, 4} /\ Sizes = {0, 3, 5} /\ Quotes = {0, 1, 2, 3, 4, 5}
  /\ PublishedQuotes = {0, 1, 2, 3} /\ TickerId = 1 /\ TickType.NOT_SET = 58
BY DEF Prices, Sizes, Quotes, PublishedQuotes, TickType, TickerId

\* What is broadcast is the quotes it has fields for.
LEMMA BroadcastIs ==
  ASSUME NEW b \in [Quotes -> Int]
  PROVE  /\ ZmqPublishTick(b) \in [PublishedQuotes -> Int]
         /\ \A q \in PublishedQuotes : q \in Quotes /\ ZmqPublishTick(b)[q] = b[q]
BY QuotesAre DEF ZmqPublishTick

\* The quote whose size a price tells.
LEMMA SizeTicks ==
  ASSUME NEW t
  PROVE  /\ t = 1 => SizeTickType(t) = 0
         /\ t = 2 => SizeTickType(t) = 3
         /\ t = 4 => SizeTickType(t) = 5
         /\ t \notin {1, 2, 4} => SizeTickType(t) = 58
BY DEF SizeTickType, TickType

LEMMA SaysWhat ==
  ASSUME NEW m, NEW q
  PROVE  /\ m[1] = 1 => (Says(m, q) <=> m[3] = 1 /\ (\/ m[4] = q /\ q \in {1, 2, 4}
                                                     \/ <<m[4], q>> \in {<<1, 0>>, <<2, 3>>, <<4, 5>>}))
         /\ m[1] = 2 => (Says(m, q) <=> m[3] = 1 /\ m[4] = q /\ q \in {0, 3, 5})
         /\ m[1] \notin {1, 2} => ~Says(m, q)
BY Ids, QuotesAre DEF Says, IsTick, TickType

\* After a message every quote it names has the value it says, and the
\* others have theirs still. The broadcasts, if any, are one or two, and the
\* last has all of it.
LEMMA TickStep ==
  ASSUME NEW m \in Seq(Int), NEW v, m[1] \in Int, Len(m) = MsgSize(m, v),
         bbo \in [Quotes -> Int] \cup {NoBBO},
         NEW cs, cs = Calls(m), NEW after, after = AfterTicks(cs)[Len(cs)],
         NEW bs, bs = Broadcasts(cs)
  PROVE  /\ after \in [Quotes -> Int] \cup {NoBBO}
         /\ bbo # NoBBO <=> after # NoBBO
         /\ bs \in Seq([PublishedQuotes -> Int])
         /\ bs = <<>> => after = bbo
         /\ bs # <<>> => /\ bbo # NoBBO /\ Len(bs) \in {1, 2}
                         /\ bs[Len(bs)] = ZmqPublishTick(after)
         /\ \A q \in Quotes :
               /\ Says(m, q) /\ bbo # NoBBO => bs # <<>> /\ after[q] = Said(m, q)
               /\ ~Says(m, q) => after[q] = bbo[q]
<1>1. NoBBO \notin [Quotes -> Int]
  <2>1. 0 \in Quotes
    BY QuotesAre
  <2>2. DOMAIN NoBBO = {}
    BY DEF NoBBO
  <2> QED BY <2>1, <2>2
<1>2. CASE ~IsTick(m)
  <2>1. cs \in Seq(CallSet) /\ \A i \in 1 .. Len(cs) : cs[i].name \notin TickNames
    BY <1>2, OtherCalls
  <2>2. \A i \in 1 .. Len(cs) : ~Known(cs[i])
    BY <2>1 DEF Known, TickNames
  <2>3. after = bbo
    BY <2>1, <2>2, TicksNone
  <2>4. bs = <<>>
    BY <2>1, <2>2 DEF Broadcasts
  <2>5. \A q : ~Says(m, q)
    BY <1>2 DEF Says
  <2>6. <<>> \in Seq([PublishedQuotes -> Int])
    OBVIOUS
  <2> QED BY <2>3, <2>4, <2>5, <2>6
<1>3. CASE m[1] = 2
  <2>1. Len(m) = 5
    BY <1>3, FixedLemma, SizeOfFixed
  <2>2. m[3] \in Int /\ m[4] \in Int /\ m[5] \in Int
    <3>1. 3 \in 1 .. Len(m) /\ 4 \in 1 .. Len(m) /\ 5 \in 1 .. Len(m)
      BY <2>1
    <3> QED BY <3>1
  <2>3. PICK a : a = Call("tickSize", m[3], m[4], m[5])
    OBVIOUS
  <2>4. cs = <<a>> /\ Len(cs) = 1 /\ DOMAIN cs = {1} /\ cs[1] = a
    <3>1. cs = <<a>>
      BY <1>3, <2>3, CallsCases
    <3> QED BY <3>1
  <2>5. Known(a) <=> m[3] = 1 /\ bbo # NoBBO
    BY <2>3, QuotesAre DEF Known, Call
  <2>6. after = IF Known(a) THEN HandleTick(bbo, a) ELSE bbo
    BY <2>4, TicksOne
  <2>7. bs = IF Known(a) THEN [i \in {1} |-> ZmqPublishTick(AfterTicks(cs)[i])] ELSE <<>>
    BY <2>4 DEF Broadcasts
  <2>8. a.name = "tickSize" /\ a.tick = m[4] /\ a.value = m[5]
    BY <2>3 DEF Call
  <2>9. \A q \in Quotes : Says(m, q) <=> m[3] = 1 /\ m[4] = q /\ q \in Sizes
    BY <1>3, SaysWhat, QuotesAre
  <2>10. \A q : Said(m, q) = IF m[4] = q THEN m[5] ELSE m[6]
    BY DEF Said
  <2>11. CASE Known(a)
    <3>1. bbo \in [Quotes -> Int] /\ m[3] = 1 /\ bbo # NoBBO
      BY <2>5, <2>11
    <3>2. after = IF m[4] \in Sizes THEN [bbo EXCEPT ![m[4]] = m[5]] ELSE bbo
      BY <2>6, <2>8, <2>11 DEF HandleTick
    <3>3. after \in [Quotes -> Int]
      BY <2>2, <3>1, <3>2
    <3>4. \A q \in Quotes : after[q] = IF m[4] = q /\ q \in Sizes THEN m[5] ELSE bbo[q]
      BY <3>1, <3>2
    <3>5. /\ bs \in Seq([PublishedQuotes -> Int]) /\ bs # <<>> /\ Len(bs) = 1
          /\ bs[1] = ZmqPublishTick(after)
      <4>1. PICK z : z = ZmqPublishTick(after)
        OBVIOUS
      <4>2. AfterTicks(cs)[1] = after
        BY <2>4
      <4>3. bs = [i \in 1 .. 1 |-> z]
        BY <2>7, <2>11, <4>1, <4>2
      <4>4. z \in [PublishedQuotes -> Int]
        BY <3>3, <4>1, BroadcastIs
      <4>5. bs = <<z>>
        BY <4>3
      <4> QED BY <4>1, <4>4, <4>5
    <3> QED BY <1>1, <2>9, <2>10, <3>1, <3>3, <3>4, <3>5
  <2>12. CASE ~Known(a)
    <3>1. after = bbo /\ bs = <<>>
      BY <2>6, <2>7, <2>12
    <3>2. \A q \in Quotes : Says(m, q) => bbo = NoBBO
      BY <2>5, <2>9, <2>12
    <3>3. <<>> \in Seq([PublishedQuotes -> Int])
      OBVIOUS
    <3> QED BY <3>1, <3>2, <3>3
  <2> QED BY <2>11, <2>12
<1>4. CASE m[1] = 1
  <2>1. Len(m) = 7
    BY <1>4, FixedLemma, SizeOfFixed
  <2>2. m[3] \in Int /\ m[4] \in Int /\ m[5] \in Int /\ m[6] \in Int
    <3>1. 3 \in 1 .. Len(m) /\ 4 \in 1 .. Len(m) /\ 5 \in 1 .. Len(m) /\ 6 \in 1 .. Len(m)
      BY <2>1
    <3> QED BY <3>1
  <2>3. PICK s, a, b : /\ s = SizeTickType(m[4])
                       /\ a = Call("tickPrice", m[3], m[4], m[5])
                       /\ b = Call("tickSize", m[3], s, m[6])
    OBVIOUS
  <2>4. cs = IF s # 58 THEN <<a, b>> ELSE <<a>>
    <3>1. cs = <<a>> \o IF s # 58 THEN <<b>> ELSE <<>>
      BY <1>4, <2>3, CallsCases, QuotesAre
    <3>2. <<a>> \o <<b>> = <<a, b>> /\ <<a>> \o <<>> = <<a>>
      <4>1. <<a>> \in Seq({a, b}) /\ <<b>> \in Seq({a, b}) /\ <<>> \in Seq({a, b})
        OBVIOUS
      <4>2. <<a>> \o <<>> = <<a>>
        BY <4>1
      <4>3. PICK s1, s2, s3 : s1 = <<a>> /\ s2 = <<b>> /\ s3 = s1 \o s2
        OBVIOUS
      <4>4. s3 \in Seq({a, b}) /\ Len(s3) = 2 /\ s3[1] = a /\ s3[2] = b
        BY <4>1, <4>3
      <4>5. s3 = <<a, b>>
        BY <4>4
      <4> QED BY <4>2, <4>3, <4>5
    <3> QED BY <3>1, <3>2
  <2>5. /\ Known(a) <=> m[3] = 1 /\ bbo # NoBBO
        /\ Known(b) <=> m[3] = 1 /\ bbo # NoBBO
    BY <2>3, QuotesAre DEF Known, Call
  <2>6. PICK x : x = IF Known(a) THEN HandleTick(bbo, a) ELSE bbo
    OBVIOUS
  <2>7. /\ Len(cs) = IF s # 58 THEN 2 ELSE 1
        /\ AfterTicks(cs)[1] = x
        /\ after = IF s # 58 /\ Known(b) THEN HandleTick(x, b) ELSE x
    <3>1. CASE s # 58
      <4>1. Len(cs) = 2
        BY <2>4, <3>1
      <4> QED BY <2>4, <2>6, <3>1, <4>1, TicksTwo
    <3>2. CASE s = 58
      <4>1. Len(cs) = 1
        BY <2>4, <3>2
      <4> QED BY <2>4, <2>6, <3>2, <4>1, TicksOne
    <3> QED BY <3>1, <3>2
  <2>8. bs = IF Known(a) THEN [i \in 1 .. Len(cs) |-> ZmqPublishTick(AfterTicks(cs)[i])] ELSE <<>>
    <3>1. CASE s # 58
      <4>1. DOMAIN cs = 1 .. Len(cs) /\ DOMAIN cs = {1, 2} /\ cs[1] = a /\ cs[2] = b
        BY <2>4, <3>1
      <4>2. (\E i \in DOMAIN cs : Known(cs[i])) <=> Known(a)
        BY <2>5, <4>1
      <4> QED BY <4>1, <4>2 DEF Broadcasts
    <3>2. CASE s = 58
      <4>1. DOMAIN cs = 1 .. Len(cs) /\ DOMAIN cs = {1} /\ cs[1] = a
        BY <2>4, <3>2
      <4>2. (\E i \in DOMAIN cs : Known(cs[i])) <=> Known(a)
        BY <4>1
      <4> QED BY <4>1, <4>2 DEF Broadcasts
    <3> QED BY <3>1, <3>2
  <2>9. /\ a.name = "tickPrice" /\ a.tick = m[4] /\ a.value = m[5]
        /\ b.name = "tickSize" /\ b.tick = s /\ b.value = m[6]
    BY <2>3 DEF Call
  <2>10. \A q \in Quotes : Says(m, q) <=> m[3] = 1 /\ ((m[4] = q /\ q \in Prices) \/ s = q)
    <3>1. \A q \in Quotes : <<m[4], q>> \in {<<1, 0>>, <<2, 3>>, <<4, 5>>} <=> s = q
      <4> TAKE q \in Quotes
      <4>1. q \in {0, 1, 2, 3, 4, 5}
        BY QuotesAre
      <4> QED BY SMTT(30), <2>3, <4>1, SizeTicks
    <3> QED BY <1>4, <3>1, SaysWhat, QuotesAre
  <2>11. s \in {0, 3, 5, 58} /\ (s # 58 => m[4] \in Prices /\ s \in Sizes /\ s # m[4])
    BY <2>2, <2>3, SizeTicks, QuotesAre
  <2>12. \A q : Said(m, q) = IF m[4] = q THEN m[5] ELSE m[6]
    BY DEF Said
  <2>13. CASE Known(a)
    <3>1. bbo \in [Quotes -> Int] /\ m[3] = 1 /\ Known(b) /\ bbo # NoBBO
      BY <2>5, <2>13
    <3>2. x = IF m[4] \in Prices THEN [bbo EXCEPT ![m[4]] = m[5]] ELSE bbo
      BY <2>6, <2>9, <2>13 DEF HandleTick
    <3>3. /\ x \in [Quotes -> Int]
          /\ \A q \in Quotes : x[q] = IF m[4] = q /\ q \in Prices THEN m[5] ELSE bbo[q]
      BY <2>2, <3>1, <3>2
    <3>4. after = IF s # 58 THEN [x EXCEPT ![s] = m[6]] ELSE x
      BY <2>7, <2>9, <2>11, <3>1 DEF HandleTick
    <3>5. /\ after \in [Quotes -> Int]
          /\ \A q \in Quotes : after[q] = IF s = q THEN m[6]
                                          ELSE IF m[4] = q /\ q \in Prices THEN m[5] ELSE bbo[q]
      <4>1. s # 58 <=> s \in Quotes
        BY <2>11, QuotesAre
      <4> QED BY <2>2, <2>11, <3>3, <3>4, <4>1
    <3>6. /\ bs \in Seq([PublishedQuotes -> Int]) /\ bs # <<>> /\ Len(bs) \in {1, 2}
          /\ bs[Len(bs)] = ZmqPublishTick(after)
      <4>1. PICK y, z : y = ZmqPublishTick(x) /\ z = ZmqPublishTick(after)
        OBVIOUS
      <4>2. y \in [PublishedQuotes -> Int] /\ z \in [PublishedQuotes -> Int]
        BY <3>3, <3>5, <4>1, BroadcastIs
      <4>3. CASE s # 58
        <5>1. Len(cs) = 2 /\ AfterTicks(cs)[2] = after
          BY <2>7, <4>3
        <5>2. bs = [i \in 1 .. 2 |-> IF i = 1 THEN y ELSE z]
          <6>1. \A i \in 1 .. 2 :
                   ZmqPublishTick(AfterTicks(cs)[i]) = IF i = 1 THEN y ELSE z
            <7> TAKE i \in 1 .. 2
            <7>1. i = 1 \/ i = 2
              OBVIOUS
            <7> QED BY <2>7, <4>1, <5>1, <7>1
          <6> QED BY <2>8, <2>13, <5>1, <6>1
        <5>3. bs = <<y, z>>
          BY <5>2
        <5> QED BY <4>1, <4>2, <5>3
      <4>4. CASE s = 58
        <5>1. Len(cs) = 1 /\ AfterTicks(cs)[1] = after
          BY <2>7, <4>4
        <5>2. bs = [i \in 1 .. 1 |-> z]
          <6>1. \A i \in 1 .. 1 : ZmqPublishTick(AfterTicks(cs)[i]) = z
            <7> TAKE i \in 1 .. 1
            <7>1. i = 1
              OBVIOUS
            <7> QED BY <4>1, <5>1, <7>1
          <6> QED BY <2>8, <2>13, <5>1, <6>1
        <5>3. bs = <<z>>
          BY <5>2
        <5> QED BY <4>1, <4>2, <5>3
      <4> QED BY <4>3, <4>4
    <3>7. \A q \in Quotes : Says(m, q) => after[q] = Said(m, q)
      <4> SUFFICES ASSUME NEW q \in Quotes, Says(m, q) PROVE after[q] = Said(m, q)
        OBVIOUS
      <4>1. CASE s = q
        <5>1. s # 58
          BY <4>1, QuotesAre
        <5>2. m[4] # q
          BY <2>11, <4>1, <5>1
        <5> QED BY <2>12, <3>5, <4>1, <5>2
      <4>2. CASE s # q
        <5>1. m[4] = q /\ q \in Prices
          BY <2>10, <4>2
        <5> QED BY <2>12, <3>5, <4>2, <5>1
      <4> QED BY <4>1, <4>2
    <3>8. \A q \in Quotes : ~Says(m, q) => after[q] = bbo[q]
      BY <2>10, <3>1, <3>5
    <3> QED BY <1>1, <3>1, <3>5, <3>6, <3>7, <3>8
  <2>14. CASE ~Known(a)
    <3>1. after = bbo /\ bs = <<>>
      BY <2>5, <2>6, <2>7, <2>8, <2>14
    <3>2. \A q \in Quotes : Says(m, q) => bbo = NoBBO
      BY <2>5, <2>10, <2>14
    <3>3. <<>> \in Seq([PublishedQuotes -> Int])
      OBVIOUS
    <3> QED BY <3>1, <3>2, <3>3
  <2> QED BY <2>13, <2>14
<1> QED BY <1>2, <1>3, <1>4, Ids DEF IsTick

-----------------------------------------------------------------------------
(* What the properties say follows from the invariant. *)

LEMMA EndOfIs ==
  ASSUME NEW i
  PROVE  EndOf(i) = EndsAt(tws.script, i)
BY DEF EndOf, EndsAt

LEMMA NoneRead ==
  ASSUME tws.sent = 0, Whole(tws.script, tws.version)
  PROVE  NumberRead = 0
<1>1. \A i \in DOMAIN tws.script : ~(i < tws.sent)
  BY DEF Whole
<1>2. WhollyRead = {}
  BY <1>1 DEF WhollyRead
<1> QED BY <1>2 DEF NumberRead

LEMMA ReadSoFar ==
  ASSUME Types, Wired, ptr = Idle, NEW n \in 0 .. Len(tws.script), Parsed(n)
  PROVE  NumberRead = n
<1> DEFINE script == tws.script
           E(i) == EndsAt(script, i)
<1>1. /\ Whole(script, tws.version) /\ Len(script) \in Nat /\ DOMAIN script = 1 .. Len(script)
      /\ tws.sent \in Nat /\ tws.read \in Nat /\ Len(c.in) \in Nat /\ Len(c.in) <= tws.read
      /\ n \in Nat /\ n <= Len(script) /\ tws.sent > n
  <2>1. Whole(tws.script, tws.version) /\ tws.sent \in Nat /\ tws.read \in Nat /\ c.in \in Seq(Int)
    BY DEF Types
  <2>2. tws.script \in Seq(Seq(Int))
    BY <2>1 DEF Whole
  <2>3. Len(tws.script) \in Nat /\ DOMAIN tws.script = 1 .. Len(tws.script) /\ Len(c.in) \in Nat
    BY <2>1, <2>2
  <2>4. Len(c.in) <= tws.read
    BY DEF Wired
  <2>5. tws.sent > n
    BY DEF Parsed
  <2> QED BY <2>1, <2>3, <2>4, <2>5
<1>2. \A i \in 0 .. Len(script) : E(i) \in Nat
  BY <1>1, EndsGrow
<1>3. \A i, j \in 0 .. Len(script) : i < j => E(i) < E(j)
  BY <1>1, EndsGrow
<1>4. tws.read - Len(c.in) + 0 = E(n) /\ (n < Len(script) => tws.read < E(n + 1))
  BY DEF Parsed
<1> HIDE DEF E, script
<1>5. E(n) <= tws.read
  <2>1. E(n) \in Nat
    BY <1>1, <1>2
  <2> QED BY <1>1, <1>4, <2>1
<1>6. \A i \in 1 .. Len(script) : (i < tws.sent /\ E(i) <= tws.read) <=> i <= n
  <2> TAKE i \in 1 .. Len(script)
  <2>1. E(i) \in Nat /\ E(n) \in Nat /\ i \in 0 .. Len(script) /\ n \in 0 .. Len(script)
    BY <1>1, <1>2
  <2>2. CASE i <= n
    <3>1. i = n \/ i < n
      BY <2>1, <2>2
    <3>2. E(i) <= E(n)
      BY <1>3, <2>1, <3>1
    <3>3. E(i) <= tws.read
      BY <1>1, <1>5, <2>1, <3>2
    <3>4. i < tws.sent
      BY <1>1, <2>2
    <3> QED BY <2>2, <3>3, <3>4
  <2>3. CASE ~(i <= n)
    <3>1. n < Len(script) /\ n + 1 \in 0 .. Len(script) /\ (i = n + 1 \/ n + 1 < i)
      BY <1>1, <2>1, <2>3
    <3>2. E(n + 1) \in Nat
      BY <1>2, <3>1
    <3>3. E(n + 1) <= E(i)
      BY <1>3, <2>1, <3>1, <3>2
    <3>4. ~(E(i) <= tws.read)
      BY <1>1, <1>4, <2>1, <3>1, <3>2, <3>3
    <3> QED BY <2>3, <3>4
  <2> QED BY <2>2, <2>3
<1>7. WhollyRead = 1 .. n
  <2>1. \A i : EndOf(i) = E(i)
    BY EndOfIs DEF E, script
  <2>2. WhollyRead = {i \in 1 .. Len(script) : i < tws.sent /\ E(i) <= tws.read}
    BY <1>1, <2>1 DEF WhollyRead, script
  <2> QED BY <1>1, <1>6, <2>2
<1>8. CASE n = 0
  <2>1. WhollyRead = {}
    BY <1>7, <1>8
  <2> QED BY <1>8, <2>1 DEF NumberRead
<1>9. CASE n # 0
  <2>1. n \in WhollyRead /\ n + 1 \notin WhollyRead
    BY <1>1, <1>7, <1>9
  <2>2. \A i \in WhollyRead : i + 1 \notin WhollyRead => i = n
    BY <1>1, <1>7
  <2>3. NumberRead = CHOOSE i \in WhollyRead : i + 1 \notin WhollyRead
    BY <2>1 DEF NumberRead
  <2> QED BY <2>1, <2>2, <2>3
<1> QED BY <1>8, <1>9

LEMMA IInvDelivers ==
  ASSUME IInv
  PROVE  DeliveredInOrder
<1> SUFFICES ASSUME ptr = Idle, c.connected PROVE calls = CallsUpTo(NumberRead)
  BY DEF DeliveredInOrder
<1>1. \A n : CallsUpTo(n) = CallsOf(tws.script, n)
  BY DEF CallsUpTo, CallsOf
<1>2. CASE c.fd
  <2>1. PICK n \in 0 .. Len(tws.script) : Parsed(n)
    BY <1>2 DEF IInv, Live
  <2>2. NumberRead = n
    BY <1>2, <2>1, ReadSoFar DEF IInv, Live
  <2>3. calls = CallsOf(tws.script, n)
    BY <2>1 DEF Parsed
  <2> QED BY <1>1, <2>2, <2>3
<1>3. CASE ~c.fd
  <2>1. Dead
    BY <1>3 DEF IInv
  <2>2. NumberRead = 0
    BY <2>1, NoneRead DEF Dead, IInv, Types
  <2> QED BY <1>1, <2>1, <2>2, CallsOfNone DEF Dead
<1> QED BY <1>2, <1>3

LEMMA ToldReflects ==
  ASSUME NEW b, NEW n, Reflects(b, n)
  PROVE  Reflects(ZmqPublishTick(b), n)
<1>1. \A q \in PublishedQuotes : ZmqPublishTick(b)[q] = b[q]
  BY DEF ZmqPublishTick
<1> QED BY <1>1 DEF Reflects

LEMMA IInvPublishes ==
  ASSUME IInv
  PROVE  PublishedIsCurrent
<1> SUFFICES ASSUME ptr = Idle, c.connected
             PROVE  /\ published # <<>> => Reflects(Last(published), NumberRead)
                    /\ (\E q \in PublishedQuotes, i \in 1 .. NumberRead : Says(tws.script[i], q))
                          => published # <<>>
  BY DEF PublishedIsCurrent
<1>1. CASE c.fd
  <2>1. PICK n \in 0 .. Len(tws.script) : Parsed(n)
    BY <1>1 DEF IInv, Live
  <2>2. NumberRead = n
    BY <1>1, <2>1, ReadSoFar DEF IInv, Live
  <2>3. Quoted(n) /\ Asked
    BY <1>1, <2>1 DEF IInv, Live, Parsed
  <2>4. ASSUME published # <<>> PROVE Reflects(Last(published), n)
    <3>1. bbo # NoBBO /\ Last(published) = ZmqPublishTick(bbo)
      BY <2>3, <2>4 DEF Asked
    <3>2. Reflects(bbo, n)
      BY <2>3, <3>1 DEF Quoted
    <3> QED BY <3>1, <3>2, ToldReflects
  <2> QED BY <2>2, <2>3, <2>4 DEF Quoted
<1>2. CASE ~c.fd
  <2>1. NumberRead = 0 /\ published = <<>>
    BY <1>2, NoneRead DEF Dead, IInv, Types
  <2> QED BY <2>1
<1> QED BY <1>1, <1>2

-----------------------------------------------------------------------------
(* Every step keeps it. *)

LEMMA NewClientIs ==
  /\ NewClient.fd = FALSE /\ NewClient.connected = FALSE /\ NewClient.in = <<>>
  /\ NewClient.out = <<>> /\ NewClient.serverVersion = 0
  /\ NewClient \in [fd : BOOLEAN, connected : BOOLEAN, serverVersion : Int, in : Seq(Int),
                    half : BOOLEAN, out : Seq(Requests)]
BY DEF NewClient

LEMMA NoBBOIs == NoBBO \notin [Quotes -> Int]
<1>1. 0 \in Quotes
  BY QuotesAre
<1>2. DOMAIN NoBBO = {}
  BY DEF NoBBO
<1> QED BY <1>1, <1>2

LEMMA ScriptsWhole ==
  ASSUME NEW version \in DOMAIN Scripts, NEW script \in Scripts[version]
  PROVE  Whole(script, version)
<1>1. /\ version \in Int /\ script \in Seq(Seq(Int))
      /\ \A i \in DOMAIN script : script[i] # <<>> /\ Len(script[i]) = MsgSize(script[i], version)
  BY ScriptsAssumption
<1>2. DOMAIN script = 1 .. Len(script)
  BY <1>1
<1>3. \A i \in 1 .. Len(script) : script[i] \in Seq(Int)
  BY <1>1, <1>2
<1>4. ASSUME NEW m \in Seq(Int), m # <<>>
      PROVE  Len(m) \in Nat \ {0} /\ m[1] \in Int
  BY <1>4
<1> QED BY <1>1, <1>2, <1>3, <1>4 DEF Whole

LEMMA InitIInv == Init => IInv
<1> SUFFICES ASSUME Init PROVE IInv
  OBVIOUS
<1> USE DEF Init
<1>1. Whole(tws.script, tws.version)
  BY ScriptsWhole
<1>2. Types
  <2>1. tws.script \in Seq(Seq(Int)) /\ tws.version \in Int
    BY <1>1 DEF Whole
  <2>2. /\ tws.sent = 0 /\ tws.read = 0 /\ tws.got = <<>> /\ tws.wire = <<>> /\ tws.conn = "none"
        /\ tws.up \in BOOLEAN
    OBVIOUS
  <2>3. tws = [up |-> tws.up, version |-> tws.version, conn |-> tws.conn, got |-> tws.got,
               wire |-> tws.wire, script |-> tws.script, sent |-> tws.sent, read |-> tws.read]
    OBVIOUS
  <2>4. tws \in [up : BOOLEAN, version : Int, conn : {"none", "open", "closed", "reset"},
                 got : Seq(Requests), wire : Seq(Int), script : Seq(Seq(Int)), sent : Nat, read : Nat]
    <3>1. <<>> \in Seq(Requests) /\ <<>> \in Seq(Int)
      OBVIOUS
    <3> QED BY <2>1, <2>2, <2>3, <3>1
  <2>5. tws.sent <= Len(tws.script) + 1
    <3>1. Len(tws.script) \in Nat
      BY <2>1
    <3> QED BY <2>2, <3>1
  <2> QED BY <1>1, <2>4, <2>5, NewClientIs DEF Types
<1>3. Client
  BY NewClientIs DEF Client
<1> QED BY <1>2, <1>3, NewClientIs DEF IInv, Live

\* Without a client that waits for or reads the connection there is little
\* to show.
LEMMA NotLive ==
  ASSUME Types', Client', ~c'.connected, ~(c'.fd /\ pc' = "ack")
  PROVE  IInv'
BY DEF IInv, Live

TwsType == [up : BOOLEAN, version : Int, conn : {"none", "open", "closed", "reset"},
            got : Seq(Requests), wire : Seq(Int), script : Seq(Seq(Int)), sent : Nat, read : Nat]
ClientType == [fd : BOOLEAN, connected : BOOLEAN, serverVersion : Int, in : Seq(Int),
               half : BOOLEAN, out : Seq(Requests)]

LEMMA HungUpType ==
  ASSUME Types
  PROVE  /\ HungUp(tws) \in TwsType /\ HungUp(tws).script = tws.script
         /\ HungUp(tws).version = tws.version /\ HungUp(tws).sent = 0 /\ HungUp(tws).read = 0
         /\ HungUp(tws).conn = "none" /\ HungUp(tws).wire = <<>> /\ HungUp(tws).got = <<>>
         /\ HungUp(tws).up = tws.up
<1>1. tws \in TwsType
  BY DEF Types, TwsType
<1>2. HungUp(tws) = [tws EXCEPT !.conn = "none", !.got = <<>>, !.wire = <<>>, !.sent = 0, !.read = 0]
  BY DEF HungUp
<1>3. <<>> \in Seq(Requests) /\ <<>> \in Seq(Int)
  OBVIOUS
<1>4. tws = [up |-> tws.up, version |-> tws.version, conn |-> tws.conn, got |-> tws.got,
             wire |-> tws.wire, script |-> tws.script, sent |-> tws.sent, read |-> tws.read]
  BY <1>1 DEF TwsType
<1>5. HungUp(tws) = [up |-> tws.up, version |-> tws.version, conn |-> "none", got |-> <<>>,
                     wire |-> <<>>, script |-> tws.script, sent |-> 0, read |-> 0]
  BY <1>2, <1>4
<1>6. tws.up \in BOOLEAN /\ tws.version \in Int /\ tws.script \in Seq(Seq(Int))
  BY <1>1 DEF TwsType
<1>7. [up |-> tws.up, version |-> tws.version, conn |-> "none", got |-> <<>>,
       wire |-> <<>>, script |-> tws.script, sent |-> 0, read |-> 0] \in TwsType
  BY <1>3, <1>6 DEF TwsType
<1> QED BY <1>5, <1>7

LEMMA TwsStays ==
  ASSUME Types, tws' \in TwsType, tws'.script = tws.script, tws'.version = tws.version,
         tws'.sent <= Len(tws.script) + 1
  PROVE  Whole(tws'.script, tws'.version) /\ tws'.sent <= Len(tws'.script) + 1
BY DEF Types

\* Steps that leave the client without a connection.
LEMMA DisconnectedSteps ==
  ASSUME IInv, tws' = HungUp(tws),
         c'.fd = FALSE, c'.connected = FALSE, c'.in = <<>>, c' \in ClientType,
         pc' \in {"ack", "wait", "time", "subscribe", "loop"},
         ptr' \in Nat \cup {Idle}, ptr' # Idle => pc' \in {"ack", "loop"},
         bbo' \in [Quotes -> Int] \cup {NoBBO}
  PROVE  IInv'
<1>1. Types
  BY DEF IInv
<1>2. Whole(tws'.script, tws'.version) /\ tws'.sent <= Len(tws'.script) + 1
  <2>1. Len(tws.script) \in Nat
    BY <1>1 DEF Types
  <2> QED BY <1>1, <2>1, HungUpType, TwsStays
<1>3. Types'
  BY <1>1, <1>2, HungUpType DEF Types, TwsType, ClientType
<1>4. Client'
  BY DEF Client
<1> QED BY <1>3, <1>4, NotLive

LEMMA OneRequest == <<"CLIENT_VERSION">> \in Seq(Requests) /\ Len(<<"CLIENT_VERSION">>) = 1
<1>1. PICK r \in Requests : r = "CLIENT_VERSION"
  BY DEF Requests
<1>2. <<r>> \in Seq(Requests) /\ Len(<<r>>) = 1
  OBVIOUS
<1> QED BY <1>1, <1>2

LEMMA EConnectSteps == ASSUME IInv, EConnect PROVE IInv'
<1>0. Types /\ Client
  BY DEF IInv
<1>1. PICK open, client : /\ open = [HungUp(tws) EXCEPT !.conn = "open"]
                          /\ client = [NewClient EXCEPT !.fd = TRUE]
  OBVIOUS
<1>2. /\ open \in TwsType /\ open.conn = "open" /\ open.sent = 0 /\ open.read = 0
      /\ open.wire = <<>> /\ open.got = <<>>
      /\ open.script = tws.script /\ open.version = tws.version
  BY <1>0, <1>1, HungUpType DEF TwsType
<1>3. /\ client \in ClientType /\ client.fd = TRUE /\ client.connected = FALSE
      /\ client.in = <<>> /\ client.out = <<>>
  BY <1>1, NewClientIs DEF ClientType
<1>4. /\ c' = BufferedSend(client, open, "CLIENT_VERSION").c
      /\ tws' = BufferedSend(client, open, "CLIENT_VERSION").tws
  BY <1>1 DEF EConnect
<1>5. /\ c' = [client EXCEPT !.out = <<>>]
      /\ tws' = Gets(open, Append(client.out, "CLIENT_VERSION"))
  BY <1>2, <1>3, <1>4 DEF BufferedSend
<1>6. tws' = [open EXCEPT !.got = @ \o Append(client.out, "CLIENT_VERSION")]
  BY <1>2, <1>5 DEF Gets
<1>7. /\ c' \in ClientType /\ c'.fd = TRUE /\ c'.connected = FALSE /\ c'.in = <<>> /\ c'.out = <<>>
  BY <1>3, <1>5 DEF ClientType
<1>8. open.got \o Append(client.out, "CLIENT_VERSION") = <<"CLIENT_VERSION">>
  BY <1>2, <1>3
<1>9. /\ tws' \in TwsType /\ tws'.conn = "open" /\ tws'.sent = 0 /\ tws'.read = 0
      /\ tws'.wire = <<>> /\ tws'.got = <<"CLIENT_VERSION">>
      /\ tws'.script = tws.script /\ tws'.version = tws.version
  <2>1. tws' = [open EXCEPT !.got = <<"CLIENT_VERSION">>]
    BY <1>2, <1>6, <1>8
  <2> QED BY <1>2, <2>1, OneRequest DEF TwsType
<1>10. ptr' = Idle /\ pc' = "ack" /\ calls' = <<>> /\ bbo' = NoBBO /\ published' = <<>>
  BY <1>0 DEF Types, EConnect
<1>11. Types'
  <2>1. Whole(tws'.script, tws'.version) /\ tws'.sent <= Len(tws'.script) + 1
    <3>1. Len(tws.script) \in Nat
      BY <1>0 DEF Types
    <3> QED BY <1>0, <1>9, <3>1, TwsStays
  <2> QED BY <1>7, <1>9, <1>10, <2>1 DEF Types, TwsType, ClientType
<1>12. Client'
  BY <1>7 DEF Client
<1>13. Wired'
  <2>1. Len(c'.in) = 0 /\ Len(tws'.wire) = 0
        /\ (\A x \in 1 .. Len(c'.in) : FALSE) /\ (\A x \in 1 .. Len(tws'.wire) : FALSE)
    BY <1>7, <1>9
  <2>2. SentEnd' = 0
    BY <1>9 DEF SentEnd
  <2> QED BY <1>9, <1>10, <2>1, <2>2 DEF Wired
<1>14. Asked'
  <2>1. Len(tws'.got) = 1
    BY <1>9, OneRequest
  <2>3. \A i \in 1 .. tws'.sent - 1 : FALSE
    BY <1>9
  <2>2. Stage' = 1
    BY <1>7 DEF Stage
  <2> QED BY <1>10, <2>1, <2>2, <2>3 DEF Asked
<1>15. Waiting'
  BY <1>7, <1>9, <1>10 DEF Waiting
<1> QED BY <1>7, <1>11, <1>12, <1>13, <1>14, <1>15 DEF IInv

LEMMA EConnectFailsSteps == ASSUME IInv, EConnectFails PROVE IInv'
<1> USE DEF EConnectFails
<1>1. Types
  BY DEF IInv
<1>2. c' \in ClientType /\ c'.connected = FALSE /\ c'.in = <<>> /\ c'.out = <<>>
  BY NewClientIs DEF ClientType
<1>3. Types'
  BY <1>1, <1>2 DEF Types, ClientType
<1>4. Client'
  BY <1>2 DEF Client
<1> QED BY <1>2, <1>3, <1>4, NotLive

\* What only main's place and the quotes' map change.
LEMMA Stays ==
  ASSUME IInv, UNCHANGED <<c, ptr, calls, published, tws>>,
         Types', Client', Live' => Live, Live' => Asked',
         Live' /\ c.connected => \A n \in 0 .. Len(tws.script) : Parsed(n) => Quoted(n)'
  PROVE  IInv'
<1>1. c'.connected /\ ~c'.fd => Dead'
  BY DEF IInv, Dead
<1>2. Live' => Wired'
  BY DEF IInv, Wired, SentEnd
<1>3. Live' /\ ~c'.connected => Waiting'
  BY DEF IInv, Waiting
<1>4. Live' /\ c'.connected => \E n \in 0 .. Len(tws'.script) : Parsed(n)'
  <2> SUFFICES ASSUME Live', c'.connected
               PROVE  \E n \in 0 .. Len(tws'.script) : Parsed(n)'
    OBVIOUS
  <2>1. PICK n \in 0 .. Len(tws.script) : Parsed(n)
    BY DEF IInv
  <2>2. Quoted(n)'
    BY <2>1
  <2>3. Parsed(n)'
    BY <2>1, <2>2 DEF Parsed
  <2> QED BY <2>3
<1> QED BY <1>1, <1>2, <1>3, <1>4 DEF IInv

LEMMA EConnectReturnsSteps == ASSUME IInv, EConnectReturns PROVE IInv'
<1> USE DEF EConnectReturns
<1>0. Types /\ Client
  BY DEF IInv
<1>1. Types'
  BY <1>0 DEF Types
<1>2. Client'
  BY <1>0 DEF Client
<1>3. Live' => Live
  BY DEF Live
<1>4. Live' => Asked'
  BY <1>3 DEF IInv, Asked, Stage, Live
<1>5. \A n : Parsed(n) => Quoted(n)'
  BY DEF Parsed, Quoted, Reflects
<1> QED BY <1>1, <1>2, <1>3, <1>4, <1>5, Stays

LEMMA ConnectedSteps == ASSUME IInv, Connected PROVE IInv'
<1> USE DEF Connected
<1>0. Types /\ Client
  BY DEF IInv
<1>1. Types'
  BY <1>0 DEF Types
<1>2. Client'
  BY <1>0 DEF Client
<1>3. Live' => Live
  BY DEF Live
<1>4. Live' => Asked'
  BY <1>3 DEF IInv, Asked, Stage, Live
<1>5. \A n : Parsed(n) => Quoted(n)'
  BY DEF Parsed, Quoted, Reflects
<1> QED BY <1>1, <1>2, <1>3, <1>4, <1>5, Stays

LEMMA LoopOverSteps == ASSUME IInv, LoopOver PROVE IInv'
<1> USE DEF LoopOver
<1>0. Types /\ Client
  BY DEF IInv
<1>1. Types'
  BY <1>0 DEF Types
<1>2. Client'
  BY <1>0 DEF Client
<1> QED BY <1>1, <1>2, NotLive

LEMMA NextAttemptSteps == ASSUME IInv, NextAttempt PROVE IInv'
<1> USE DEF NextAttempt
<1>0. Types /\ Client
  BY DEF IInv
<1>1. Types'
  BY <1>0, NewClientIs DEF Types
<1>2. Client'
  BY <1>0, NewClientIs DEF Client
<1> QED BY <1>1, <1>2, NewClientIs, NotLive

\* What TWS and the network do leaves the client alone.
LEMMA TwsAlone ==
  ASSUME IInv, UNCHANGED <<pc, c, ptr, calls, bbo, published>>,
         tws' \in TwsType, tws'.script = tws.script, tws'.version = tws.version,
         tws'.read = tws.read, tws'.sent >= tws.sent, tws'.sent <= Len(tws.script) + 1,
         c.connected /\ ~c.fd => tws'.conn = "none" /\ tws'.sent = 0,
         Live => Wired' /\ Asked'
  PROVE  IInv'
<1>0. Types /\ Client
  BY DEF IInv
<1>1. Types'
  <2>1. Whole(tws'.script, tws'.version) /\ tws'.sent <= Len(tws'.script) + 1
    BY <1>0, TwsStays
  <2> QED BY <1>0, <2>1 DEF Types, TwsType
<1>2. Client'
  BY <1>0 DEF Client
<1>3. Live' <=> Live
  BY DEF Live
<1>4. c'.connected /\ ~c'.fd => Dead'
  BY DEF IInv, Dead
<1>5. Live' /\ ~c'.connected => Waiting'
  BY <1>3 DEF IInv, Waiting
<1>6. Live' /\ c'.connected => \E n \in 0 .. Len(tws'.script) : Parsed(n)'
  <2> SUFFICES ASSUME Live', c'.connected
               PROVE  \E n \in 0 .. Len(tws'.script) : Parsed(n)'
    OBVIOUS
  <2>1. PICK n \in 0 .. Len(tws.script) : Parsed(n)
    BY <1>3 DEF IInv
  <2>2. Quoted(n)'
    BY <2>1 DEF Parsed, Quoted, Reflects
  <2>3. tws'.sent > n
    <3>1. tws.sent \in Nat /\ tws'.sent \in Nat /\ n \in Nat
      BY <1>0, <1>1 DEF Types
    <3> QED BY <2>1, <3>1 DEF Parsed
  <2>4. Parsed(n)'
    BY <2>1, <2>2, <2>3 DEF Parsed
  <2> QED BY <2>4
<1> QED BY <1>1, <1>2, <1>3, <1>4, <1>5, <1>6 DEF IInv

LEMMA TwsSame ==
  ASSUME Types
  PROVE  /\ tws \in TwsType /\ tws.sent \in Nat /\ tws.read \in Nat /\ Len(tws.wire) \in Nat
         /\ tws.wire \in Seq(Int) /\ Len(tws.script) \in Nat /\ tws.sent <= Len(tws.script) + 1
BY DEF Types, TwsType

LEMMA TwsAcksSteps ==
  ASSUME IInv, TwsAcks, UNCHANGED <<pc, c, ptr, calls, bbo, published>>
  PROVE  IInv'
<1>0. Types
  BY DEF IInv
<1>1. /\ tws.conn = "open" /\ tws.sent = 0 /\ tws.got = <<"CLIENT_VERSION">>
      /\ tws' = [tws EXCEPT !.wire = <<tws.version, 1>>, !.sent = 1]
  BY DEF TwsAcks
<1>2. PICK wire : wire = <<tws.version, 1>>
  OBVIOUS
<1>3. wire \in Seq(Int) /\ Len(wire) = 2 /\ wire[1] = tws.version /\ wire[2] = 1
  <2>1. tws.version \in Int
    BY <1>0 DEF Types
  <2> QED BY <1>2, <2>1
<1>4. /\ tws' \in TwsType /\ tws'.sent = 1 /\ tws'.wire = wire /\ tws'.conn = "open"
      /\ tws'.script = tws.script /\ tws'.version = tws.version /\ tws'.read = tws.read
      /\ tws'.got = tws.got
  BY <1>0, <1>1, <1>2, <1>3, TwsSame DEF TwsType
<1>5. c.connected /\ ~c.fd => FALSE
  BY <1>1 DEF IInv, Dead
<1>6. Live => Wired' /\ Asked'
  <2> SUFFICES ASSUME Live PROVE Wired' /\ Asked'
    OBVIOUS
  <2>1. Wired /\ Asked
    BY DEF IInv
  <2>2. tws.read = 0 /\ Len(c.in) = 0
    <3>1. SentEnd = 0
      BY <1>1 DEF SentEnd
    <3>2. Len(c.in) \in Nat
      BY <1>0 DEF Types
    <3> QED BY <1>0, <2>1, <3>1, <3>2, TwsSame DEF Wired
  <2>3. SentEnd' = 2
    <3>1. EndsAt(tws.script, 0) = 2
      BY <1>0, Ends DEF Types
    <3> QED BY <1>4, <3>1 DEF SentEnd
  <2>4. \A x \in 1 .. Len(tws'.wire) :
          tws'.wire[x] = Stream(tws'.version, tws'.script, tws'.read + x)
    <3>1. \A x \in 1 .. 2 : wire[x] = Stream(tws.version, tws.script, 0 + x)
      BY <1>3 DEF Stream
    <3> QED BY <1>3, <1>4, <2>2, <3>1
  <2>5. \A x \in 1 .. Len(c'.in) : FALSE
    BY <2>2
  <2>6. Wired'
    <3>1. tws'.read + Len(tws'.wire) = 2 /\ Len(c'.in) = 0 /\ tws'.read = 0
      BY <1>3, <1>4, <2>2
    <3>2. ptr' # Idle => ptr' <= Len(c'.in)
      BY <2>1 DEF Wired
    <3>3. tws'.conn # "none" /\ Len(c'.in) <= tws'.read
      BY <1>4, <3>1
    <3>4. tws'.read + Len(tws'.wire) <= SentEnd' /\ tws'.read + Len(tws'.wire) = SentEnd'
      <4>1. 2 <= 2
        OBVIOUS
      <4> QED BY <2>3, <3>1, <4>1, Zenon
    <3>5. \A x \in 1 .. Len(c'.in) :
            c'.in[x] = Stream(tws'.version, tws'.script, tws'.read - Len(c'.in) + x)
      BY <2>5
    <3> QED BY <2>4, <3>2, <3>3, <3>4, <3>5 DEF Wired
  <2>7. \A i \in 1 .. tws'.sent - 1 : FALSE
    BY <1>4
  <2>8. Asked'
    BY <1>4, <2>1, <2>7 DEF Asked, Stage
  <2> QED BY <2>6, <2>8
<1>7. tws'.sent >= tws.sent /\ tws'.sent <= Len(tws.script) + 1
  BY <1>0, <1>1, <1>4, TwsSame
<1> QED BY <1>4, <1>5, <1>6, <1>7, TwsAlone

LEMMA TwsSendsSteps ==
  ASSUME IInv, TwsSends, UNCHANGED <<pc, c, ptr, calls, bbo, published>>
  PROVE  IInv'
<1>0. Types
  BY DEF IInv
<1>1. PICK m : m = tws.script[tws.sent]
  OBVIOUS
<1>2. /\ tws.conn = "open" /\ tws.sent \in 1 .. Len(tws.script) /\ (IsTick(m) => Len(tws.got) = 4)
      /\ tws' = [tws EXCEPT !.wire = tws.wire \o m, !.sent = tws.sent + 1]
  BY <1>1 DEF TwsSends
<1>3. /\ tws.sent \in Nat /\ tws.sent # 0 /\ tws.sent <= Len(tws.script) /\ Len(tws.script) \in Nat
      /\ m \in Seq(Int) /\ Len(m) \in Nat
  BY <1>0, <1>1, <1>2 DEF Types, Whole
<1>4. /\ tws.wire \o m \in Seq(Int) /\ Len(tws.wire \o m) = Len(tws.wire) + Len(m)
      /\ \A x \in 1 .. Len(tws.wire) : (tws.wire \o m)[x] = tws.wire[x]
      /\ \A x \in 1 .. Len(m) : (tws.wire \o m)[Len(tws.wire) + x] = m[x]
  <2>1. tws.wire \in Seq(Int)
    BY <1>0, TwsSame
  <2> QED BY <1>3, <2>1
<1>5. /\ tws' \in TwsType /\ tws'.sent = tws.sent + 1 /\ tws'.wire = tws.wire \o m
      /\ tws'.conn = "open" /\ tws'.script = tws.script /\ tws'.version = tws.version
      /\ tws'.read = tws.read /\ tws'.got = tws.got
  <2>1. PICK wire, sent : wire = tws.wire \o m /\ sent = tws.sent + 1
    OBVIOUS
  <2>2. wire \in Seq(Int) /\ sent \in Nat /\ tws' = [tws EXCEPT !.wire = wire, !.sent = sent]
    BY <1>2, <1>3, <1>4, <2>1
  <2>3. tws \in TwsType
    BY <1>0, TwsSame
  <2>4. /\ tws' \in TwsType /\ tws'.sent = sent /\ tws'.wire = wire
        /\ tws'.conn = tws.conn /\ tws'.script = tws.script /\ tws'.version = tws.version
        /\ tws'.read = tws.read /\ tws'.got = tws.got
    BY <2>2, <2>3 DEF TwsType
  <2> QED BY <1>2, <2>1, <2>4
<1>6. c.connected /\ ~c.fd => FALSE
  BY <1>2 DEF IInv, Dead
<1>7. Live => Wired' /\ Asked'
  <2> SUFFICES ASSUME Live PROVE Wired' /\ Asked'
    OBVIOUS
  <2>1. Wired /\ Asked
    BY DEF IInv
  <2>2. PICK at, n, len : at = EndsAt(tws.script, tws.sent - 1) /\ n = Len(tws.wire) /\ len = Len(m)
    OBVIOUS
  <2>3. at \in Nat /\ n \in Nat /\ len \in Nat /\ tws.read \in Nat
    <3>1. tws.sent - 1 \in 0 .. Len(tws.script)
      BY <1>3
    <3> QED BY <1>0, <1>3, <2>2, <3>1, EndsGrow, TwsSame DEF Types
  <2>4. tws.read + n = at
    BY <1>2, <1>3, <2>1, <2>2 DEF Wired, SentEnd
  <2>5. SentEnd' = at + len
    <3>1. EndsAt(tws.script, tws.sent) = at + len
      BY <1>0, <1>1, <1>2, <2>2, Ends DEF Types
    <3>2. (tws.sent + 1) - 1 = tws.sent /\ tws.sent + 1 # 0
      BY <1>3
    <3> QED BY <1>5, <3>1, <3>2 DEF SentEnd
  <2>6. \A x \in 1 .. Len(tws'.wire) :
          tws'.wire[x] = Stream(tws'.version, tws'.script, tws'.read + x)
    <3> TAKE x \in 1 .. Len(tws'.wire)
    <3>1. x \in 1 .. n + len
      BY <1>4, <1>5, <2>2
    <3>2. CASE x \in 1 .. n
      BY <1>4, <1>5, <2>1, <2>2, <3>2 DEF Wired
    <3>3. CASE x \notin 1 .. n
      <4>1. PICK y \in 1 .. len : x = n + y
        <5>1. x - n \in 1 .. len /\ x = n + (x - n)
          BY <2>3, <3>1, <3>3
        <5> QED BY <5>1
      <4>2. tws'.wire[x] = m[y]
        BY <1>4, <1>5, <2>2, <4>1
      <4>3. Stream(tws.version, tws.script, at + y) = m[y]
        <5>1. y \in 1 .. Len(tws.script[tws.sent])
          BY <1>1, <2>2
        <5>2. Whole(tws.script, tws.version)
          BY <1>0 DEF Types
        <5>3. Stream(tws.version, tws.script, EndsAt(tws.script, tws.sent - 1) + y)
                = tws.script[tws.sent][y]
          BY <1>2, <5>1, <5>2, StreamHolds
        <5> QED BY <1>1, <2>2, <5>3
      <4>4. tws.read + x = at + y
        BY <2>3, <2>4, <4>1
      <4> QED BY <1>5, <4>2, <4>3, <4>4
    <3> QED BY <3>2, <3>3
  <2>7. tws'.read + Len(tws'.wire) = SentEnd'
    BY <1>4, <1>5, <2>2, <2>3, <2>4, <2>5
  <2>8. tws'.read + Len(tws'.wire) <= SentEnd'
    BY <2>3, <2>5, <2>7
  <2>9. Wired'
    BY <1>5, <2>1, <2>6, <2>7, <2>8 DEF Wired
  <2>10. \A i \in 1 .. tws'.sent - 1 : IsTick(tws'.script[i]) => Len(tws'.got) = 4
    <3> TAKE i \in 1 .. tws'.sent - 1
    <3>1. i \in 1 .. tws.sent - 1 \/ i = tws.sent
      BY <1>3, <1>5
    <3> QED BY <1>1, <1>2, <1>5, <2>1, <3>1 DEF Asked
  <2>11. Asked'
    BY <1>5, <2>1, <2>10 DEF Asked, Stage
  <2> QED BY <2>9, <2>11
<1>8. tws'.sent >= tws.sent /\ tws'.sent <= Len(tws.script) + 1
  BY <1>3, <1>5
<1> QED BY <1>5, <1>6, <1>7, <1>8, TwsAlone

LEMMA TwsOtherSteps ==
  ASSUME IInv, TwsCloses \/ TwsResets \/ TwsStarts, UNCHANGED <<pc, c, ptr, calls, bbo, published>>
  PROVE  IInv'
<1>0. Types /\ tws \in TwsType
  BY TwsSame DEF IInv
<1>1. CASE TwsCloses
  <2>1. tws.conn = "open" /\ tws' = [tws EXCEPT !.conn = "closed", !.up = FALSE]
    BY <1>1 DEF TwsCloses
  <2>2. /\ tws' \in TwsType /\ tws'.sent = tws.sent /\ tws'.wire = tws.wire
        /\ tws'.conn = "closed" /\ tws'.script = tws.script /\ tws'.version = tws.version
        /\ tws'.read = tws.read /\ tws'.got = tws.got
    BY <1>0, <2>1 DEF TwsType
  <2>3. c.connected /\ ~c.fd => FALSE
    BY <2>1 DEF IInv, Dead
  <2>4. Live => Wired' /\ Asked'
    BY <2>1, <2>2 DEF IInv, Wired, SentEnd, Asked, Stage
  <2> QED BY <1>0, <2>2, <2>3, <2>4, TwsAlone, TwsSame
<1>2. CASE TwsResets
  <2>1. PICK rest \in {tws.wire, <<>>} :
          tws.conn \in {"open", "closed"} /\ tws' = [tws EXCEPT !.conn = "reset", !.wire = rest]
    BY <1>2 DEF TwsResets
  <2>2. rest \in Seq(Int)
    <3>1. rest = tws.wire \/ rest = <<>>
      BY <2>1
    <3>2. tws.wire \in Seq(Int) /\ <<>> \in Seq(Int)
      BY <1>0, TwsSame
    <3> QED BY <3>1, <3>2
  <2>3. /\ tws' \in TwsType /\ tws'.sent = tws.sent /\ tws'.wire = rest
        /\ tws'.conn = "reset" /\ tws'.script = tws.script /\ tws'.version = tws.version
        /\ tws'.read = tws.read /\ tws'.got = tws.got
    BY <1>0, <2>1, <2>2 DEF TwsType
  <2>4. c.connected /\ ~c.fd => FALSE
    BY <2>1 DEF IInv, Dead
  <2>5. Live => Wired' /\ Asked'
    <3> SUFFICES ASSUME Live PROVE Wired' /\ Asked'
      OBVIOUS
    <3>1. Wired /\ Asked
      BY DEF IInv
    <3>2. SentEnd' = SentEnd
      BY <2>3 DEF SentEnd
    <3>3. tws.read + Len(tws.wire) = SentEnd
      BY <2>1, <3>1 DEF Wired
    <3>4. CASE rest = tws.wire
      BY <2>3, <3>1, <3>2, <3>4 DEF Wired, Asked, Stage
    <3>5. CASE rest = <<>>
      <4>1. Len(rest) = 0 /\ \A x \in 1 .. Len(rest) : FALSE
        BY <3>5
      <4>2. tws.read + 0 <= SentEnd
        BY <1>0, <3>3, TwsSame
      <4> QED BY <2>3, <3>1, <3>2, <4>1, <4>2 DEF Wired, Asked, Stage
    <3> QED BY <3>4, <3>5
  <2> QED BY <1>0, <2>3, <2>4, <2>5, TwsAlone, TwsSame
<1>3. CASE TwsStarts
  <2>1. tws.conn = "none" /\ tws' = [tws EXCEPT !.up = TRUE]
    BY <1>3 DEF TwsStarts
  <2>2. /\ tws' \in TwsType /\ tws'.sent = tws.sent /\ tws'.wire = tws.wire
        /\ tws'.conn = "none" /\ tws'.script = tws.script /\ tws'.version = tws.version
        /\ tws'.read = tws.read /\ tws'.got = tws.got
    BY <1>0, <2>1 DEF TwsType
  <2>3. c.connected /\ ~c.fd => tws.sent = 0
    BY DEF IInv, Dead
  <2>4. ~Live
    BY <2>1 DEF IInv, Wired
  <2> QED BY <1>0, <2>2, <2>3, <2>4, TwsAlone, TwsSame
<1> QED BY <1>1, <1>2, <1>3

LEMMA FrontLemma ==
  ASSUME NEW S, NEW s, NEW k \in Nat, \A i \in 1 .. k : s[i] \in S
  PROVE  /\ SubSeq(s, 1, k) \in Seq(S) /\ Len(SubSeq(s, 1, k)) = k
         /\ \A i \in 1 .. k : SubSeq(s, 1, k)[i] = s[i]
<1>1. 1 \in Int /\ k \in Int
  OBVIOUS
<1>2. /\ SubSeq(s, 1, k) \in Seq(S)
      /\ Len(SubSeq(s, 1, k)) = IF 1 <= k THEN k - 1 + 1 ELSE 0
      /\ \A i \in 1 .. k - 1 + 1 : SubSeq(s, 1, k)[i] = s[1 + i - 1]
  BY <1>1, SubSeqProperties
<1>3. k - 1 + 1 = k /\ (1 <= k \/ k = 0) /\ \A i \in 1 .. k : 1 + i - 1 = i
  OBVIOUS
<1> QED BY <1>2, <1>3

LEMMA BackLemma ==
  ASSUME NEW S, NEW s, NEW n \in Nat, NEW k \in Nat, k <= n, \A i \in 1 .. n : s[i] \in S
  PROVE  /\ SubSeq(s, k + 1, n) \in Seq(S) /\ Len(SubSeq(s, k + 1, n)) = n - k
         /\ \A i \in 1 .. n - k : SubSeq(s, k + 1, n)[i] = s[k + i]
<1>1. k + 1 \in Int /\ n \in Int /\ \A i \in k + 1 .. n : s[i] \in S
  OBVIOUS
<1>2. /\ SubSeq(s, k + 1, n) \in Seq(S)
      /\ Len(SubSeq(s, k + 1, n)) = IF k + 1 <= n THEN n - (k + 1) + 1 ELSE 0
      /\ \A i \in 1 .. n - (k + 1) + 1 : SubSeq(s, k + 1, n)[i] = s[k + 1 + i - 1]
  BY ONLY <1>1, SubSeqProperties
<1>3. /\ n - (k + 1) + 1 = n - k /\ (k + 1 <= n \/ n - k = 0)
      /\ \A i \in 1 .. n - k : k + 1 + i - 1 = k + i
  OBVIOUS
<1> QED BY <1>2, <1>3

LEMMA ClientSame ==
  ASSUME Types
  PROVE  c \in ClientType /\ c.in \in Seq(Int) /\ Len(c.in) \in Nat
BY DEF Types, ClientType

LEMMA ReadSteps == ASSUME IInv, Read PROVE IInv'
<1>0. Types /\ Client
  BY DEF IInv
<1>1. PICK n \in 0 .. MaxRead, half \in BOOLEAN :
        /\ n <= Len(tws.wire)
        /\ c' = [c EXCEPT !.in = c.in \o SubSeq(tws.wire, 1, n), !.half = half]
        /\ tws' = [tws EXCEPT !.wire = SubSeq(tws.wire, n + 1, Len(tws.wire)),
                              !.read = tws.read + n]
  BY DEF Read
<1>2. /\ c.fd /\ ptr = Idle /\ ptr' = 0 /\ ((pc = "ack" /\ ~c.connected) \/ (pc = "loop" /\ c.connected))
      /\ UNCHANGED <<pc, calls, bbo, published>>
  <2>1. Checking /\ c.fd /\ ptr' = 0 /\ UNCHANGED <<pc, calls, bbo, published>>
    BY Zenon DEF Read
  <2>2. ptr = Idle /\ ((pc = "ack" /\ ~c.connected) \/ (pc = "loop" /\ c.connected))
    BY <2>1, Zenon DEF Checking
  <2> QED BY <2>1, <2>2, Zenon
<1>3. Live
  BY <1>2 DEF Live
<1>4. PICK seg, rest, in, read : /\ seg = SubSeq(tws.wire, 1, n)
                                 /\ rest = SubSeq(tws.wire, n + 1, Len(tws.wire))
                                 /\ in = c.in \o seg /\ read = tws.read + n
  OBVIOUS
<1>5. n \in Nat /\ tws.wire \in Seq(Int) /\ Len(tws.wire) \in Nat /\ tws.read \in Nat
  BY <1>0, TwsSame, BoundsAssumption
<1>6. \A i \in 1 .. Len(tws.wire) : tws.wire[i] \in Int
  BY <1>5
<1>7. seg \in Seq(Int) /\ Len(seg) = n /\ \A i \in 1 .. n : seg[i] = tws.wire[i]
  <2>1. \A i \in 1 .. n : tws.wire[i] \in Int
    BY <1>1, <1>5, <1>6
  <2> QED BY <1>4, <1>5, <2>1, FrontLemma
<1>8. /\ rest \in Seq(Int) /\ Len(rest) = Len(tws.wire) - n
      /\ \A i \in 1 .. Len(tws.wire) - n : rest[i] = tws.wire[n + i]
  <2>1. n <= Len(tws.wire)
    BY <1>1
  <2>2. /\ SubSeq(tws.wire, n + 1, Len(tws.wire)) \in Seq(Int)
        /\ Len(SubSeq(tws.wire, n + 1, Len(tws.wire))) = Len(tws.wire) - n
        /\ \A i \in 1 .. Len(tws.wire) - n :
              SubSeq(tws.wire, n + 1, Len(tws.wire))[i] = tws.wire[n + i]
    BY ONLY <1>5, <1>6, <2>1, BackLemma
  <2> QED BY <1>4, <2>2
<1>9. /\ in \in Seq(Int) /\ Len(in) = Len(c.in) + n /\ Len(c.in) \in Nat
      /\ \A x \in 1 .. Len(c.in) : in[x] = c.in[x]
      /\ \A x \in 1 .. n : in[Len(c.in) + x] = seg[x]
  <2>1. c.in \in Seq(Int) /\ Len(c.in) \in Nat
    BY <1>0, ClientSame
  <2>2. /\ c.in \o seg \in Seq(Int) /\ Len(c.in \o seg) = Len(c.in) + Len(seg)
        /\ \A x \in 1 .. Len(c.in) + Len(seg) :
              (c.in \o seg)[x] = IF x <= Len(c.in) THEN c.in[x] ELSE seg[x - Len(c.in)]
    BY ONLY <1>7, <2>1, ConcatProperties
  <2>3. in = c.in \o seg /\ Len(seg) = n
    BY <1>4, <1>7
  <2>4. in \in Seq(Int) /\ Len(in) = Len(c.in) + n
    BY ONLY <2>2, <2>3
  <2>5. ASSUME NEW x \in 1 .. Len(c.in)
        PROVE  in[x] = c.in[x]
    <3>1. x \in 1 .. Len(c.in) + Len(seg) /\ x <= Len(c.in)
      BY ONLY <1>5, <2>1, <2>3, <2>5
    <3> QED BY ONLY <2>2, <2>3, <3>1
  <2>6. ASSUME NEW x \in 1 .. n
        PROVE  in[Len(c.in) + x] = seg[x]
    <3>1. PICK y : y = Len(c.in) + x
      OBVIOUS
    <3>2. y \in 1 .. Len(c.in) + Len(seg) /\ ~(y <= Len(c.in)) /\ y - Len(c.in) = x
      BY ONLY <1>5, <2>1, <2>3, <2>6, <3>1
    <3>3. in[y] = seg[y - Len(c.in)]
      BY ONLY <2>2, <2>3, <3>2
    <3> QED BY ONLY <3>1, <3>2, <3>3
  <2> QED BY <2>1, <2>4, <2>5, <2>6
<1>10. /\ c' \in ClientType /\ c'.in = in /\ c'.fd = c.fd /\ c'.connected = c.connected
       /\ c'.serverVersion = c.serverVersion /\ c'.out = c.out
  <2>1. c' = [c EXCEPT !.in = in, !.half = half]
    BY <1>1, <1>4
  <2> QED BY <1>0, <1>9, <2>1, ClientSame DEF ClientType
<1>11. /\ tws' \in TwsType /\ tws'.wire = rest /\ tws'.read = read /\ tws'.conn = tws.conn
       /\ tws'.script = tws.script /\ tws'.version = tws.version /\ tws'.sent = tws.sent
       /\ tws'.got = tws.got
  <2>1. tws' = [tws EXCEPT !.wire = rest, !.read = read]
    BY <1>1, <1>4
  <2>2. read \in Nat
    BY <1>4, <1>5
  <2> QED BY <1>0, <1>8, <2>1, <2>2, TwsSame DEF TwsType
<1>12. Types'
  <2>1. Whole(tws'.script, tws'.version) /\ tws'.sent <= Len(tws'.script) + 1
    BY <1>0, <1>11 DEF Types
  <2> QED BY <1>0, <1>2, <1>10, <1>11, <2>1 DEF Types, ClientType, TwsType
<1>13. Client'
  BY <1>0, <1>2, <1>10 DEF Client
<1>14. Wired'
  <2>1. Wired
    BY <1>3 DEF IInv
  <2>2. SentEnd' = SentEnd
    BY <1>11 DEF SentEnd
  <2>3. read - Len(in) = tws.read - Len(c.in) /\ Len(in) <= read
    <3>1. Len(c.in) <= tws.read
      BY <2>1 DEF Wired
    <3>2. PICK a, b : a = Len(c.in) /\ b = Len(in)
      OBVIOUS
    <3>3. a \in Nat /\ b = a + n /\ a <= tws.read /\ read = tws.read + n
      BY <1>4, <1>9, <3>1, <3>2
    <3>4. read - b = tws.read - a /\ b <= read
      BY <1>5, <3>3
    <3> QED BY <3>2, <3>4
  <2>4. \A x \in 1 .. Len(in) : in[x] = Stream(tws.version, tws.script, read - Len(in) + x)
    <3> TAKE x \in 1 .. Len(in)
    <3>1. CASE x \in 1 .. Len(c.in)
      BY <1>9, <2>1, <2>3, <3>1 DEF Wired
    <3>2. CASE x \notin 1 .. Len(c.in)
      <4>1. PICK y \in 1 .. n : x = Len(c.in) + y
        <5>1. x - Len(c.in) \in 1 .. n /\ x = Len(c.in) + (x - Len(c.in))
          BY <1>5, <1>9, <3>2
        <5> QED BY <5>1
      <4>2. y \in 1 .. Len(tws.wire)
        BY <1>1, <1>5
      <4>3. in[x] = Stream(tws.version, tws.script, tws.read + y)
        BY <1>7, <1>9, <2>1, <4>1, <4>2 DEF Wired
      <4>4. read - Len(in) + x = tws.read + y
        BY <1>5, <1>9, <2>3, <4>1
      <4> QED BY <4>3, <4>4
    <3> QED BY <3>1, <3>2
  <2>5. \A x \in 1 .. Len(rest) : rest[x] = Stream(tws.version, tws.script, read + x)
    <3> TAKE x \in 1 .. Len(rest)
    <3>1. n + x \in 1 .. Len(tws.wire) /\ x \in 1 .. Len(tws.wire) - n
      <4>1. x \in 1 .. Len(tws.wire) - n
        BY <1>8
      <4> QED BY <1>1, <1>5, <4>1
    <3>2. rest[x] = Stream(tws.version, tws.script, tws.read + (n + x))
      BY <1>8, <2>1, <3>1 DEF Wired
    <3>3. tws.read + (n + x) = read + x
      BY <1>4, <1>5, <3>1
    <3> QED BY <3>2, <3>3
  <2>6. read + Len(rest) = tws.read + Len(tws.wire)
    <3>1. PICK w : w = Len(tws.wire)
      OBVIOUS
    <3>2. read = tws.read + n /\ Len(rest) = w - n /\ w \in Nat
      BY <1>4, <1>5, <1>8, <3>1
    <3>3. (tws.read + n) + (w - n) = tws.read + w
      BY <1>5, <3>2
    <3> QED BY <3>1, <3>2, <3>3
  <2>7. ptr' # Idle => ptr' <= Len(in)
    BY <1>2, <1>9
  <2> QED BY <1>10, <1>11, <2>1, <2>2, <2>3, <2>4, <2>5, <2>6, <2>7 DEF Wired
<1>15. Asked'
  <2>1. Asked
    BY <1>3 DEF IInv
  <2> QED BY <1>2, <1>10, <1>11, <2>1 DEF Asked, Stage
<1>16. ~c'.connected => Waiting'
  <2> SUFFICES ASSUME ~c.connected PROVE Waiting'
    BY <1>10
  <2>1. tws.read = Len(c.in) /\ calls = <<>> /\ published = <<>>
    BY <1>3 DEF IInv, Waiting
  <2>2. read = Len(in)
    BY <1>4, <1>5, <1>9, <2>1
  <2> QED BY <1>2, <1>10, <1>11, <2>1, <2>2 DEF Waiting
<1>17. c'.connected => \E k \in 0 .. Len(tws'.script) : Parsed(k)'
  <2> SUFFICES ASSUME c.connected PROVE \E k \in 0 .. Len(tws'.script) : Parsed(k)'
    BY <1>10
  <2>1. PICK k \in 0 .. Len(tws.script) : Parsed(k)
    BY <1>3 DEF IInv
  <2>2. ptr' # Idle
    BY <1>2 DEF Idle
  <2>3. read - Len(in) + 0 = EndsAt(tws.script, k)
    <3>1. tws.read - Len(c.in) + 0 = EndsAt(tws.script, k)
      BY <1>2, <2>1 DEF Parsed
    <3>2. read - Len(in) + 0 = tws.read - Len(c.in) + 0
      BY <1>4, <1>5, <1>9
    <3> QED BY <3>1, <3>2
  <2>4. Quoted(k)'
    BY <1>2, <1>11, <2>1 DEF Parsed, Quoted, Reflects
  <2>5. Parsed(k)'
    BY <1>2, <1>10, <1>11, <2>1, <2>2, <2>3, <2>4 DEF Parsed
  <2> QED BY <1>11, <2>5
<1>18. c'.connected /\ ~c'.fd => Dead'
  BY <1>2, <1>10
<1> QED BY <1>12, <1>13, <1>14, <1>15, <1>16, <1>17, <1>18 DEF IInv

LEMMA ReadsNothingSteps == ASSUME IInv, ReadsNothing PROVE IInv'
<1>0. Types /\ Client
  BY DEF IInv
<1>1. CASE tws.conn = "reset"
  <2>1. /\ c' = NewClient /\ tws' = HungUp(tws) /\ pc' \in {"wait", "loop"}
        /\ ptr' = Idle /\ bbo' = bbo
    BY <1>1 DEF ReadsNothing, Checking, Disconnected
  <2> QED BY <1>0, <2>1, DisconnectedSteps, NewClientIs DEF Types, ClientType
<1>2. CASE tws.conn # "reset" /\ pc = "ack"
  <2>1. /\ UNCHANGED <<c, tws, ptr, bbo>> /\ pc' = "wait" /\ ~c.connected /\ ptr = Idle
    BY <1>2 DEF ReadsNothing, Checking
  <2>2. Types'
    BY <1>0, <2>1 DEF Types
  <2>3. Client'
    BY <1>0, <2>1 DEF Client
  <2> QED BY <2>1, <2>2, <2>3, NotLive
<1>3. CASE tws.conn # "reset" /\ pc # "ack"
  <2>1. UNCHANGED <<c, tws, ptr, bbo, pc, calls, published>>
    BY <1>3 DEF ReadsNothing, Checking
  <2>2. Types' /\ Client'
    BY <1>0, <2>1 DEF Types, Client
  <2>3. (Live' => Live) /\ (Live' => Asked')
    BY <2>1 DEF Live, IInv, Asked, Stage
  <2>4. \A n : Parsed(n) => Quoted(n)'
    BY <2>1 DEF Parsed, Quoted, Reflects
  <2> QED BY <2>1, <2>2, <2>3, <2>4, Stays
<1> QED BY <1>1, <1>2, <1>3

\* The buffer between the k-th message's end and its own.
LEMMA RestIs ==
  ASSUME Types, Wired, ptr # Idle
  PROVE  /\ ptr \in Nat /\ ptr <= Len(c.in) /\ Len(c.in) \in Nat /\ tws.read \in Nat
         /\ Rest \in Seq(Int) /\ Len(Rest) = Len(c.in) - ptr
         /\ \A x \in 1 .. Len(Rest) : /\ Rest[x] = c.in[ptr + x]
                                      /\ Rest[x] = Stream(tws.version, tws.script,
                                                          tws.read - Len(c.in) + ptr + x)
<1>1. /\ ptr \in Nat /\ ptr <= Len(c.in) /\ c.in \in Seq(Int) /\ Len(c.in) \in Nat
      /\ tws.read \in Nat /\ Len(c.in) <= tws.read
  BY ClientSame, TwsSame DEF Types, Wired
<1>2. \A i \in 1 .. Len(c.in) : c.in[i] \in Int
  BY <1>1
<1>3. PICK n : n = Len(c.in)
  OBVIOUS
<1>4. /\ SubSeq(c.in, ptr + 1, n) \in Seq(Int) /\ Len(SubSeq(c.in, ptr + 1, n)) = n - ptr
      /\ \A i \in 1 .. n - ptr : SubSeq(c.in, ptr + 1, n)[i] = c.in[ptr + i]
  BY ONLY <1>1, <1>2, <1>3, BackLemma
<1>5. Rest \in Seq(Int) /\ Len(Rest) = n - ptr /\ \A i \in 1 .. n - ptr : Rest[i] = c.in[ptr + i]
  BY <1>3, <1>4 DEF Rest
<1>6. \A x \in 1 .. n - ptr :
        c.in[ptr + x] = Stream(tws.version, tws.script, tws.read - n + ptr + x)
  <2> TAKE x \in 1 .. n - ptr
  <2>1. ptr + x \in 1 .. n
    BY <1>1, <1>3
  <2>2. c.in[ptr + x] = Stream(tws.version, tws.script, tws.read - n + (ptr + x))
    BY <1>3, <2>1 DEF Wired
  <2>3. tws.read - n + (ptr + x) = tws.read - n + ptr + x
    BY <1>1, <1>3
  <2> QED BY <2>2, <2>3
<1> QED BY <1>1, <1>3, <1>5, <1>6

LEMMA FinishCheckSteps == ASSUME IInv, FinishCheck PROVE IInv'
<1>0. Types /\ Client
  BY DEF IInv
<1>1. /\ ptr # Idle /\ LoopEnds /\ ptr' = Idle /\ UNCHANGED <<pc, calls, bbo, published, tws>>
      /\ c' = [c EXCEPT !.in = CleanupBuffer(c.in, ptr),
                        !.serverVersion = IF ~c.connected /\ c.in # <<>> /\ Rest # <<>>
                                          THEN Rest[1] ELSE c.serverVersion]
  BY DEF FinishCheck
<1>2. PICK in, sv : /\ in = CleanupBuffer(c.in, ptr)
                    /\ sv = IF ~c.connected /\ c.in # <<>> /\ Rest # <<>>
                            THEN Rest[1] ELSE c.serverVersion
  OBVIOUS
<1>3. in = Rest
  BY <1>2 DEF CleanupBuffer, Rest
<1>4. pc \in {"ack", "loop"} /\ ptr \in Nat
  BY <1>0, <1>1 DEF Types
<1>5. ~Live => c.in = <<>>
  BY <1>0, <1>4 DEF Live, Client
<1>6. c.in = <<>> => in = <<>>
  <2>1. Len(<<>>) < ptr + 1 /\ ptr + 1 \in Int /\ Len(<<>>) \in Int
    BY <1>4
  <2>2. SubSeq(<<>>, ptr + 1, Len(<<>>)) = <<>>
    BY <2>1, SubSeqEmpty
  <2> QED BY <1>3, <2>2 DEF Rest
<1>7. in \in Seq(Int)
  <2>1. Live => Rest \in Seq(Int)
    BY <1>0, <1>1, RestIs DEF IInv
  <2>2. <<>> \in Seq(Int)
    OBVIOUS
  <2> QED BY <1>3, <1>5, <1>6, <2>1, <2>2
<1>8. sv \in Int
  <2>1. Rest # <<>> => Rest[1] \in Int
    BY <1>3, <1>7
  <2>2. c.serverVersion \in Int
    BY <1>0 DEF Types
  <2> QED BY <1>2, <2>1, <2>2
<1>9. /\ c' \in ClientType /\ c'.in = in /\ c'.serverVersion = sv /\ c'.fd = c.fd
      /\ c'.connected = c.connected /\ c'.out = c.out
  <2>1. c' = [c EXCEPT !.in = in, !.serverVersion = sv]
    BY <1>1, <1>2
  <2> QED BY <1>0, <1>7, <1>8, <2>1, ClientSame DEF ClientType
<1>10. Types'
  BY <1>0, <1>1, <1>9 DEF Types, ClientType
<1>11. Client'
  BY <1>0, <1>1, <1>6, <1>9 DEF Client
<1>12. c'.connected /\ ~c'.fd => Dead'
  BY <1>1, <1>9 DEF IInv, Dead
<1>13. CASE ~Live
  BY <1>1, <1>9, <1>10, <1>11, <1>12, <1>13 DEF IInv, Live
<1>14. CASE Live
  <2>1. Wired /\ Asked
    BY <1>14 DEF IInv
  <2>2. /\ ptr <= Len(c.in) /\ Len(c.in) \in Nat /\ tws.read \in Nat /\ Len(in) = Len(c.in) - ptr
        /\ Len(c.in) <= tws.read
        /\ \A x \in 1 .. Len(in) : in[x] = Stream(tws.version, tws.script,
                                                  tws.read - Len(c.in) + ptr + x)
    <3>1. Len(c.in) <= tws.read
      BY <2>1 DEF Wired
    <3> QED BY <1>0, <1>1, <1>3, <2>1, <3>1, RestIs
  <2>3. PICK a, b : a = Len(c.in) /\ b = Len(in)
    OBVIOUS
  <2>4. a \in Nat /\ b \in Nat /\ b = a - ptr /\ a <= tws.read /\ ptr <= a
    BY <1>4, <2>2, <2>3
  <2>5. tws.read - b = tws.read - a + ptr /\ b <= tws.read
    BY <1>4, <2>2, <2>4
  <2>6. \A x \in 1 .. b : in[x] = Stream(tws.version, tws.script, tws.read - b + x)
    BY <2>2, <2>3, <2>5
  <2>7. SentEnd' = SentEnd
    BY <1>1 DEF SentEnd
  <2>8. Wired'
    BY <1>1, <1>9, <2>1, <2>3, <2>5, <2>6, <2>7 DEF Wired
  <2>9. Asked'
    BY <1>1, <1>9, <2>1 DEF Asked, Stage
  <2>10. ~c'.connected => Waiting'
    <3> SUFFICES ASSUME ~c.connected PROVE Waiting'
      BY <1>9
    <3>1. tws.read = a /\ ptr = 0 /\ calls = <<>> /\ published = <<>>
      BY <1>1, <1>14, <2>3 DEF IInv, Waiting
    <3>2. tws.read = b
      BY <2>4, <3>1
    <3> QED BY <1>1, <1>9, <2>3, <3>1, <3>2 DEF Waiting
  <2>11. c'.connected => \E n \in 0 .. Len(tws'.script) : Parsed(n)'
    <3> SUFFICES ASSUME c.connected PROVE \E n \in 0 .. Len(tws'.script) : Parsed(n)'
      BY <1>9
    <3>1. PICK n \in 0 .. Len(tws.script) : Parsed(n)
      BY <1>14 DEF IInv
    <3>2. tws.read - b = EndsAt(tws.script, n)
      <4>1. tws.read - a + ptr = EndsAt(tws.script, n)
        BY <1>1, <2>3, <3>1 DEF Parsed
      <4> QED BY <2>5, <4>1
    <3>3. n < Len(tws.script) => tws.read < EndsAt(tws.script, n + 1)
      <4> SUFFICES ASSUME n < Len(tws.script) PROVE tws.read < EndsAt(tws.script, n + 1)
        OBVIOUS
      <4>1. /\ Whole(tws.script, tws.version) /\ Len(tws.script) \in Nat
            /\ n \in 0 .. Len(tws.script) - 1 /\ n + 1 \in 1 .. Len(tws.script) /\ (n + 1) - 1 = n
        BY <1>0 DEF Types
      <4>2. PICK size : size = Len(tws.script[n + 1])
        OBVIOUS
      <4>3. size \in Nat /\ size > 0 /\ EndsAt(tws.script, n + 1) = EndsAt(tws.script, n) + size
        BY <4>1, <4>2, Ends DEF Whole
      <4>4. EndsAt(tws.script, n) \in Nat
        BY <4>1, EndsGrow
      <4>5. b < size
        <5>1. CASE in = <<>>
          <6>1. b = 0
            BY <2>3, <5>1
          <6> QED BY <4>3, <6>1
        <5>2. CASE in # <<>>
          <6>1. ~Complete(in, tws.version)
            <7>1. c.in # <<>> /\ Rest # <<>>
              BY <1>3, <1>6, <5>2
            <7>2. ~Complete(Rest, c.serverVersion)
              BY <1>1, <7>1 DEF LoopEnds
            <7>3. c.serverVersion = tws.version
              BY <3>1 DEF Parsed
            <7> QED BY <1>3, <7>2, <7>3
          <6>2. Follows(in, tws.version, tws.script, n)
            BY <1>7, <2>3, <2>6, <3>2 DEF Follows
          <6>3. ~(size <= Len(in))
            BY <4>1, <4>2, <5>2, <6>1, <6>2, NextMessage
          <6> QED BY <2>3, <2>4, <4>3, <6>3
        <5> QED BY <5>1, <5>2
      <4>6. tws.read = EndsAt(tws.script, n) + b
        BY <2>2, <2>4, <3>2, <4>4
      <4> QED BY <2>4, <4>3, <4>4, <4>5, <4>6
    <3>4. Quoted(n)'
      BY <1>1, <3>1 DEF Parsed, Quoted, Reflects
    <3>5. tws'.read - Len(c'.in) + (IF ptr' = Idle THEN 0 ELSE ptr') = EndsAt(tws'.script, n)
      <4>1. EndsAt(tws.script, n) \in Nat
        BY <1>0, EndsGrow DEF Types
      <4>2. tws.read - b + 0 = EndsAt(tws.script, n)
        BY <3>2, <4>1
      <4> QED BY <1>1, <1>9, <2>3, <4>2
    <3>6. c'.serverVersion = c.serverVersion
      BY <1>2, <1>9
    <3>7. Parsed(n)'
      BY <1>1, <3>1, <3>3, <3>4, <3>5, <3>6 DEF Parsed
    <3> QED BY <1>1, <3>7
  <2> QED BY <1>10, <1>11, <1>12, <2>8, <2>9, <2>10, <2>11 DEF IInv
<1> QED BY <1>13, <1>14

\* A send by a client whose buffer is empty, on a connection that holds.
LEMMA Sent ==
  ASSUME NEW client \in ClientType, client.fd, client.out = <<>>,
         Types, tws.conn # "reset", NEW r \in Requests
  PROVE  LET s == BufferedSend(client, tws, r)
         IN  /\ s.c \in ClientType /\ s.c.fd = client.fd /\ s.c.connected = client.connected
             /\ s.c.serverVersion = client.serverVersion /\ s.c.in = client.in /\ s.c.out = <<>>
             /\ s.tws \in TwsType /\ s.tws.conn = tws.conn /\ s.tws.wire = tws.wire
             /\ s.tws.script = tws.script /\ s.tws.version = tws.version
             /\ s.tws.sent = tws.sent /\ s.tws.read = tws.read
             /\ Len(tws.got) \in Nat /\ Len(s.tws.got) <= Len(tws.got) + 1
<1>1. PICK s : s = BufferedSend(client, tws, r)
  OBVIOUS
<1>2. s.c = [client EXCEPT !.out = <<>>] /\ s.tws = Gets(tws, Append(client.out, r))
  BY <1>1 DEF BufferedSend
<1>3. PICK asked : asked = Append(client.out, r)
  OBVIOUS
<1>4. asked \in Seq(Requests) /\ Len(asked) = 1
  BY <1>3
<1>5. tws \in TwsType /\ tws.got \in Seq(Requests) /\ Len(tws.got) \in Nat
  <2>1. tws \in TwsType /\ tws.got \in Seq(Requests)
    BY TwsSame DEF TwsType
  <2> QED BY <2>1
<1>6. PICK got : got = tws.got \o asked
  OBVIOUS
<1>7. got \in Seq(Requests) /\ Len(got) = Len(tws.got) + 1
  <2>1. tws.got \o asked \in Seq(Requests) /\ Len(tws.got \o asked) = Len(tws.got) + Len(asked)
    BY ONLY <1>4, <1>5, ConcatProperties
  <2> QED BY <1>4, <1>6, <2>1
<1>8. <<>> \in Seq(Requests)
  OBVIOUS
<1>9. /\ s.c \in ClientType /\ s.c.fd = client.fd /\ s.c.connected = client.connected
      /\ s.c.serverVersion = client.serverVersion /\ s.c.in = client.in /\ s.c.out = <<>>
  BY <1>2, <1>8 DEF ClientType
<1>10. CASE tws.conn = "open"
  <2>1. s.tws = [tws EXCEPT !.got = got]
    BY <1>2, <1>3, <1>6, <1>10 DEF Gets
  <2>2. /\ s.tws \in TwsType /\ s.tws.conn = tws.conn /\ s.tws.wire = tws.wire
        /\ s.tws.script = tws.script /\ s.tws.version = tws.version
        /\ s.tws.sent = tws.sent /\ s.tws.read = tws.read /\ s.tws.got = got
    BY <1>5, <1>7, <2>1 DEF TwsType
  <2> QED BY <1>1, <1>5, <1>7, <1>9, <2>2
<1>11. CASE tws.conn # "open"
  <2>1. s.tws = tws
    BY <1>2, <1>11 DEF Gets
  <2> QED BY <1>1, <1>5, <1>9, <2>1
<1> QED BY <1>10, <1>11

\* A send that fails: the client is disconnected.
LEMMA NotSent ==
  ASSUME NEW client, ~client.fd \/ tws.conn = "reset", NEW r \in Requests
  PROVE  LET s == BufferedSend(client, tws, r)
         IN  /\ s.c \in ClientType /\ s.c.fd = FALSE /\ s.c.connected = FALSE
             /\ s.c.in = <<>> /\ s.tws = HungUp(tws)
<1>1. PICK s, out : /\ s = BufferedSend(client, tws, r)
                    /\ out = IF client.out = <<>> THEN <<r>> ELSE <<>>
  OBVIOUS
<1>2. s.c = [NewClient EXCEPT !.out = out] /\ s.tws = HungUp(tws)
  BY <1>1 DEF BufferedSend, Disconnected
<1>3. out \in Seq(Requests)
  BY <1>1
<1>4. NewClient \in ClientType
  BY NewClientIs DEF ClientType
<1>5. s.c \in ClientType /\ s.c.fd = NewClient.fd /\ s.c.connected = NewClient.connected
      /\ s.c.in = NewClient.in
  BY <1>2, <1>3, <1>4 DEF ClientType
<1> QED BY <1>1, <1>2, <1>5, NewClientIs

LEMMA ProcessConnectAckSteps == ASSUME IInv, ProcessConnectAck PROVE IInv'
<1>0. Types /\ Client
  BY DEF IInv
<1>1. /\ ptr # Idle /\ c.in # <<>> /\ ~c.connected /\ AckComplete(Rest)
      /\ UNCHANGED <<pc, calls, bbo, published>>
  BY DEF ProcessConnectAck
<1>2. c.fd /\ pc = "ack" /\ Live
  <2>1. c.fd
    BY <1>0, <1>1 DEF Client
  <2>2. pc \in {"ack", "loop"}
    BY <1>0, <1>1 DEF Types
  <2>3. pc # "loop"
    BY <1>0, <1>1 DEF Client
  <2> QED BY <2>1, <2>2, <2>3 DEF Live
<1>3. Wired /\ Asked /\ Waiting
  BY <1>1, <1>2 DEF IInv
<1>4. tws.read = Len(c.in) /\ ptr = 0 /\ calls = <<>> /\ published = <<>>
  BY <1>1, <1>3 DEF Waiting
<1>5. /\ Rest \in Seq(Int) /\ Len(Rest) = Len(c.in) /\ Len(c.in) \in Nat /\ Len(c.in) > 0
      /\ \A x \in 1 .. Len(Rest) :
            Rest[x] = Stream(tws.version, tws.script, tws.read - Len(c.in) + ptr + x)
  <2>1. Len(c.in) \in Nat /\ Len(c.in) > 0
    BY <1>0, <1>1, ClientSame
  <2>2. Len(Rest) = Len(c.in) - 0
    BY <1>0, <1>1, <1>3, <1>4, RestIs
  <2> QED BY <1>0, <1>1, <1>3, <2>1, <2>2, RestIs
<1>6. Rest[1] = tws.version
  <2>1. 1 \in 1 .. Len(Rest) /\ tws.read - Len(c.in) + ptr + 1 = 1
    BY <1>4, <1>5
  <2>2. Rest[1] = Stream(tws.version, tws.script, 1)
    BY <1>5, <2>1
  <2> QED BY <2>2 DEF Stream
<1>7. CASE Rest[1] < MIN_SERVER_VER.SUPPORTED
  <2>1. c' = NewClient /\ tws' = HungUp(tws) /\ ptr' = ptr
    BY <1>7 DEF ProcessConnectAck, Disconnected
  <2> QED BY <1>0, <1>1, <1>2, <2>1, DisconnectedSteps, NewClientIs DEF Types, ClientType
<1>8. CASE ~(Rest[1] < MIN_SERVER_VER.SUPPORTED)
  <2>1. PICK client, s : /\ client = [c EXCEPT !.serverVersion = Rest[1]]
                         /\ s = BufferedSend(client, tws, "CLIENT_ID")
    OBVIOUS
  <2>2. c' = [s.c EXCEPT !.connected = TRUE] /\ tws' = s.tws /\ ptr' = 2
    BY <1>4, <1>8, <2>1 DEF ProcessConnectAck
  <2>3. /\ client \in ClientType /\ client.fd = c.fd /\ client.connected = c.connected
        /\ client.serverVersion = tws.version /\ client.in = c.in /\ client.out = c.out
    <3>1. tws.version \in Int
      BY <1>0 DEF Types
    <3> QED BY <1>0, <1>6, <2>1, <3>1, ClientSame DEF ClientType
  <2>4. Len(c.in) >= 2
    <3>1. Rest[1] \in Int
      BY <1>0, <1>6 DEF Types
    <3>2. Rest[1] >= 20
      BY <1>8, <3>1 DEF MIN_SERVER_VER
    <3> QED BY <1>1, <1>5, <3>2 DEF AckComplete
  <2>5. "CLIENT_ID" \in Requests
    BY DEF Requests
  <2>6. CASE tws.conn = "reset"
    <3>1. /\ s.c \in ClientType /\ s.c.fd = FALSE /\ s.c.connected = FALSE /\ s.c.in = <<>>
          /\ s.tws = HungUp(tws)
      BY <2>1, <2>5, <2>6, NotSent
    <3>2. c' \in ClientType /\ c'.fd = FALSE /\ c'.connected = TRUE /\ c'.in = <<>>
      BY <2>2, <3>1 DEF ClientType
    <3>3. tws' = HungUp(tws)
      BY <2>2, <3>1
    <3>4. Whole(tws'.script, tws'.version) /\ tws'.sent <= Len(tws'.script) + 1
      BY <1>0, <3>3, HungUpType, TwsStays, TwsSame
    <3>5. Types'
      BY <1>0, <1>1, <1>2, <2>2, <3>2, <3>3, <3>4, HungUpType DEF Types, ClientType, TwsType
    <3>6. Client'
      BY <1>1, <1>2, <3>2 DEF Client
    <3>7. Dead'
      BY <1>0, <1>1, <1>4, <3>3, HungUpType DEF Dead
    <3> QED BY <3>2, <3>5, <3>6, <3>7 DEF IInv, Live
  <2>7. CASE tws.conn # "reset"
    <3>1. client.fd /\ client.out = <<>>
      BY <1>0, <1>2, <2>3 DEF Client
    <3>2. /\ s.c \in ClientType /\ s.c.fd = client.fd /\ s.c.connected = client.connected
          /\ s.c.serverVersion = client.serverVersion /\ s.c.in = client.in /\ s.c.out = <<>>
          /\ s.tws \in TwsType /\ s.tws.conn = tws.conn /\ s.tws.wire = tws.wire
          /\ s.tws.script = tws.script /\ s.tws.version = tws.version
          /\ s.tws.sent = tws.sent /\ s.tws.read = tws.read
          /\ Len(tws.got) \in Nat /\ Len(s.tws.got) <= Len(tws.got) + 1
      BY <1>0, <2>1, <2>3, <2>5, <2>7, <3>1, Sent
    <3>3. /\ c' \in ClientType /\ c'.fd = TRUE /\ c'.connected = TRUE /\ c'.in = c.in
          /\ c'.out = <<>> /\ c'.serverVersion = tws.version
      <4>1. s.c.fd = TRUE
        <5>1. c.fd \in BOOLEAN
          BY <1>0 DEF Types
        <5> QED BY <1>2, <2>3, <3>2, <5>1
      <4>2. /\ c' \in ClientType /\ c'.fd = s.c.fd /\ c'.connected = TRUE /\ c'.in = s.c.in
            /\ c'.out = s.c.out /\ c'.serverVersion = s.c.serverVersion
        BY <2>2, <3>2 DEF ClientType
      <4> QED BY <2>3, <3>2, <4>1, <4>2
    <3>4. Types'
      <4>1. Whole(tws'.script, tws'.version) /\ tws'.sent <= Len(tws'.script) + 1
        BY <1>0, <2>2, <3>2 DEF Types
      <4> QED BY <1>0, <1>1, <1>2, <2>2, <3>2, <3>3, <4>1 DEF Types, ClientType, TwsType
    <3>5. Client'
      BY <1>1, <1>2, <3>3 DEF Client
    <3>6. Wired'
      <4>1. SentEnd' = SentEnd
        BY <2>2, <3>2 DEF SentEnd
      <4>2. ptr' <= Len(c'.in)
        BY <2>2, <2>4, <3>3
      <4> QED BY <1>3, <2>2, <3>2, <3>3, <4>1, <4>2 DEF Wired
    <3>7. \A i \in 1 .. tws.sent - 1 : ~IsTick(tws.script[i])
      <4>1. PICK n : n = Len(tws.got)
        OBVIOUS
      <4>2. Len(tws.got) # 4
        <5>1. n <= 1
          BY <1>1, <1>3, <4>1 DEF Asked, Stage
        <5>2. n \in Nat
          BY <3>2, <4>1
        <5>3. n # 4
          BY ONLY <5>1, <5>2
        <5> QED BY <4>1, <5>3
      <4> QED BY <1>3, <4>2 DEF Asked
    <3>8. Asked'
      <4>1. Stage' = 2
        BY <1>1, <1>2, <3>3 DEF Stage
      <4>2. Len(tws'.got) <= 2
        <5>1. Len(tws.got) <= 1
          BY <1>1, <1>3 DEF Asked, Stage
        <5>2. Len(tws'.got) \in Nat
          <6>1. tws'.got \in Seq(Requests)
            BY <2>2, <3>2 DEF TwsType
          <6> QED BY <6>1
        <5> QED BY <2>2, <3>2, <5>1, <5>2
      <4> QED BY <1>1, <1>3, <2>2, <3>2, <3>7, <4>1, <4>2 DEF Asked
    <3>9. Parsed(0)'
      <4>1. tws.sent > 0
        <5>1. tws.sent # 0
          <6>1. tws.sent = 0 => SentEnd = 0
            BY DEF SentEnd
          <6>2. tws.read + Len(tws.wire) <= SentEnd /\ Len(tws.wire) \in Nat
            BY <1>0, <1>3, TwsSame DEF Wired
          <6>3. tws.read + Len(tws.wire) > 0
            <7>1. tws.read >= 2 /\ tws.read \in Nat
              BY <1>4, <1>5, <2>4
            <7> QED BY <6>2, <7>1
          <6>4. SentEnd # 0
            <7>1. PICK n : n = tws.read + Len(tws.wire)
              OBVIOUS
            <7>2. n \in Nat
              BY <1>0, <7>1, TwsSame
            <7>3. n > 0 /\ n <= SentEnd
              BY <6>2, <6>3, <7>1
            <7>4. ~(n <= 0)
              BY ONLY <7>2, <7>3
            <7> QED BY <7>3, <7>4
          <6> QED BY <6>1, <6>4
        <5> QED BY <1>0, <5>1, TwsSame
      <4>2. calls' = CallsOf(tws'.script, 0)
        BY <1>1, <1>4, CallsOfNone
      <4>3. EndsAt(tws.script, 0) = 2
        BY <1>0, Ends DEF Types
      <4>4. ptr' # Idle
        BY <2>2 DEF Idle
      <4>5. tws'.read - Len(c'.in) + (IF ptr' = Idle THEN 0 ELSE ptr') = EndsAt(tws'.script, 0)
        <5>1. tws.read - Len(c.in) + 2 = 2
          BY <1>4, <1>5
        <5> QED BY <2>2, <3>2, <3>3, <4>3, <4>4, <5>1
      <4>6. Quoted(0)'
        <5>1. bbo' = NoBBO
          BY <1>1, <1>2, <1>3 DEF Asked
        <5>2. \A i \in 1 .. 0 : FALSE
          OBVIOUS
        <5> QED BY <5>1, <5>2 DEF Quoted
      <4> QED BY <2>2, <3>2, <3>3, <4>1, <4>2, <4>4, <4>5, <4>6 DEF Parsed
    <3>10. 0 \in 0 .. Len(tws'.script)
      BY <1>0, <2>2, <3>2, TwsSame
    <3> QED BY <3>3, <3>4, <3>5, <3>6, <3>8, <3>9, <3>10 DEF IInv
  <2> QED BY <2>6, <2>7
<1> QED BY <1>7, <1>8

\* The last of a sequence with something behind it.
LEMMA LastLemma ==
  ASSUME NEW S, NEW u \in Seq(S), NEW w \in Seq(S), w # <<>>
  PROVE  u \o w \in Seq(S) /\ u \o w # <<>> /\ Last(u \o w) = w[Len(w)]
<1>1. Len(u) \in Nat /\ Len(w) \in Nat /\ Len(w) > 0
  OBVIOUS
<1>2. PICK x : x = u \o w
  OBVIOUS
<1>3. x \in Seq(S) /\ Len(x) = Len(u) + Len(w)
  BY <1>2
<1>4. x[Len(x)] = w[Len(w)]
  BY <1>1, <1>2, <1>3
<1>5. x # <<>>
  BY <1>1, <1>3
<1> QED BY <1>2, <1>3, <1>4, <1>5 DEF Last

\* What was quoted stays so with one more message processed.
LEMMA QuotedNext ==
  ASSUME Types, Asked, NEW n \in 0 .. Len(tws.script) - 1, Quoted(n),
         NEW m, m = tws.script[n + 1], IsTick(m) => bbo # NoBBO,
         NEW bs, bs = Broadcasts(Calls(m)),
         bbo' = AfterTicks(Calls(m))[Len(Calls(m))], published' = published \o bs
  PROVE  /\ bbo' \in [Quotes -> Int] \cup {NoBBO} /\ (bbo # NoBBO <=> bbo' # NoBBO)
         /\ bs \in Seq([PublishedQuotes -> Int]) /\ Len(bs) \in 0 .. 2
         /\ published' \in Seq([PublishedQuotes -> Int])
         /\ published' # <<>> => bbo' # NoBBO /\ Last(published') = ZmqPublishTick(bbo')
         /\ bbo' # NoBBO => Reflects(bbo', n + 1)
         /\ (\E q \in PublishedQuotes, i \in 1 .. n + 1 : Says(tws.script[i], q)) => published' # <<>>
<1>0. /\ n \in Nat /\ Len(tws.script) \in Nat /\ n + 1 \in 1 .. Len(tws.script)
      /\ Whole(tws.script, tws.version)
  <2>1. Whole(tws.script, tws.version)
    BY DEF Types
  <2>2. tws.script \in Seq(Seq(Int))
    BY <2>1 DEF Whole
  <2>3. Len(tws.script) \in Nat
    BY <2>2
  <2> QED BY <2>1, <2>3
<1>1. m \in Seq(Int) /\ m[1] \in Int /\ Len(m) = MsgSize(m, tws.version)
  BY <1>0 DEF Whole
<1>2. /\ bbo' \in [Quotes -> Int] \cup {NoBBO}
      /\ bbo # NoBBO <=> bbo' # NoBBO
      /\ bs \in Seq([PublishedQuotes -> Int])
      /\ bs = <<>> => bbo' = bbo
      /\ bs # <<>> => /\ bbo # NoBBO /\ Len(bs) \in {1, 2}
                      /\ bs[Len(bs)] = ZmqPublishTick(bbo')
      /\ \A q \in Quotes : /\ Says(m, q) /\ bbo # NoBBO => bs # <<>> /\ bbo'[q] = Said(m, q)
                           /\ ~Says(m, q) => bbo'[q] = bbo[q]
  <2>1. bbo \in [Quotes -> Int] \cup {NoBBO}
    BY DEF Types
  <2>2. PICK cs, after : cs = Calls(m) /\ after = AfterTicks(cs)[Len(cs)]
    OBVIOUS
  <2>3. bbo' = after /\ bs = Broadcasts(cs)
    BY <2>2
  <2>4. /\ after \in [Quotes -> Int] \cup {NoBBO}
        /\ bbo # NoBBO <=> after # NoBBO
        /\ bs \in Seq([PublishedQuotes -> Int])
        /\ bs = <<>> => after = bbo
        /\ bs # <<>> => /\ bbo # NoBBO /\ Len(bs) \in {1, 2}
                        /\ bs[Len(bs)] = ZmqPublishTick(after)
        /\ \A q \in Quotes : /\ Says(m, q) /\ bbo # NoBBO => bs # <<>> /\ after[q] = Said(m, q)
                             /\ ~Says(m, q) => after[q] = bbo[q]
    BY ONLY <1>1, <2>1, <2>2, <2>3, TickStep
  <2> QED BY <2>3, <2>4
<1>3. /\ published \in Seq([PublishedQuotes -> Int])
      /\ published # <<>> => bbo # NoBBO /\ Last(published) = ZmqPublishTick(bbo)
  BY DEF Asked
<1>4. ASSUME bbo' # NoBBO PROVE Reflects(bbo', n + 1)
  <2> SUFFICES ASSUME NEW q \in PublishedQuotes
               PROVE  \/ bbo'[q] = Uninitialized /\ \A i \in 1 .. n + 1 : ~Says(tws.script[i], q)
                      \/ \E i \in 1 .. n + 1 :
                            /\ Says(tws.script[i], q) /\ bbo'[q] = Said(tws.script[i], q)
                            /\ \A j \in i + 1 .. n + 1 : ~Says(tws.script[j], q)
    BY DEF Reflects
  <2>1. q \in Quotes /\ Reflects(bbo, n) /\ bbo # NoBBO
    BY <1>2, <1>4, QuotesAre DEF Quoted
  <2>2. CASE Says(m, q)
    <3>1. bbo'[q] = Said(tws.script[n + 1], q) /\ Says(tws.script[n + 1], q)
      BY <1>2, <2>1, <2>2
    <3>2. \A j \in (n + 1) + 1 .. n + 1 : FALSE
      BY <1>0
    <3>3. n + 1 \in 1 .. n + 1
      BY <1>0
    <3> QED BY <3>1, <3>2, <3>3
  <2>3. CASE ~Says(m, q)
    <3>1. bbo'[q] = bbo[q]
      BY <1>2, <2>1, <2>3
    <3>2. \A i : i \in 1 .. n + 1 <=> i \in 1 .. n \/ i = n + 1
      BY <1>0
    <3>3. CASE bbo[q] = Uninitialized /\ \A i \in 1 .. n : ~Says(tws.script[i], q)
      BY <2>3, <3>1, <3>2, <3>3
    <3>4. ASSUME NEW i \in 1 .. n, Says(tws.script[i], q), bbo[q] = Said(tws.script[i], q),
                 \A j \in i + 1 .. n : ~Says(tws.script[j], q)
          PROVE  \A j \in i + 1 .. n + 1 : ~Says(tws.script[j], q)
      <4>1. \A j \in i + 1 .. n + 1 : j \in i + 1 .. n \/ j = n + 1
        BY <1>0
      <4> QED BY <2>3, <3>4, <4>1
    <3> QED BY <2>1, <3>1, <3>2, <3>3, <3>4 DEF Reflects
  <2> QED BY <2>2, <2>3
<1>5. ASSUME NEW q \in PublishedQuotes, NEW i \in 1 .. n + 1, Says(tws.script[i], q)
      PROVE  published # <<>> \/ bs # <<>>
  <2>1. CASE i = n + 1
    <3>1. IsTick(m) /\ Says(m, q) /\ q \in Quotes
      BY <1>5, <2>1, QuotesAre DEF Says
    <3> QED BY <1>2, <3>1
  <2>2. CASE i # n + 1
    <3>1. i \in 1 .. n
      BY <1>0, <2>2
    <3> QED BY <1>5, <3>1 DEF Quoted
  <2> QED BY <2>1, <2>2
<1>6. CASE bs = <<>>
  <2>1. published' = published
    BY <1>3, <1>6
  <2> QED BY <1>2, <1>3, <1>6, <2>1, <1>4, <1>5
<1>7. CASE bs # <<>>
  <2>1. published' \in Seq([PublishedQuotes -> Int]) /\ published' # <<>> /\ Last(published') = bs[Len(bs)]
    BY <1>2, <1>3, <1>7, LastLemma
  <2> QED BY <1>2, <1>4, <1>7, <2>1
<1> QED BY <1>6, <1>7

\* The message behind the n-th one was sent whole.
LEMMA SentNext ==
  ASSUME Types, Wired, ptr # Idle, NEW n \in 0 .. Len(tws.script), Parsed(n), Rest # <<>>
  PROVE  /\ n + 1 < tws.sent /\ n < Len(tws.script)
         /\ Follows(Rest, tws.version, tws.script, n)
<1> DEFINE E(i) == EndsAt(tws.script, i)
<1>0. /\ n \in Nat /\ Len(tws.script) \in Nat /\ tws.sent \in Nat /\ tws.read \in Nat
      /\ tws.sent <= Len(tws.script) + 1 /\ tws.sent > n /\ Len(tws.wire) \in Nat
      /\ Whole(tws.script, tws.version)
  <2>1. /\ Whole(tws.script, tws.version) /\ tws.sent <= Len(tws.script) + 1
        /\ tws.sent \in Nat /\ tws.read \in Nat /\ tws.wire \in Seq(Int)
    BY DEF Types
  <2>2. tws.script \in Seq(Seq(Int))
    BY <2>1 DEF Whole
  <2>3. Len(tws.script) \in Nat /\ Len(tws.wire) \in Nat
    BY <2>1, <2>2
  <2>4. tws.sent > n
    BY DEF Parsed
  <2>5. n \in Nat
    BY <2>3
  <2> QED BY <2>1, <2>3, <2>4, <2>5
<1>1. PICK a, b : a = Len(c.in) /\ b = Len(Rest)
  OBVIOUS
<1>2. a \in Nat /\ b = a - ptr /\ ptr \in Nat /\ ptr <= a /\ Rest \in Seq(Int)
  BY <1>1, RestIs
<1>3. b \in Nat /\ b > 0
  <2>1. Rest \in Seq(Int) /\ Rest # <<>>
    BY <1>2
  <2>2. Len(Rest) \in Nat /\ Len(Rest) > 0
    BY ONLY <2>1
  <2> QED BY <1>1, <2>2
<1>4. tws.read - a + ptr = E(n) /\ E(n) \in Nat
  <2>1. tws.read - a + ptr = E(n)
    BY <1>1 DEF Parsed
  <2>2. E(n) \in Nat
    BY <1>0, EndsGrow
  <2> QED BY <2>1, <2>2
<1>5. \A x \in 1 .. Len(Rest) : Rest[x] = Stream(tws.version, tws.script, E(n) + x)
  BY <1>1, <1>4, RestIs
<1>6. tws.read = E(n) + b
  BY <1>0, <1>2, <1>4
<1>7. SentEnd = E(tws.sent - 1) /\ tws.sent - 1 \in 0 .. Len(tws.script)
  BY <1>0 DEF SentEnd
<1>8. E(tws.sent - 1) \in Nat
  BY <1>0, <1>7, EndsGrow
<1>9. tws.read + Len(tws.wire) <= SentEnd
  BY DEF Wired
<1> HIDE DEF E
<1>10. E(n) < E(tws.sent - 1)
  BY <1>0, <1>3, <1>4, <1>6, <1>7, <1>8, <1>9
<1>11. n < tws.sent - 1
  <2> SUFFICES ASSUME ~(n < tws.sent - 1) PROVE FALSE
    OBVIOUS
  <2>1. tws.sent - 1 = n \/ tws.sent - 1 < n
    BY <1>0
  <2>2. tws.sent - 1 < n => E(tws.sent - 1) < E(n)
    BY <1>0, <1>7, EndsGrow DEF E
  <2> QED BY <1>4, <1>8, <1>10, <2>1, <2>2
<1> QED BY <1>0, <1>2, <1>5, <1>11 DEF Follows, E

\* The message that ProcessMsg takes is the next of the script.
LEMMA TakesNext ==
  ASSUME IInv, ProcessMsg
  PROVE  /\ c.fd /\ Live /\ Wired /\ Asked /\ Rest # <<>>
         /\ \E n \in 0 .. Len(tws.script) - 1 :
              /\ Parsed(n) /\ n + 1 < tws.sent
              /\ LET m == tws.script[n + 1]
                 IN  /\ IsTick(m) => bbo # NoBBO
                     /\ Calls(Rest) = Calls(m) /\ MsgSize(Rest, c.serverVersion) = Len(m)
                     /\ Len(m) <= Len(Rest)
<1>0. Types /\ Client
  BY DEF IInv
<1>1. /\ ptr # Idle /\ c.in # <<>> /\ c.connected /\ Complete(Rest, c.serverVersion)
      /\ UNCHANGED pc
  BY DEF ProcessMsg
<1>2. c.fd /\ Live
  <2>1. c.fd
    BY <1>0, <1>1 DEF Client
  <2> QED BY <1>1, <2>1 DEF Live
<1>3. Wired /\ Asked
  BY <1>2 DEF IInv
<1>4. PICK n \in 0 .. Len(tws.script) : Parsed(n)
  BY <1>1, <1>2 DEF IInv
<1>5. Rest # <<>> /\ c.serverVersion = tws.version
  BY <1>1, <1>4 DEF Complete, Parsed
<1>6. n + 1 < tws.sent /\ n < Len(tws.script) /\ Follows(Rest, tws.version, tws.script, n)
  BY <1>0, <1>1, <1>3, <1>4, <1>5, SentNext
<1>7. /\ n \in 0 .. Len(tws.script) - 1 /\ n + 1 \in 1 .. Len(tws.script) /\ (n + 1) - 1 = n
      /\ n + 1 \in 0 .. Len(tws.script) /\ n + 1 \in 1 .. tws.sent - 1
      /\ Whole(tws.script, tws.version) /\ tws.script \in Seq(Seq(Int))
  <2>1. n \in Nat /\ Len(tws.script) \in Nat /\ tws.sent \in Nat
    BY <1>0, TwsSame
  <2>2. Whole(tws.script, tws.version) /\ tws.script \in Seq(Seq(Int))
    BY <1>0 DEF Types, Whole
  <2> QED BY <1>6, <2>1, <2>2
<1>8. PICK m, size : m = tws.script[n + 1] /\ size = Len(m)
  OBVIOUS
<1>9. MsgSize(Rest, c.serverVersion) = size /\ Calls(Rest) = Calls(m) /\ size <= Len(Rest)
  BY <1>1, <1>5, <1>6, <1>7, <1>8, NextMessage
<1>10. IsTick(m) => bbo # NoBBO
  <2> SUFFICES ASSUME IsTick(m) PROVE pc = "loop"
    BY <1>3 DEF Asked
  <2>0. pc \in {"ack", "loop"}
    BY <1>0, <1>1 DEF Types
  <2>1. Len(tws.got) = 4 /\ Len(tws.got) <= Stage
    BY <1>3, <1>7, <1>8 DEF Asked
  <2>2. Stage # 2
    BY <2>1
  <2> QED BY <1>1, <2>0, <2>2 DEF Stage
<1> QED BY <1>2, <1>3, <1>4, <1>5, <1>6, <1>7, <1>8, <1>9, <1>10

LEMMA ProcessMsgSteps == ASSUME IInv, ProcessMsg PROVE IInv'
<1>0. Types /\ Client
  BY DEF IInv
<1>1. /\ ptr # Idle /\ c.in # <<>> /\ c.connected /\ UNCHANGED pc
  BY DEF ProcessMsg
<1>2. c.fd /\ Live
  BY TakesNext
<1>3. Wired /\ Asked /\ Rest # <<>>
  BY TakesNext
<1>4. PICK n \in 0 .. Len(tws.script) - 1 :
        /\ Parsed(n) /\ n + 1 < tws.sent
        /\ LET m == tws.script[n + 1]
           IN  /\ IsTick(m) => bbo # NoBBO
               /\ Calls(Rest) = Calls(m) /\ MsgSize(Rest, c.serverVersion) = Len(m)
               /\ Len(m) <= Len(Rest)
  BY TakesNext
<1>5. c.serverVersion = tws.version /\ Quoted(n) /\ calls = CallsOf(tws.script, n)
  BY <1>4 DEF Parsed
<1>6. n + 1 < tws.sent
  BY <1>4
<1>7. /\ n \in 0 .. Len(tws.script) - 1 /\ n + 1 \in 1 .. Len(tws.script) /\ (n + 1) - 1 = n
      /\ n + 1 \in 0 .. Len(tws.script) /\ n + 1 \in 1 .. tws.sent - 1
      /\ Whole(tws.script, tws.version) /\ tws.script \in Seq(Seq(Int))
  <2>1. n \in Nat /\ Len(tws.script) \in Nat /\ tws.sent \in Nat
    BY <1>0, TwsSame
  <2>2. Whole(tws.script, tws.version) /\ tws.script \in Seq(Seq(Int))
    BY <1>0 DEF Types, Whole
  <2> QED BY <1>4, <2>1, <2>2
<1>8. PICK m, size : m = tws.script[n + 1] /\ size = Len(m)
  OBVIOUS
<1>9. /\ MsgSize(Rest, c.serverVersion) = size /\ Calls(Rest) = Calls(m) /\ size <= Len(Rest)
      /\ IsTick(m) => bbo # NoBBO
  BY <1>4, <1>8
<1>10. size \in Nat
  BY <1>7, <1>8 DEF Whole
<1>11. /\ ptr \in Nat /\ Len(c.in) \in Nat /\ Len(Rest) = Len(c.in) - ptr /\ tws.read \in Nat
  BY <1>0, <1>1, <1>3, RestIs
<1>12. /\ ptr' = ptr + size /\ calls' = calls \o Calls(m)
       /\ bbo' = AfterTicks(Calls(m))[Len(Calls(m))]
       /\ published' = published \o Broadcasts(Calls(m))
       /\ IF EndsConnection(Calls(m)) THEN c' = NewClient /\ tws' = HungUp(tws)
                                      ELSE UNCHANGED <<c, tws>>
  BY <1>9 DEF ProcessMsg, Disconnected
<1>13. ptr' \in Nat /\ ptr' # Idle /\ ptr' <= Len(c.in)
  BY <1>9, <1>10, <1>11, <1>12 DEF Idle
<1>14. pc \in {"ack", "loop"}
  BY <1>0, <1>1 DEF Types
<1>15. /\ bbo' \in [Quotes -> Int] \cup {NoBBO} /\ (bbo # NoBBO <=> bbo' # NoBBO)
       /\ published' \in Seq([PublishedQuotes -> Int])
       /\ published' # <<>> => bbo' # NoBBO /\ Last(published') = ZmqPublishTick(bbo')
       /\ bbo' # NoBBO => Reflects(bbo', n + 1)
       /\ (\E q \in PublishedQuotes, i \in 1 .. n + 1 : Says(tws.script[i], q)) => published' # <<>>
  BY <1>0, <1>3, <1>5, <1>7, <1>8, <1>12, <1>9, QuotedNext
<1>16. CASE EndsConnection(Calls(m))
  <2>1. c' = NewClient /\ tws' = HungUp(tws)
    BY <1>12, <1>16
  <2> QED BY <1>1, <1>13, <1>14, <1>15, <2>1, DisconnectedSteps, NewClientIs DEF ClientType
<1>17. CASE ~EndsConnection(Calls(m))
  <2>1. UNCHANGED <<c, tws>>
    BY <1>12, <1>17
  <2>2. Quoted(n + 1)'
    BY <1>15, <2>1 DEF Quoted, Reflects
  <2>3. Types'
    BY <1>0, <1>1, <1>13, <1>14, <1>15, <2>1 DEF Types
  <2>4. Client'
    BY <1>0, <1>1, <2>1 DEF Client
  <2>5. Wired'
    BY <1>3, <1>13, <2>1 DEF Wired, SentEnd
  <2>6. Asked'
    BY <1>1, <1>3, <1>15, <2>1 DEF Asked, Stage
  <2>7. Parsed(n + 1)'
    <3>1. calls' = CallsOf(tws.script, n + 1)
      BY <1>5, <1>7, <1>8, <1>12, CallsOfNext
    <3>2. tws.read - Len(c.in) + ptr' = EndsAt(tws.script, n + 1)
      <4>1. EndsAt(tws.script, n + 1) = EndsAt(tws.script, n) + size
        BY <1>7, <1>8, Ends
      <4>2. tws.read - Len(c.in) + ptr = EndsAt(tws.script, n)
        BY <1>1, <1>4 DEF Parsed
      <4>3. tws.read - Len(c.in) + (ptr + size) = tws.read - Len(c.in) + ptr + size
        BY <1>10, <1>11
      <4> QED BY <1>12, <4>1, <4>2, <4>3
    <3> QED BY <1>5, <1>6, <1>13, <2>1, <2>2, <3>1, <3>2 DEF Parsed
  <2> QED BY <1>1, <1>2, <1>7, <2>1, <2>3, <2>4, <2>5, <2>6, <2>7 DEF IInv
<1> QED BY <1>16, <1>17

\* A request of main's, whatever became of the connection since.
LEMMA RequestSteps ==
  ASSUME IInv, NEW r \in Requests, Request(r), UNCHANGED <<ptr, calls, published>>,
         \/ pc = "time" /\ pc' = "subscribe" /\ bbo' = bbo
         \/ pc = "subscribe" /\ pc' = "loop" /\ bbo' = [q \in Quotes |-> Uninitialized]
  PROVE  IInv'
<1>0. Types /\ Client
  BY DEF IInv
<1>1. /\ ptr = Idle /\ ptr' = Idle /\ pc \in {"time", "subscribe"} /\ pc' \in {"subscribe", "loop"}
      /\ bbo' \in [Quotes -> Int] \cup {NoBBO}
  BY <1>0 DEF Types, Uninitialized
<1>2. CASE ~c.connected
  <2>1. UNCHANGED <<c, tws>>
    BY <1>2 DEF Request
  <2>2. Types'
    BY <1>0, <1>1, <2>1 DEF Types
  <2>3. Client'
    BY <1>0, <1>1, <1>2, <2>1 DEF Client
  <2> QED BY <1>1, <1>2, <2>1, <2>2, <2>3, NotLive
<1>3. CASE c.connected /\ (~c.fd \/ tws.conn = "reset")
  <2>1. c' = BufferedSend(c, tws, r).c /\ tws' = BufferedSend(c, tws, r).tws
    BY <1>3 DEF Request
  <2>2. c' \in ClientType /\ c'.fd = FALSE /\ c'.connected = FALSE /\ c'.in = <<>> /\ tws' = HungUp(tws)
    BY <1>3, <2>1, NotSent
  <2> QED BY <1>1, <2>2, DisconnectedSteps
<1>4. CASE c.connected /\ c.fd /\ tws.conn # "reset"
  <2>1. c.out = <<>> /\ c \in ClientType
    BY <1>0, <1>4, ClientSame DEF Client
  <2>2. c' = BufferedSend(c, tws, r).c /\ tws' = BufferedSend(c, tws, r).tws
    BY <1>4 DEF Request
  <2>3. /\ c' \in ClientType /\ c'.fd = c.fd /\ c'.connected = c.connected
        /\ c'.serverVersion = c.serverVersion /\ c'.in = c.in /\ c'.out = <<>>
        /\ tws' \in TwsType /\ tws'.conn = tws.conn /\ tws'.wire = tws.wire
        /\ tws'.script = tws.script /\ tws'.version = tws.version
        /\ tws'.sent = tws.sent /\ tws'.read = tws.read
        /\ Len(tws.got) \in Nat /\ Len(tws'.got) <= Len(tws.got) + 1
    BY <1>0, <1>4, <2>1, <2>2, Sent
  <2>4. Live /\ Wired /\ Asked
    BY <1>4 DEF Live, IInv
  <2>5. PICK n \in 0 .. Len(tws.script) : Parsed(n)
    BY <1>4, <2>4 DEF IInv
  <2>6. Types'
    <3>1. Whole(tws'.script, tws'.version) /\ tws'.sent <= Len(tws'.script) + 1
      BY <1>0, <2>3 DEF Types
    <3> QED BY <1>1, <2>3, <3>1 DEF Types, ClientType, TwsType
  <2>7. Client'
    BY <1>1, <1>4, <2>3 DEF Client
  <2>8. Wired'
    <3>1. SentEnd' = SentEnd
      BY <2>3 DEF SentEnd
    <3> QED BY <1>1, <2>3, <2>4, <3>1 DEF Wired
  <2>9. Len(tws.got) <= Stage /\ Stage \in {2, 3} /\ Stage' = Stage + 1
    BY <1>1, <1>4, <2>3, <2>4 DEF Asked, Stage
  <2>10. Len(tws'.got) <= Stage' /\ Len(tws.got) # 4
    <3>1. PICK a, b : a = Len(tws.got) /\ b = Len(tws'.got)
      OBVIOUS
    <3>2. b \in Nat
      <4>1. tws'.got \in Seq(Requests)
        BY <2>3 DEF TwsType
      <4> QED BY <3>1, <4>1
    <3>3. a \in Nat /\ b <= a + 1 /\ a <= Stage
      BY <2>3, <2>9, <3>1
    <3>4. b <= Stage' /\ a # 4
      BY <2>9, <3>2, <3>3
    <3> QED BY <3>1, <3>4
  <2>11. Asked'
    <3>1. \A i \in 1 .. tws.sent - 1 : ~IsTick(tws.script[i])
      BY <2>4, <2>10 DEF Asked
    <3>2. published' \in Seq([PublishedQuotes -> Int]) /\ published' = <<>>
      <4>1. pc # "loop"
        BY <1>1
      <4> QED BY <2>4, <4>1 DEF Asked
    <3>3. pc' = "loop" <=> bbo' # NoBBO
      <4>1. CASE pc' = "loop"
        <5>1. bbo' \in [Quotes -> Int]
          BY <1>1, <4>1 DEF Uninitialized
        <5> QED BY <4>1, <5>1, NoBBOIs
      <4>2. CASE pc' = "subscribe"
        <5>1. bbo' = bbo /\ pc = "time"
          BY <4>2
        <5> QED BY <2>4, <4>2, <5>1 DEF Asked
      <4> QED BY <1>1, <4>1, <4>2
    <3> QED BY <2>3, <2>10, <3>1, <3>2, <3>3 DEF Asked
  <2>12. Parsed(n)'
    <3>1. Quoted(n)'
      <4>1. CASE bbo' = bbo
        BY <2>3, <2>5, <4>1 DEF Parsed, Quoted, Reflects
      <4>2. CASE bbo' = [q \in Quotes |-> Uninitialized]
        <5>1. \A i \in 1 .. n : i \in 1 .. tws.sent - 1
          <6>1. n \in Nat /\ tws.sent \in Nat /\ tws.sent > n
            BY <1>0, <2>5, TwsSame DEF Parsed
          <6> QED BY <6>1
        <5>2. \A i \in 1 .. n : ~IsTick(tws.script[i])
          BY <2>4, <2>10, <5>1 DEF Asked
        <5>3. \A q : \A i \in 1 .. n : ~Says(tws'.script[i], q)
          BY <2>3, <5>2 DEF Says
        <5>4. \A q \in PublishedQuotes : bbo'[q] = Uninitialized
          BY <4>2, QuotesAre
        <5> QED BY <2>3, <5>3, <5>4 DEF Quoted, Reflects
      <4> QED BY <1>1, <4>1, <4>2
    <3> QED BY <2>3, <2>5, <3>1 DEF Parsed
  <2> QED BY <1>4, <2>3, <2>5, <2>6, <2>7, <2>8, <2>11, <2>12 DEF IInv
<1> QED BY <1>2, <1>3, <1>4

LEMMA ReqCurrentTimeSteps == ASSUME IInv, ReqCurrentTime PROVE IInv'
<1>1. "REQ_CURRENT_TIME" \in Requests
  BY DEF Requests
<1> QED BY <1>1, RequestSteps DEF ReqCurrentTime

LEMMA SubscribeSteps == ASSUME IInv, Subscribe PROVE IInv'
<1>1. "REQ_MKT_DATA" \in Requests
  BY DEF Requests
<1> QED BY <1>1, RequestSteps DEF Subscribe

LEMMA StutterSteps == ASSUME IInv, UNCHANGED vars PROVE IInv'
<1>0. Types /\ Client
  BY DEF IInv
<1> USE DEF vars
<1>1. Types'
  BY <1>0 DEF Types
<1>2. Client'
  BY <1>0 DEF Client
<1>3. Live' => Live
  BY DEF Live
<1>4. Live' => Asked'
  BY <1>3 DEF IInv, Asked, Stage, Live
<1>5. \A n : Parsed(n) => Quoted(n)'
  BY DEF Parsed, Quoted, Reflects
<1> QED BY <1>1, <1>2, <1>3, <1>4, <1>5, Stays

LEMMA NextIInv == IInv /\ [Next]_vars => IInv'
<1> SUFFICES ASSUME IInv, [Next]_vars PROVE IInv'
  OBVIOUS
<1>1. CASE Main
  BY <1>1, EConnectSteps, EConnectFailsSteps, EConnectReturnsSteps, ReadSteps, ReadsNothingSteps,
     ProcessConnectAckSteps, ProcessMsgSteps, FinishCheckSteps, ConnectedSteps,
     ReqCurrentTimeSteps, SubscribeSteps, LoopOverSteps, NextAttemptSteps DEF Main
<1>2. CASE Tws
  BY <1>2, TwsAcksSteps, TwsSendsSteps, TwsOtherSteps DEF Tws
<1>3. CASE UNCHANGED vars
  BY <1>3, StutterSteps
<1> QED BY <1>1, <1>2, <1>3 DEF Next

-----------------------------------------------------------------------------
(* Every broadcast, also those of a connection that has ended.             *)

\* TWS says what its script has, whatever becomes of the connection.
LEMMA SameScript ==
  ASSUME NEW t, "script" \in DOMAIN t
  PROVE  /\ "script" \in DOMAIN HungUp(t) /\ HungUp(t).script = t.script
         /\ \A more : Gets(t, more).script = t.script
         /\ \A client, r : BufferedSend(client, t, r).tws.script = t.script
<1>1. "script" \in DOMAIN HungUp(t) /\ HungUp(t).script = t.script
  BY DEF HungUp
<1>2. \A more : Gets(t, more).script = t.script
  BY DEF Gets
<1>3. ASSUME NEW client, NEW r
      PROVE  BufferedSend(client, t, r).tws.script = t.script
  <2>1. CASE client.fd /\ t.conn # "reset"
    <3>1. BufferedSend(client, t, r).tws = Gets(t, Append(client.out, r))
      BY <2>1 DEF BufferedSend
    <3> QED BY <1>2, <3>1
  <2>2. CASE ~(client.fd /\ t.conn # "reset")
    <3>1. BufferedSend(client, t, r).tws = HungUp(t)
      BY <2>2 DEF BufferedSend
    <3> QED BY <1>1, <3>1
  <2> QED BY <2>1, <2>2
<1> QED BY <1>1, <1>2, <1>3

LEMMA ScriptStays ==
  ASSUME Types, Next
  PROVE  tws'.script = tws.script
<1>1. "script" \in DOMAIN tws
  BY DEF Types
<1>2. tws' = HungUp(tws) => tws'.script = tws.script
  BY <1>1, SameScript
<1>3. \A client, r : tws' = BufferedSend(client, tws, r).tws => tws'.script = tws.script
  BY <1>1, SameScript
<1>4. CASE Tws
  BY <1>1, <1>4 DEF Tws, TwsAcks, TwsSends, TwsCloses, TwsResets, TwsStarts
<1>5. CASE EConnect
  <2>1. PICK open : open = [HungUp(tws) EXCEPT !.conn = "open"]
    OBVIOUS
  <2>2. "script" \in DOMAIN open /\ open.script = tws.script
    BY <1>1, <2>1, SameScript
  <2>3. tws' = BufferedSend([NewClient EXCEPT !.fd = TRUE], open, "CLIENT_VERSION").tws
    BY <1>5, <2>1 DEF EConnect
  <2> QED BY <2>2, <2>3, SameScript
<1>6. CASE EConnectFails \/ EConnectReturns \/ FinishCheck \/ Connected \/ LoopOver \/ NextAttempt
  BY <1>6 DEF EConnectFails, EConnectReturns, FinishCheck, Connected, LoopOver, NextAttempt
<1>7. CASE Read
  BY <1>1, <1>7 DEF Read
<1>8. CASE ReadsNothing
  BY <1>2, <1>8 DEF ReadsNothing
<1>9. CASE ProcessConnectAck
  BY <1>2, <1>3, <1>9 DEF ProcessConnectAck
<1>10. CASE ProcessMsg
  BY <1>2, <1>10 DEF ProcessMsg
<1>11. CASE ReqCurrentTime
  BY <1>3, <1>11 DEF ReqCurrentTime, Request
<1>12. CASE Subscribe
  BY <1>3, <1>12 DEF Subscribe, Request
<1> QED BY <1>4, <1>5, <1>6, <1>7, <1>8, <1>9, <1>10, <1>11, <1>12 DEF Next, Main

\* A sequence of which of any two in a row one is good, and the last, stays
\* so with one or two more of which the last is.
LEMMA OneOfTwo ==
  ASSUME NEW S, NEW u \in Seq(S), NEW w \in Seq(S), Len(w) \in 0 .. 2, NEW good,
         \A k \in 1 .. Len(u) : u[k] \in good \/ (k < Len(u) /\ u[k + 1] \in good),
         w # <<>> => w[Len(w)] \in good
  PROVE  \A k \in 1 .. Len(u \o w) :
            (u \o w)[k] \in good \/ (k < Len(u \o w) /\ (u \o w)[k + 1] \in good)
<1>1. PICK x : x = u \o w
  OBVIOUS
<1>2. /\ Len(u) \in Nat /\ Len(w) \in {0, 1, 2} /\ Len(x) = Len(u) + Len(w)
      /\ \A k \in 1 .. Len(u) : x[k] = u[k]
      /\ \A k \in 1 .. Len(w) : x[Len(u) + k] = w[k]
  BY <1>1
<1> SUFFICES ASSUME NEW k \in 1 .. Len(x) PROVE x[k] \in good \/ (k < Len(x) /\ x[k + 1] \in good)
  BY <1>1
<1>3. CASE k \in 1 .. Len(u)
  <2>1. x[k] = u[k] /\ (k < Len(u) => k + 1 \in 1 .. Len(u) /\ k < Len(x))
    BY <1>2, <1>3
  <2> QED BY <1>2, <1>3, <2>1
<1>4. CASE k = Len(x) /\ k \notin 1 .. Len(u)
  <2>1. Len(w) \in {1, 2} /\ Len(w) \in 1 .. Len(w) /\ k = Len(u) + Len(w) /\ w # <<>>
    BY <1>2, <1>4
  <2> QED BY <1>2, <2>1
<1>5. CASE k # Len(x) /\ k \notin 1 .. Len(u)
  <2>1. Len(w) = 2 /\ k = Len(u) + 1 /\ k < Len(x) /\ k + 1 = Len(u) + Len(w) /\ w # <<>>
        /\ Len(w) \in 1 .. Len(w)
    BY <1>2, <1>5
  <2> QED BY <1>2, <2>1
<1> QED BY <1>3, <1>4, <1>5

LEMMA MendedStays ==
  ASSUME MixedIsMended, tws'.script = tws.script, UNCHANGED published
  PROVE  MixedIsMended'
<1>1. ASSUME NEW b, NEW n, Reflects(b, n)
      PROVE  \A q \in PublishedQuotes :
                \/ b[q] = Uninitialized /\ \A i \in 1 .. n : ~Says(tws'.script[i], q)
                \/ \E i \in 1 .. n :
                      /\ Says(tws'.script[i], q) /\ b[q] = Said(tws'.script[i], q)
                      /\ \A j \in i + 1 .. n : ~Says(tws'.script[j], q)
  <2> TAKE q \in PublishedQuotes
  <2>1. CASE b[q] = Uninitialized /\ \A i \in 1 .. n : ~Says(tws.script[i], q)
    BY <2>1
  <2>2. CASE \E i \in 1 .. n :
                /\ Says(tws.script[i], q) /\ b[q] = Said(tws.script[i], q)
                /\ \A j \in i + 1 .. n : ~Says(tws.script[j], q)
    <3>1. PICK i \in 1 .. n :
                /\ Says(tws.script[i], q) /\ b[q] = Said(tws.script[i], q)
                /\ \A j \in i + 1 .. n : ~Says(tws.script[j], q)
      BY <2>2
    <3> QED BY <3>1
  <2> QED BY <1>1, <2>1, <2>2 DEF Reflects
<1>2. ASSUME NEW k \in DOMAIN published'
      PROVE  \/ \E i \in 0 .. Len(tws'.script) : Reflects(published[k], i)'
             \/ /\ k < Len(published')
                /\ \E i \in 0 .. Len(tws'.script) : Reflects(published[k + 1], i)'
  <2>1. CASE \E i \in 0 .. Len(tws.script) : Reflects(published[k], i)
    <3>1. PICK i \in 0 .. Len(tws.script) : Reflects(published[k], i)
      BY <2>1
    <3>2. Reflects(published[k], i)'
      BY <1>1, <3>1 DEF Reflects
    <3> QED BY <3>2
  <2>2. CASE k < Len(published) /\ \E i \in 0 .. Len(tws.script) : Reflects(published[k + 1], i)
    <3>1. PICK i \in 0 .. Len(tws.script) : Reflects(published[k + 1], i)
      BY <2>2
    <3>2. Reflects(published[k + 1], i)'
      BY <1>1, <3>1 DEF Reflects
    <3> QED BY <2>2, <3>2
  <2> QED BY <2>1, <2>2 DEF MixedIsMended
<1> QED BY <1>2 DEF MixedIsMended

LEMMA ProcessMsgMends ==
  ASSUME IInv, MixedIsMended, ProcessMsg
  PROVE  MixedIsMended'
<1>0. Types /\ Asked
  BY TakesNext DEF IInv
<1>1. PICK n \in 0 .. Len(tws.script) - 1 :
        /\ Parsed(n)
        /\ LET m == tws.script[n + 1]
           IN  (IsTick(m) => bbo # NoBBO) /\ Calls(Rest) = Calls(m)
  BY TakesNext
<1>2. PICK m, bs : m = tws.script[n + 1] /\ bs = Broadcasts(Calls(m))
  OBVIOUS
<1>3. bbo' = AfterTicks(Calls(m))[Len(Calls(m))] /\ published' = published \o bs
  BY <1>1, <1>2 DEF ProcessMsg
<1>4. /\ bs \in Seq([PublishedQuotes -> Int]) /\ Len(bs) \in 0 .. 2
      /\ published' # <<>> => bbo' # NoBBO /\ Last(published') = ZmqPublishTick(bbo')
      /\ bbo' # NoBBO => Reflects(bbo', n + 1)
  <2>1. Quoted(n)
    BY <1>1 DEF Parsed
  <2> QED BY <1>0, <1>1, <1>2, <1>3, <2>1, QuotedNext
<1>5. published \in Seq([PublishedQuotes -> Int])
  BY <1>0 DEF Asked
<1>6. PICK good : good = {b \in [PublishedQuotes -> Int] :
                            \E k \in 0 .. Len(tws.script) : Reflects(b, k)}
  OBVIOUS
<1>7. \A k \in 1 .. Len(published) :
         published[k] \in good \/ (k < Len(published) /\ published[k + 1] \in good)
  <2>1. \A k \in 1 .. Len(published) :
           /\ published[k] \in [PublishedQuotes -> Int]
           /\ k < Len(published) => published[k + 1] \in [PublishedQuotes -> Int]
    BY <1>5
  <2>2. DOMAIN published = 1 .. Len(published)
    BY <1>5
  <2> QED BY <1>6, <2>1, <2>2 DEF MixedIsMended
<1>8. ASSUME bs # <<>> PROVE bs[Len(bs)] \in good
  <2>1. published' # <<>> /\ Last(published') = bs[Len(bs)]
    BY <1>3, <1>4, <1>5, <1>8, LastLemma
  <2>2. bs[Len(bs)] = ZmqPublishTick(bbo') /\ Reflects(ZmqPublishTick(bbo'), n + 1)
    BY <1>4, <2>1, ToldReflects
  <2>3. n + 1 \in 0 .. Len(tws.script)
    BY <1>0, TwsSame
  <2>4. bs[Len(bs)] \in [PublishedQuotes -> Int]
    BY <1>4, <1>8
  <2> QED BY <1>6, <2>2, <2>3, <2>4
<1>9. \A k \in 1 .. Len(published') :
         published'[k] \in good \/ (k < Len(published') /\ published'[k + 1] \in good)
  BY <1>3, <1>4, <1>5, <1>7, <1>8, OneOfTwo
<1>10. DOMAIN published' = 1 .. Len(published')
  BY <1>3, <1>4, <1>5
<1>11. tws'.script = tws.script
  <2>1. Next
    BY DEF Next, Main
  <2> QED BY <1>0, <2>1, ScriptStays
<1>12. ASSUME NEW b \in good
       PROVE  \E k \in 0 .. Len(tws'.script) :
                \A q \in PublishedQuotes :
                   \/ b[q] = Uninitialized /\ \A i \in 1 .. k : ~Says(tws'.script[i], q)
                   \/ \E i \in 1 .. k :
                         /\ Says(tws'.script[i], q) /\ b[q] = Said(tws'.script[i], q)
                         /\ \A j \in i + 1 .. k : ~Says(tws'.script[j], q)
  <2>1. PICK k \in 0 .. Len(tws.script) : Reflects(b, k)
    BY <1>6, <1>12
  <2> QED BY <1>11, <2>1 DEF Reflects
<1>13. ASSUME NEW k \in DOMAIN published'
       PROVE  \/ \E i \in 0 .. Len(tws'.script) : Reflects(published[k], i)'
              \/ /\ k < Len(published')
                 /\ \E i \in 0 .. Len(tws'.script) : Reflects(published[k + 1], i)'
  <2>1. k \in 1 .. Len(published')
    BY <1>10
  <2>2. CASE published'[k] \in good
    <3>1. \E i \in 0 .. Len(tws'.script) : Reflects(published[k], i)'
      BY <1>12, <2>2 DEF Reflects
    <3> QED BY <3>1
  <2>3. CASE k < Len(published') /\ published'[k + 1] \in good
    <3>1. \E i \in 0 .. Len(tws'.script) : Reflects(published[k + 1], i)'
      BY <1>12, <2>3 DEF Reflects
    <3> QED BY <2>3, <3>1
  <2> QED BY <1>9, <2>1, <2>2, <2>3
<1> QED BY <1>13 DEF MixedIsMended

LEMMA NextMends == IInv /\ MixedIsMended /\ [Next]_vars => MixedIsMended'
<1> SUFFICES ASSUME IInv, MixedIsMended, [Next]_vars PROVE MixedIsMended'
  OBVIOUS
<1>1. Next => tws'.script = tws.script
  BY ScriptStays DEF IInv
<1>2. CASE EConnect \/ EConnectFails
  <2>1. published' = <<>>
    BY <1>2 DEF EConnect, EConnectFails
  <2> QED BY <2>1 DEF MixedIsMended
<1>3. CASE ProcessMsg
  BY <1>3, ProcessMsgMends
<1>4. CASE \/ EConnectReturns \/ Read \/ ReadsNothing \/ ProcessConnectAck \/ FinishCheck
           \/ Connected \/ ReqCurrentTime \/ Subscribe \/ LoopOver \/ NextAttempt
  <2>1. Next
    BY <1>4 DEF Next, Main
  <2>2. UNCHANGED published
    BY <1>4 DEF EConnectReturns, Read, ReadsNothing, ProcessConnectAck, FinishCheck, Connected,
                ReqCurrentTime, Subscribe, LoopOver, NextAttempt
  <2> QED BY <1>1, <2>1, <2>2, MendedStays
<1>5. CASE Tws
  <2>1. Next /\ UNCHANGED published
    BY <1>5 DEF Next, Tws
  <2> QED BY <1>1, <2>1, MendedStays
<1>6. CASE UNCHANGED vars
  BY <1>6, MendedStays DEF vars
<1> QED BY <1>2, <1>3, <1>4, <1>5, <1>6 DEF Next, Main

-----------------------------------------------------------------------------
(* The invariant of the client, its connection and its quotes, of every    *)
(* script TWS can send, every way to cut it into reads, and every break of *)
(* the connection.                                                         *)
THEOREM Invariant == Spec => []IInv
<1> QED BY InitIInv, NextIInv, PTL DEF Spec

(* checkMessages calls the EWrapper for exactly the messages that have     *)
(* arrived whole, once each and in order, however the stream of TWS is cut *)
(* into reads and whichever of its versions TWS has.                       *)
THEOREM Delivered == Spec => []DeliveredInOrder
<1>1. IInv => DeliveredInOrder
  BY IInvDelivers
<1> QED BY <1>1, Invariant, PTL

(* The best bid and offer broadcast last has, for every quote of the       *)
(* broadcast, the value of the last tick read for it, whichever kind of    *)
(* message told it; and there is a broadcast once a tick told any of them. *)
THEOREM Published == Spec => []PublishedIsCurrent
<1>1. IInv => PublishedIsCurrent
  BY IInvPublishes
<1> QED BY <1>1, Invariant, PTL


(* A broadcast that mixes a price of one message with a size of another is *)
(* followed at once by one that does not: also in a connection that ended. *)
THEOREM Mended == Spec => []MixedIsMended
<1>1. Init => MixedIsMended
  BY DEF Init, MixedIsMended
<1> QED BY <1>1, NextMends, Invariant, PTL DEF Spec
=============================================================================
