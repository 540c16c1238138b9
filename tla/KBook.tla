-------------------------------- MODULE KBook --------------------------------
(***************************************************************************)
(* The order book of order_book.v2 (capk::KBook and capk::KLimit) as a     *)
(* value and the operations on it.  A book is                              *)
(*                                                                         *)
(*   map   the index _orderMap: order id -> the KOrder last added under it *)
(*   tree  the two KTrees: side -> price -> the KLimit at that price       *)
(*                                                                         *)
(* and a limit is the orders queued at its price (id -> size) with the     *)
(* running _totalVolume, a uint32_t.  Finite partial functions stand for   *)
(* the std::map, std::set and std::list containers: a key that is not in   *)
(* the domain is what the code sees as end().                              *)
(*                                                                         *)
(* _orderMap and the limit hold shared pointers.  "shared" records whether *)
(* the KOrder the index points to is the very object queued at the limit   *)
(* (it is not when the limit refused the order as a duplicate); only then  *)
(* does a modification through the limit show in the index.                *)
(*                                                                         *)
(* The event and sending times the operations record are left out: nothing *)
(* reads them back.                                                        *)
(***************************************************************************)
EXTENDS Integers, FiniteSets, FiniteSetsExt, PartialFunctions

CONSTANTS OrderId,   \* the uint32_t order ids in use
          Price,     \* the prices in use
          Size,      \* the order sizes in use, already truncated to uint32_t
          VolMod,    \* 2^32 in the code: _totalVolume is a uint32_t
          NO_BID,    \* bestPrice of an empty bid side (INT_MIN)
          NO_ASK     \* bestPrice of an empty ask side (INT_MAX)

ASSUME KBookAssumption ==
  /\ Price \subseteq Int
  /\ VolMod \in Nat \ {0}
  /\ Size \subseteq 0 .. VolMod - 1
  /\ NO_BID \in Int /\ NO_ASK \in Int
  /\ \A p \in Price : NO_BID < p /\ p < NO_ASK

Side == {"BID", "ASK"}

\* What a caller may pass for Side_t.
SideArg == Side \cup {"NO_SIDE"}

Order == [side : Side, price : Price, size : Size, shared : BOOLEAN]

-----------------------------------------------------------------------------
(* KLimit *)

NewLimit == [orders |-> EmptyFcn, volume |-> 0]

\* KLimit::addOrder refuses an id that is already queued here.
LimitAccepts(l, id) == id \notin DOMAIN l.orders

\* Mutant: the running total is wider than the uint32_t it is.
LimitAddUnbounded(l, id, size) ==
  IF LimitAccepts(l, id)
  THEN [orders |-> Put(l.orders, id, size), volume |-> l.volume + size]
  ELSE l

LimitAdd(l, id, size) ==
  IF LimitAccepts(l, id)
  THEN [orders |-> Put(l.orders, id, size), volume |-> (l.volume + size) % VolMod]
  ELSE l

\* Mutant: the new size is added and the old one not taken off.
LimitModifyAddsUp(l, id, size) ==
  IF id \in DOMAIN l.orders
  THEN [orders |-> Put(l.orders, id, size), volume |-> (l.volume + size) % VolMod]
  ELSE l

LimitModify(l, id, size) ==
  IF id \in DOMAIN l.orders
  THEN [orders |-> Put(l.orders, id, size),
        volume |-> (l.volume - l.orders[id] + size) % VolMod]
  ELSE l

\* KLimit::_removeOrder reports success on an empty limit.
LimitRemoveOk(l, id) == DOMAIN l.orders = {} \/ id \in DOMAIN l.orders

\* Mutant: the volume of the removed order stays in the total.
LimitRemoveKeepsVolume(l, id) ==
  IF id \in DOMAIN l.orders THEN [l EXCEPT !.orders = Drop(l.orders, id)] ELSE l

LimitRemove(l, id) ==
  IF id \in DOMAIN l.orders
  THEN [orders |-> Drop(l.orders, id), volume |-> (l.volume - l.orders[id]) % VolMod]
  ELSE l

-----------------------------------------------------------------------------
(* KBook *)

EmptyBook == [map |-> EmptyFcn, tree |-> [s \in Side |-> EmptyFcn]]

HasLimit(b, s, p) == p \in DOMAIN b.tree[s]

SetLimit(tree, s, p, l) == [tree EXCEPT ![s] = Put(@, p, l)]

DropLimit(tree, s, p) == [tree EXCEPT ![s] = Drop(@, p)]

\* KBook::addBid and addAsk: the limit is found or created; the index is
\* overwritten whatever the limit answered.
AddOrder(b, id, s, size, p) ==
  LET l == IF HasLimit(b, s, p) THEN b.tree[s][p] ELSE NewLimit
  IN  [map  |-> Put(b.map, id, [side |-> s, price |-> p, size |-> size,
                                shared |-> LimitAccepts(l, id)]),
       tree |-> SetLimit(b.tree, s, p, LimitAdd(l, id, size))]

\* KBook::add: any other side is dropped.
Add(b, id, s, size, p) == IF s \in Side THEN AddOrder(b, id, s, size, p) ELSE b

\* KBook::remove.  A bid without its limit is left in the index; an ask
\* without its limit passes the comparison with _bidTree.end().
RemoveFault(b, id) ==
  IF id \notin DOMAIN b.map THEN "none"
  ELSE LET o == b.map[id]
       IN  IF HasLimit(b, o.side, o.price)
           THEN IF LimitRemoveOk(b.tree[o.side][o.price], id) THEN "none" ELSE "assert"
           ELSE IF o.side = "ASK" THEN "end_dereferenced" ELSE "none"

RemoveRet(b, id) ==
  IF id \in DOMAIN b.map /\ HasLimit(b, b.map[id].side, b.map[id].price) THEN 1 ELSE 0

\* Mutant: the limit is erased while one order is still queued at it.
RemoveOrderErasesEarly(b, id) ==
  LET o == b.map[id]
      l == LimitRemove(b.tree[o.side][o.price], id)
  IN  [map  |-> Drop(b.map, id),
       tree |-> IF Cardinality(DOMAIN l.orders) <= 1
                THEN DropLimit(b.tree, o.side, o.price)
                ELSE SetLimit(b.tree, o.side, o.price, l)]

\* Mutant: the limit is never erased.
RemoveOrderKeepsLimit(b, id) ==
  LET o == b.map[id]
  IN  [map  |-> Drop(b.map, id),
       tree |-> SetLimit(b.tree, o.side, o.price, LimitRemove(b.tree[o.side][o.price], id))]

RemoveOrder(b, id) ==
  LET o == b.map[id]
      l == LimitRemove(b.tree[o.side][o.price], id)
  IN  [map  |-> Drop(b.map, id),
       tree |-> IF DOMAIN l.orders = {}
                THEN DropLimit(b.tree, o.side, o.price)
                ELSE SetLimit(b.tree, o.side, o.price, l)]

Remove(b, id) == IF RemoveRet(b, id) = 1 THEN RemoveOrder(b, id) ELSE b

\* KBook::modify changes the size only.
ModifyRet(b, id) ==
  IF id \in DOMAIN b.map /\ HasLimit(b, b.map[id].side, b.map[id].price) THEN 1 ELSE 0

\* Mutant: only the order of the index gets the new size.
ModifyOrderIndexOnly(b, id, size) == [b EXCEPT !.map[id].size = size]

ModifyOrder(b, id, size) ==
  LET o == b.map[id]
      l == b.tree[o.side][o.price]
  IN  [map  |-> IF o.shared /\ id \in DOMAIN l.orders
                THEN [b.map EXCEPT ![id].size = size] ELSE b.map,
       tree |-> SetLimit(b.tree, o.side, o.price, LimitModify(l, id, size))]

Modify(b, id, size) == IF ModifyRet(b, id) = 1 THEN ModifyOrder(b, id, size) ELSE b

\* Mutant: the trees are cleared and the index is not.
ClearTrees(b) == [b EXCEPT !.tree = EmptyBook.tree]

Clear(b) == EmptyBook

\* Mutant: the first limit of the tree on both sides.
BestPriceFirst(b, s) ==
  IF DOMAIN b.tree[s] = {} THEN IF s = "BID" THEN NO_BID ELSE NO_ASK
  ELSE Min(DOMAIN b.tree[s])

\* KBook::bestPrice: the last bid limit or the first ask limit of the tree.
BestPrice(b, s) ==
  IF s = "BID"
  THEN IF DOMAIN b.tree[s] = {} THEN NO_BID ELSE Max(DOMAIN b.tree[s])
  ELSE IF DOMAIN b.tree[s] = {} THEN NO_ASK ELSE Min(DOMAIN b.tree[s])

TotalVolumeAtLimit(b, s, p) == IF HasLimit(b, s, p) THEN b.tree[s][p].volume ELSE 0

OrderCountAtLimit(b, s, p) ==
  IF HasLimit(b, s, p) THEN Cardinality(DOMAIN b.tree[s][p].orders) ELSE 0

BestPriceVolume(b, s) == TotalVolumeAtLimit(b, s, BestPrice(b, s))

\* What a book shows: the orders of its index, and the best price and the
\* volume there on each side.
LiveOf(b) ==
  [id \in DOMAIN b.map |->
     [side |-> b.map[id].side, price |-> b.map[id].price, size |-> b.map[id].size]]

\* Mutant: the size of a limit is not looked up, only whether there is one.
TopOfBookNoVolume(b) ==
  [s \in Side |-> [price |-> BestPrice(b, s), volume |-> OrderCountAtLimit(b, s, BestPrice(b, s))]]

TopOfBook(b) ==
  [s \in Side |-> [price |-> BestPrice(b, s), volume |-> BestPriceVolume(b, s)]]

-----------------------------------------------------------------------------
(* Well-formed books: the predicates the properties of the callers are     *)
(* made of.                                                                *)

IsLimit(l) ==
  /\ l = [orders |-> l.orders, volume |-> l.volume]
  /\ l.orders = [id \in DOMAIN l.orders |-> l.orders[id]]
  /\ DOMAIN l.orders \subseteq OrderId
  /\ \A id \in DOMAIN l.orders : l.orders[id] \in Size
  /\ l.volume \in 0 .. VolMod - 1

IsTree(t) ==
  /\ t = [p \in DOMAIN t |-> t[p]]
  /\ DOMAIN t \subseteq Price
  /\ \A p \in DOMAIN t : IsLimit(t[p])

IsIndex(m) ==
  /\ m = [id \in DOMAIN m |-> m[id]]
  /\ DOMAIN m \subseteq OrderId
  /\ \A id \in DOMAIN m : m[id] \in Order

IsBook(b) ==
  /\ b = [map |-> b.map, tree |-> b.tree]
  /\ IsIndex(b.map)
  /\ b.tree = [s \in Side |-> b.tree[s]]
  /\ \A s \in Side : IsTree(b.tree[s])

\* Every order of the index is queued at the limit it names.
Indexed(b) ==
  \A id \in DOMAIN b.map :
    LET o == b.map[id]
    IN  /\ o.price \in DOMAIN b.tree[o.side]
        /\ id \in DOMAIN b.tree[o.side][o.price].orders

LimitsNonEmpty(b) ==
  \A s \in Side : \A p \in DOMAIN b.tree[s] : DOMAIN b.tree[s][p].orders # {}

VolumesAreSums(b) ==
  \A s \in Side : \A p \in DOMAIN b.tree[s] :
    b.tree[s][p].volume = SumFunction(b.tree[s][p].orders) % VolMod

\* Every queued order is the order of the index with its id.
Mirrors(b) ==
  \A s \in Side : \A p \in DOMAIN b.tree[s] :
    \A id \in DOMAIN b.tree[s][p].orders :
      /\ id \in DOMAIN b.map
      /\ b.map[id].side = s /\ b.map[id].price = p
      /\ b.map[id].size = b.tree[s][p].orders[id]
=============================================================================
