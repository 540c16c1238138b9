----------------------------- MODULE LiveOrders -----------------------------
(***************************************************************************)
(* What an order book promises its reader, without limits, trees or        *)
(* running totals: the orders that are live, and a top of book on each     *)
(* side that is at every moment the one those orders make.                 *)
(***************************************************************************)
EXTENDS Integers, FiniteSetsExt, PartialFunctions

CONSTANTS OrderId, Price, Size, VolMod, NO_BID, NO_ASK

VARIABLES live,   \* order id -> its side, price and size
          top     \* side -> the best price and the volume there

Sides == {"BID", "ASK"}

OrdersOn(orders, s) == {id \in DOMAIN orders : orders[id].side = s}

PricesOn(orders, s) == {orders[id].price : id \in OrdersOn(orders, s)}

VolumeAt(orders, s, p) ==
  SumFunctionOnSet([id \in DOMAIN orders |-> orders[id].size],
                   {id \in OrdersOn(orders, s) : orders[id].price = p}) % VolMod

BestOf(orders, s) ==
  LET prices == PricesOn(orders, s)
  IN  IF s = "BID" THEN IF prices = {} THEN NO_BID ELSE Max(prices)
                   ELSE IF prices = {} THEN NO_ASK ELSE Min(prices)

TopOf(orders) ==
  [s \in Sides |-> [price  |-> BestOf(orders, s),
                    volume |-> VolumeAt(orders, s, BestOf(orders, s))]]

LiveInit ==
  /\ live = EmptyFcn
  /\ top = TopOf(live)

Enter(id, s, size, p) ==
  /\ id \notin DOMAIN live
  /\ live' = Put(live, id, [side |-> s, price |-> p, size |-> size])

Leave(id) ==
  /\ id \in DOMAIN live
  /\ live' = Drop(live, id)

Resize(id, size) ==
  /\ id \in DOMAIN live
  /\ live' = [live EXCEPT ![id].size = size]

Snapshot == live' = EmptyFcn

LiveNext ==
  /\ \/ \E id \in OrderId, s \in Sides, size \in Size, p \in Price : Enter(id, s, size, p)
     \/ \E id \in OrderId : Leave(id)
     \/ \E id \in OrderId, size \in Size : Resize(id, size)
     \/ Snapshot
  /\ top' = TopOf(live')

LiveSpec == LiveInit /\ [][LiveNext]_<<live, top>>
=============================================================================
