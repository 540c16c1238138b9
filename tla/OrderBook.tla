------------------------------ MODULE OrderBook ------------------------------
(***************************************************************************)
(* One capk::KBook and a caller.  The caller is a market data collector    *)
(* that turns venue messages into calls: it may add an id the book already *)
(* holds (a venue that repeats an id, or two venue ids with one hash), may *)
(* remove or modify an id the book does not hold, and may clear the book   *)
(* for a snapshot.  BookSpec lets the caller do all of that; SpecUnique is the *)
(* disciplined caller that never adds an id that is still in the index.    *)
(***************************************************************************)
EXTENDS KBook

VARIABLES book,    \* the KBook
          fault    \* what KBook::remove ran into: "none" while it is healthy

bookVars == <<book, fault>>

BookInit ==
  /\ book = EmptyBook
  /\ fault = "none"

AddCall(id, s, size, p) ==
  /\ fault = "none"
  /\ book' = Add(book, id, s, size, p)
  /\ UNCHANGED fault

RemoveCall(id) ==
  /\ fault = "none"
  /\ fault' = RemoveFault(book, id)
  /\ book' = IF fault' = "none" THEN Remove(book, id) ELSE book

ModifyCall(id, size) ==
  /\ fault = "none"
  /\ book' = Modify(book, id, size)
  /\ UNCHANGED fault

ClearCall ==
  /\ fault = "none"
  /\ book' = Clear(book)
  /\ UNCHANGED fault

BookNext ==
  \/ \E id \in OrderId, s \in SideArg, size \in Size, p \in Price : AddCall(id, s, size, p)
  \/ \E id \in OrderId : RemoveCall(id)
  \/ \E id \in OrderId, size \in Size : ModifyCall(id, size)
  \/ ClearCall

NextUnique ==
  \/ \E id \in OrderId \ DOMAIN book.map, s \in SideArg, size \in Size, p \in Price :
        AddCall(id, s, size, p)
  \/ \E id \in OrderId : RemoveCall(id)
  \/ \E id \in OrderId, size \in Size : ModifyCall(id, size)
  \/ ClearCall

BookSpec == BookInit /\ [][BookNext]_bookVars

SpecUnique == BookInit /\ [][NextUnique]_bookVars

-----------------------------------------------------------------------------
(* Properties *)

\* The type of the book: an index of orders and two trees of limits.
BookTypeOK ==
  /\ IsBook(book)
  /\ fault \in {"none", "assert", "end_dereferenced"}

\* Every order of the index is queued at the limit its own side and price
\* name, however often its id was added, moved or removed before: this is
\* what remove and modify rely on when they go from the index to the limit.
IndexConsistent == Indexed(book)

\* No empty limit stays in a tree, so bestPrice never quotes a price nobody
\* is at: remove erases the limit with its last order.
NoEmptyLimit == LimitsNonEmpty(book)

\* The assertions of KBook::remove (removeOk == 1) hold and the ask branch,
\* which compares with the end of the other tree, never dereferences end().
RemoveNeverFaults == fault = "none"

\* The running uint32_t total of a limit is the sum of the sizes queued at
\* it, modulo 2^32: refused duplicates and repeated modifications included.
VolumeIsSum == VolumesAreSums(book)

\* Top of book: the best price is the price of a limit somebody is queued
\* at, and no order of the index is priced better.
BestPriceIsBest ==
  /\ \A s \in Side :
       BestPrice(book, s) \in Price => OrderCountAtLimit(book, s, BestPrice(book, s)) > 0
  /\ \A id \in DOMAIN book.map :
       LET o == book.map[id]
       IN  /\ o.side = "BID" => BestPrice(book, "BID") >= o.price
           /\ o.side = "ASK" => BestPrice(book, "ASK") <= o.price

\* With a caller that never adds an id that is still in the index, index and
\* trees say the same: every queued order is in the index, at that side and
\* price and with that size, so nothing is left behind that no call removes.
BookMirrorsIndex == Mirrors(book)

-----------------------------------------------------------------------------
(* Refinement: with a disciplined caller the book implements LiveOrders.   *)

Abstract == INSTANCE LiveOrders WITH live <- LiveOf(book), top <- TopOfBook(book)

\* Seen through getOrder, bestPrice and bestPriceVolume, a book whose ids are
\* never added twice is the set of its live orders: every add, remove, modify
\* and clear moves the top of book exactly as those orders do, through the
\* creation and erasure of limits and the wrap of the running totals.
ImplementsLiveOrders == Abstract!LiveSpec
=============================================================================
