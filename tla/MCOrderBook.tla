---------------------------- MODULE MCOrderBook ----------------------------
(***************************************************************************)
(* OrderBook for TLC: two ids (three where the caller is disciplined)  *)
(* at two prices on each side.  VolMod is small so that the volume of a    *)
(* limit wraps.                                                            *)
(***************************************************************************)
EXTENDS OrderBook, TLC

CONSTANTS o1, o2, o3

MCOrderId == {o1, o2}
MCOrderId3 == {o1, o2, o3}
MCPrice == {1, 2}
MCSize == {1, 3}
MCVolMod == 4
MCNoBid == -10
MCNoAsk == 10

MCSymmetry == Permutations(MCOrderId)
=============================================================================
