--------------------------- MODULE MCMdCollector ---------------------------
(***************************************************************************)
(* MdCollector for TLC: two symbols and one the collector does not know.   *)
(***************************************************************************)
EXTENDS MdCollector, TLC

CONSTANTS x, y, z, o1, o2

MCSymbol == {x, y}
MCOther == {z}
MCOrderId == {o1, o2}
MCPrice == {1, 2}
MCSize == {1, 3}
MCVolMod == 4
MCNoBid == -10
MCNoAsk == 10

Line(action, sym, id, ref, side, price, size) ==
  [action |-> action, sym |-> sym, id |-> id, qid |-> NO_ID, ref |-> ref, side |-> side,
   price |-> price, size |-> size]

Msg(kind, sym, entries) == [kind |-> kind, sym |-> sym, entries |-> entries]

\* An empty snapshot; a snapshot whose second entry has no id; a delete of
\* what may not be there; an entry of a trade; an id taken over by a move; a
\* refresh of two symbols at once; an entry of an unknown symbol; an action
\* of a later FIX version.
MCStray ==
  {Msg("W", x, <<>>),
   Msg("W", x, <<Line("NEW", NO_SYM, o1, NO_ID, "BID", 1, 1),
                 Line("NEW", NO_SYM, NO_ID, NO_ID, "ASK", 2, 1)>>),
   Msg("X", NO_SYM, <<Line("DELETE", x, o1, NO_ID, "BID", 1, 1)>>),
   Msg("X", NO_SYM, <<Line("NEW", x, o1, NO_ID, "NO_SIDE", 1, 1)>>),
   Msg("X", NO_SYM, <<Line("CHANGE", x, o2, o1, "BID", 1, 1),
                      Line("NEW", y, o2, NO_ID, "ASK", 2, 3)>>),
   Msg("X", NO_SYM, <<Line("NEW", z, o1, NO_ID, "BID", 1, 1)>>),
   Msg("X", NO_SYM, <<Line("OTHER", x, NO_ID, NO_ID, "BID", 1, 1)>>)}
=============================================================================
