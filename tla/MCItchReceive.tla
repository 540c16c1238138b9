--------------------------- MODULE MCItchReceive ---------------------------
(* Bounds: messages of two and five characters, blocks of four, reads     *)
(* of four: five characters need two reads, and a partly read buffer wraps *)
(* and grows before MaxBytes are sent.                                     *)
EXTENDS ItchReceive

MCMessages == {<<"a", TLF>>, <<"b", "c", "d", "e", TLF>>}
===========================================================================
