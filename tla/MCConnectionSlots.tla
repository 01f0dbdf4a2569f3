------------------------- MODULE MCConnectionSlots -------------------------
(* A small instance of the connection counter for TLC. *)
EXTENDS ConnectionSlots

CONSTANTS c1, c2, c3, c4, c5

FiveConns == {c1, c2, c3, c4, c5}
=============================================================================
