---------------------------- MODULE MCClientPair ----------------------------
(* One side asks up to three times, the other once. *)
EXTENDS ClientPair, TLC

CONSTANTS ann, bob

Pair == {ann, bob}
Eager == ann :> 4 @@ bob :> 2
=============================================================================
