--------------------------- MODULE MCClientSession ---------------------------
(* Instances of ClientSession. *)
EXTENDS ClientSession, TLC

PeerSymmetry == Permutations(Peers)
=============================================================================
