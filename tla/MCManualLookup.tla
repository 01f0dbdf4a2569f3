--------------------------- MODULE MCManualLookup ---------------------------
(* Small instances of the manual lookup for TLC: a shard for every room,   *)
(* the finest division the DashMap can make.                               *)
EXTENDS ManualLookup, TLC

CONSTANTS c1, c2, c3, ip1, ip2, ip3, ka, kb, kc

ThreeConns == {c1, c2, c3}
ThreeIPs   == {ip1, ip2, ip3}
ThreeCodes == {ka, kb, kc}

OneRoomPerShard == ip1 :> 1 @@ ip2 :> 2 @@ ip3 :> 3

(* Connections and codes are interchangeable; addresses are not, for the   *)
(* iterator visits their shards in order.                                  *)
Interchangeable == Permutations(Conns) \cup Permutations(Codes)
=============================================================================
