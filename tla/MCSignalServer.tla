--------------------------- MODULE MCSignalServer ---------------------------
(* Small instances of the server for TLC. *)
EXTENDS SignalServer, TLC

CONSTANTS c1, c2, c3, ip1, ip2, ka, kb

TwoConns   == {c1, c2}
ThreeConns == {c1, c2, c3}
OneIP      == {ip1}
TwoIPs     == {ip1, ip2}
OneCode    == {ka}
TwoCodes   == {ka, kb}

(* Connections, addresses and codes are interchangeable. *)
Interchangeable ==
    Permutations(Conns) \cup Permutations(IPs) \cup Permutations(Codes)
=============================================================================
