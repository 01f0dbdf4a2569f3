SPECIFICATION Spec
CONSTANTS
    Peers = {p1, p2}
    NoPeer = NoPeer
    SecurePage = TRUE
    MaxGen = 3
SYMMETRY PeerSymmetry
INVARIANTS
    UnverifiedIsBlocked
CHECK_DEADLOCK FALSE
