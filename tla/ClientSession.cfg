SPECIFICATION FairSpec
CONSTANTS
    Peers = {p1, p2}
    NoPeer = NoPeer
    SecurePage = TRUE
    MaxGen = 3
INVARIANTS
    SessionInv
    StoreMatchesPhase
    ConnectedThroughOwnTransport
    RtcTrustIsExact
    WaitingCanBeCancelled
PROPERTY
    DirectAttemptEnds
CHECK_DEADLOCK FALSE
