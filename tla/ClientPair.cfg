SPECIFICATION FairSpec
CONSTANTS
    ann = ann  bob = bob
    Peers <- Pair
    NoPeer = NoPeer
    SecurePage = TRUE
    MaxGen <- Eager
INVARIANTS
    SettledSidesAgree
PROPERTIES
    WithdrawnRequestVanishes
CHECK_DEADLOCK FALSE
