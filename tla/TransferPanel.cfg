SPECIFICATION FairSpec
CONSTANTS
    MaxGen = 4
    MaxTransfers = 3
INVARIANTS
    EndIsFinal
PROPERTIES
    EndIsCleared
CHECK_DEADLOCK FALSE
