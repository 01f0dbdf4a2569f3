SPECIFICATION Spec
CONSTANTS
    MaxGen = 4
    MaxTransfers = 3
PROPERTIES
    NewTransferIsShown
CHECK_DEADLOCK FALSE
