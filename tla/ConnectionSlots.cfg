SPECIFICATION FairSpec
CONSTANTS
    c1 = c1  c2 = c2  c3 = c3  c4 = c4  c5 = c5
    Conns <- FiveConns
    MaxConnections = 2
INVARIANTS
    CountIsExact
PROPERTIES
    AcceptedIsDecided
    ImplementsLimit
CHECK_DEADLOCK FALSE
