SPECIFICATION ServerSpec
CONSTANTS
    c1 = c1  c2 = c2  c3 = c3
    ip1 = ip1  ip2 = ip2
    ka = ka  kb = kb
    Conns <- TwoConns
    IPs <- TwoIPs
    Codes <- TwoCodes
    MaxPeersPerRoom = 2
    MaxRooms = 2
    MaxConnections = 2
    QueueBound = 1
SYMMETRY Interchangeable
INVARIANTS
    SignalsReachWhoWasAsked
CHECK_DEADLOCK FALSE
