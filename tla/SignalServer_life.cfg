SPECIFICATION FairServerSpec
CONSTANTS
    c1 = c1  c2 = c2  c3 = c3
    ip1 = ip1  ip2 = ip2
    ka = ka  kb = kb
    Conns <- TwoConns
    IPs <- OneIP
    Codes <- TwoCodes
    MaxPeersPerRoom = 1
    MaxRooms = 2
    MaxConnections = 2
    QueueBound = 1
INVARIANTS
    ServerTypeOK
    EntriesHoldSlots
PROPERTIES
    RefusedOnlyWhenFull
    FadedClientIsReleased
    EmptyRoomsResolved
CHECK_DEADLOCK FALSE
