SPECIFICATION FairServerSpec
CONSTANTS
    c1 = c1  c2 = c2  c3 = c3
    ip1 = ip1  ip2 = ip2
    ka = ka  kb = kb
    Conns <- TwoConns
    IPs <- OneIP
    Codes <- OneCode
    MaxPeersPerRoom = 2
    MaxRooms = 2
    MaxConnections = 2
    QueueBound = 1
PROPERTIES
    SupersededConnectionCloses
CHECK_DEADLOCK FALSE
