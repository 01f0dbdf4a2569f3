SPECIFICATION Spec
CONSTANTS
    c1 = c1  c2 = c2  c3 = c3
    ip1 = ip1
    ka = ka  kb = kb
    Conns <- ThreeConns
    IPs <- OneIP
    Codes <- TwoCodes
    MaxPeersPerRoom = 2
    MaxRooms = 1
PROPERTIES
    ReapedRoomIsEmpty
CHECK_DEADLOCK FALSE
