SPECIFICATION ManualSpec
CONSTANTS
    c1 = c1  c2 = c2  c3 = c3
    ip1 = ip1  ip2 = ip2  ip3 = ip3
    ka = ka  kb = kb  kc = kc
    Conns <- ThreeConns
    IPs <- ThreeIPs
    Codes <- ThreeCodes
    MaxPeersPerRoom = 2
    MaxRooms = 2
    Shards = 3
    ShardOf <- OneRoomPerShard
SYMMETRY Interchangeable
INVARIANTS
    OneEntryPerCode
    EntriesAreServed
    RoomsBounded
    EmptyRoomsHaveReaper
    QuiescentTableEmpty
    BroadcastsExact
    NoPeerMissed
    ViewExactWithoutRace
    SteadyPeerFound
    SteadyPairAmbiguous
PROPERTIES
    TeardownSparesOthers
    ImplementsDirectory
CHECK_DEADLOCK FALSE
