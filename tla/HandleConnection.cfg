SPECIFICATION HandleSpec
CONSTANTS
    Second = 4
    PerSecond = 3
    CloseThreshold = 3
    Characters = {"-", "x", "#"}
    Alphanumeric = {"x"}
    MaxPeerCode = 2
    Hosts <- MCHosts
    Ports <- MCPorts
    CountOf <- MCCountOf
    Proxies <- MCProxies
    ArgLists <- MCArgLists
    Environments <- MCEnvironments
    Sockets <- MCSockets
    Headers <- MCHeaders
    Texts <- MCTexts
INVARIANTS
    LimiterInv
    AtMostTwiceTheLimit
    TextAnswersBounded
    OutsiderKeepsOwnRoom
    LanSharesOneRoom
    ListensWhereAsked
    ReachedByAnySpelling
PROPERTIES
    RefusalIsDeserved
CHECK_DEADLOCK FALSE
