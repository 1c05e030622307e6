SPECIFICATION Spec
CONSTANTS
    Peers = {"p1", "p2", "x"}
    Foreign = {"x"}
    BootstrapPeers = {"p1", "p2"}
    Aggregator = "p2"
    MinPeerThreshold = 2
    MaxHellos = 2
    MaxFaults = 1
    Blocks <- MCBlocks
    Stop = 1
    Worlds <- MCWorlds
INVARIANTS
    FetchIsExact
    TrackedIsConnected
PROPERTIES
    FetchEnds
    NodeStaysConnected
CHECK_DEADLOCK FALSE
