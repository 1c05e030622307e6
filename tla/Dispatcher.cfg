SPECIFICATION FairSpec
CONSTANTS
    Heads = {"near", "far", "far2", "own"}
    HeightOf <- TargetHeights
    Waiters = {"w"}
    OwnBlock <- Own
    InQueueSize = 1
    WorkQueueSize = 2
    MaxEpochGap = 1
    MaxTargets = 3
    MaxFaults = 1
INVARIANTS
    NotLeftPaused
PROPERTIES
    CatchupEnds
CHECK_DEADLOCK FALSE
