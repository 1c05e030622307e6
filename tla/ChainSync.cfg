SPECIFICATION FaultsSpec
CONSTANTS
    Blocks <- ForkBlocks
    Genesis = "g"
    Parents <- ForkParents
    Height <- ForkHeight
    ParentWeight <- ForkWeight
    Ticket <- ForkTicket
    LogPower <- OneBit
    KeyOrder <- KeyOrders
    ECV = 2
    BadState = {{"w"}}
    Finality = 5
    NoTipSet = NoTipSet
    TargetsDuringStart = FALSE
    DiskFaults = FALSE
    MaxFaults = 1
INVARIANTS
    StoreIsValid
    SmoothRestart
PROPERTIES
    SmoothHead
    SmoothCatchUp
