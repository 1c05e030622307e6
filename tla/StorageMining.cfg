SPECIFICATION MiningSpec
CONSTANTS
    VoucherInterval = 2
    ChannelExpiryInterval = 2
    MaxSectors = 2
    Workloads <- AllWorkloads
    MaxUserBytes = 2
    ProvingPeriod = 5
    ChallengeWindow = 3
    SectorCollateral = 10
    SectorSize = 1
    WordSize = 1024
    ChallengeDelay = 1
    SubmissionBuffer = 1
    MaxLag = 2
INVARIANTS
    CompleteIsCommitted
    
    ClientRecordsHold
    AttachedIsReported
    
PROPERTIES
    DealsFollowLifeCycle
    EveryDealSettles
CHECK_DEADLOCK FALSE
