SPECIFICATION Spec
CONSTANTS
    PayloadHashLength = 2
    PublicKeyBytes = 3
    ChecksumHashLength = 1
    MaxAddressStringLength = 9
    AttoPower = 2
    Requests <- MCRequests
    Methods <- MCMethods
    Addresses <- MCAddresses
    Amounts <- MCAmounts
    CidLists <- MCCidLists
    ChallengeBits = 2
    ExpectedLeadersPerEpoch = 1
    SectorChallengeRatioDiv = 2
    ElectionLookback = 1
    AncestorRoundsNeeded = 3
    TicksPerSecond = 4
    EpochDuration = 3
    Rounds <- MCRounds
    Samplings <- MCSamplings
    BlockLists <- MCBlockLists
    Archives <- MCArchives
INVARIANTS
    
    ReadBackExact
