SPECIFICATION Spec
CONSTANTS
    ProvingPeriod = 2
    ChallengeWindow = 1
    SectorCollateral = 2
    SectorSize = 1
    WordSize = 16
    BlockGasLimit = 10
    DefaultGasCost = 1
    Accounts <- GenesisAccounts
    GenesisMiners <- GenesisOwners
    NetworkFunds = 100
    BlockReward = 1
    BLSKeys = {"a", "c"}
    Workloads <- PayWorkload
INVARIANT ReceiptIsItsOwn
CHECK_DEADLOCK FALSE
