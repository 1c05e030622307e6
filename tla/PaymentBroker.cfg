SPECIFICATION MCSpec
CONSTANTS
    Payers = {payer}
    Targets = {target}
    Broker = broker
    Preds = {pred}
    Params = {param}
    NoParams = NoParams
    NoCondition = NoCondition
    NoChannel = NoChannel
    CancelDelay = 1
    InitialBalance = 2
    MaxChannels = 2
    MaxEpoch = 2
    MaxVouchers = 2
    MaxVouchersOfTwo = 1
INVARIANTS
    PaidIsOneVoucher
    EndOfLifeHasNotice
    BrokerHoldsWhatItOwes
PROPERTIES
    NoFundsStranded
CHECK_DEADLOCK FALSE
