SPECIFICATION Spec
CONSTANTS
    Wallet = {"a"}
    Others = {"b"}
    Contents = {1, 2}
    MaxNonce = 1
    SendContents = {1}
    SignedMsgs <- Resent
    ClearAddrs = {"b"}
    GossipMsgs <- Gossiped
    Tips <- ChainTips
    Genesis = "g"
    Parent <- ChainParent
    Height <- ChainHeight
    Rank <- ChainRank
    Mined <- ChainMined
    OutboxMaxAge = 2
    InboxMaxAge = 1
    MaxPoolSize = 2
    MaxNonceGap = 1
    MaxEvents = 2
INVARIANTS
    QueueContiguous
    
CHECK_DEADLOCK FALSE
