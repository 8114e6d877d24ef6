SPECIFICATION FairSpec
CONSTANTS
    A = A
    B = B
    a1 = a1
    b1 = b1
    b2 = b2
    r1 = r1
    r2 = r2
    Shards = {A, B}
    Nodes = {a1, b1, b2}
    RelayTxs = {r1}
    ShardOf <- MCShardOf
    Sender <- FromB
    Receiver <- ToA
    Quorums <- AllQuorums
    MaxHeight <- Heights21
    MaxRound <- NoFailedRound
    ResendAt = 3
    BlockCap <- CapTwo
    GasCap <- NoGasCap
    ReplyReaches <- Resolved
    MaxCrashes = 0
    NoTx = NoTx
    NoNode = NoNode
    NoBlock = NoBlock
PROPERTIES EventuallyCredited 
