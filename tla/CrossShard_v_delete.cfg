SPECIFICATION Spec
CONSTANTS
    A = A
    B = B
    a1 = a1
    b1 = b1
    b2 = b2
    r1 = r1
    r2 = r2
    Shards = {A, B}
    Nodes = {a1, b1}
    RelayTxs = {r1, r2}
    ShardOf <- MCShardOf
    Sender <- FromA
    Receiver <- ToB
    Quorums <- AllQuorums
    MaxHeight <- Heights12
    MaxRound <- NoFailedRound
    ResendAt = 2
    BlockCap <- CapTwo
    GasCap <- NoGasCap
    ReplyReaches <- Unresolved
    MaxCrashes = 0
    NoTx = NoTx
    NoNode = NoNode
    NoBlock = NoBlock
INVARIANTS ConfirmedBeforeDelete
