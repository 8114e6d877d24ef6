SPECIFICATION RelaySpec
CONSTANTS
    A = A
    B = B
    a1 = a1
    b1 = b1
    b2 = b2
    L = L
    M = M
    l1 = l1
    m1 = m1
    r1 = r1
    r2 = r2
    r3 = r3
    Shards = {A, B, L, M}
    Nodes = {a1, b1, b2, l1, m1}
    RelayTxs = {r1, r2, r3}
    ShardOf <- MCShardOf
    Sender <- MCSender
    Receiver <- MCReceiver
    Quorums <- MCQuorums
    MaxHeight <- MCMaxHeight
    MaxRound <- MCMaxRound
    ResendAt = 1
    BlockCap <- MCBlockCap
    GasCap <- MCGasCap
    ReplyReaches <- MCReplyReaches
    MaxCrashes = 1
    NoTx = NoTx
    NoNode = NoNode
    NoBlock = NoBlock
INVARIANTS
    CmsGenuine
    NoCreditWithoutDebit
    DeletedOnRecord
    ConfirmedAlone
    
