SPECIFICATION TimelySpec
CONSTANTS
    v1 = v1
    v2 = v2
    v3 = v3
    v4 = v4
    Nil = Nil
    None = None
    Validators <- Four
    Quorums <- ThreeOfFour
    Proposer <- Turn
    MaxRound = 1
    Peers <- Star
    Down = {v2}
    MaxTimeouts <- Ample
    CheckpointRounds = {}
    Differs = {}
PROPERTY EveryoneDecides
CHECK_DEADLOCK FALSE
