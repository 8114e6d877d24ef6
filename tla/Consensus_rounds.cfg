SPECIFICATION Spec
CONSTANTS
    v1 = v1
    v2 = v2
    v3 = v3
    v4 = v4
    Nil = Nil
    None = None
    Validators <- Three
    Quorums <- HeavyFirst
    Proposer <- Turn
    MaxRound = 1
    Peers <- Line
    Down = {}
    MaxTimeouts <- Late
    CheckpointRounds = {}
    Differs = {}
INVARIANTS Agreement StateJustified
PROPERTIES VotesByTheRules
CHECK_DEADLOCK FALSE
