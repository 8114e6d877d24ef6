SPECIFICATION PartsSpec
CONSTANTS
    v1 = v1
    v2 = v2
    v3 = v3
    Nil = Nil
    None = None
    Validators <- Three
    Faulty = {v3}
    Quorums <- HeavyFirst
    Blocks = {"b1", "b2"}
    Rounds = {0, 1}
INVARIANTS Agreement PeersAccounted MessagesFlow MajoritiesReal ClaimsServed BeliefsTrue 
CHECK_DEADLOCK FALSE
