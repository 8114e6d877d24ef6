SPECIFICATION PartsSpec
CONSTANTS
    None = None
    Sent <- SampleMessages
    MaxMessages <- OneOrTwo
    Nil = Nil
    Evs = {"e", "f", "x"}
    EvHeight <- MCEvHeight
    Power <- MCPower
    Genuine = {"e", "f"}
    Adders = {"p"}
    MaxAge = 1
    MaxNum = 1
    MaxHeight = 2
    MaxCrashes = 1
INVARIANTS  SocketAnswers  NeverForgotten NothingSkipped   TurnsFair LoadedMembers
CHECK_DEADLOCK FALSE
