CONSTANTS
    Nodes <- TwoAndSpare
    Spares <- Spare
    Keys = {k}
    Values = {v}
    NoVal = NoVal
    EmptyValue = empty
    Turns = {"plain", "counter", "resend", "restart"}
    MaxTurns = 1
    Time = {1}
    LogicalMod = 8
    MemoryLimited = FALSE
    MaxWrites = 2
    MaxResends = 1
    MaxDigests = 1
SPECIFICATION MSpec
INVARIANTS StampsSurviveRestarts PlainWritesLeaveNoTrace DeletionsHold
CHECK_DEADLOCK FALSE
