CONSTANTS
    Clients = {c1}
    Keys = {k}
    Values = {v}
    NoVal = NoVal
    AllKeys = AllKeys
    Ops = {"SET", "EXPIRE"}
    ChanSize = 1
    BatchSize = 2
    MaxSegmentSize = 1
    MaxEntries = 3
    MaxRestarts = 0
SPECIFICATION Spec
INVARIANTS CompactionKeepsState
SYMMETRY Symmetry
CHECK_DEADLOCK FALSE
