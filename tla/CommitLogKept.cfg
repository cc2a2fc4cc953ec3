CONSTANTS
    Clients = {c1, c2}
    Keys = {j, k}
    Values = {v, w}
    NoVal = NoVal
    AllKeys = AllKeys
    Ops = {"SET", "DEL", "EXPIRE", "FLUSHALL"}
    ChanSize = 1
    BatchSize = 2
    MaxSegmentSize = 1
    MaxEntries = 3
    MaxRestarts = 2
SPECIFICATION Spec
INVARIANTS NewestWriteSurvives CompactionIsInvisible LogMatchesStore
SYMMETRY Symmetry
CHECK_DEADLOCK FALSE
