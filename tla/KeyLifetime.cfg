CONSTANTS
    Clients = {c1, c2}
    Keys = {k}
    KeyLen = 1
    Lengths = {1, 2}
    TTLs = {1}
    MaxMemory = 3
    QueueSize = 1
    BatchSize = 1
    MaxTime = 4
    MaxCalls = 4
SPECIFICATION FairSpec
INVARIANTS DeadlinesFollowValues CountersMatchMap
PROPERTIES ReapedOnlyWhenDue ExpiredKeysGo
CHECK_DEADLOCK FALSE
