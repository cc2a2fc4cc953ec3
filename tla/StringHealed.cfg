CONSTANTS
    Nodes <- TwoNodes
    Keys = {k}
    Values = {v}
    NoVal = NoVal
    Time = {1, 2}
    LogicalMod = 8
    MemoryLimited = TRUE
    MaxWrites = 2
    MaxResends = 1
    MaxDigests = 1
SPECIFICATION FairSpec
INVARIANTS IInv StoreIsNewestSeen StampsIdentifyWrites ReplicasConverge
PROPERTIES ImplementsPromise EventuallyHealed
CHECK_DEADLOCK FALSE
