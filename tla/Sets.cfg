CONSTANTS
    Nodes <- TwoNodes
    Elements = {e}
    Cost <- WholeSetCostsTwo
    Time = {1}
    LogicalMod = 8
    Budget = 3
    MaxDigests = 1
    MaxCollects = 1
SPECIFICATION Spec
INVARIANTS TypeOK WinnersAreMembers SettledAlike AddsPrevail RemovalsHold
CHECK_DEADLOCK FALSE
