CONSTANTS
    Elements = {1, 2}
    InitialCapacity = 2
    NoList = NoList
    Reach = 2
    SizeLimit = 9
    Overhead = 1
    MaxLen = 4
    MaxRefused = 1
SPECIFICATION Spec
INVARIANTS TypeOK MemoryIsAccounted PanicsOnlyOnceFilled
 
