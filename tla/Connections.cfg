CONSTANTS
    c1 = c1
    c2 = c2
    c3 = c3
    c4 = c4
    here = here
    there = there
    Clients <- Four
    Address <- TwoAddresses
    MaxConnections = 2
    MaxPerIP = 2
    RateLimit = 3
SPECIFICATION Spec
INVARIANTS TypeOK CountsAreHonest LimitsHoldUnlessBurst OneLateConnection
CHECK_DEADLOCK FALSE
