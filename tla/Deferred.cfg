CONSTANTS
    home = home
    peer = peer
    Nodes <- TwoNodes
    Home = home
    Keys <- TwoKeys
    Argument <- Value
    Delays = {0, 1}
    Scraps <- Scrap
    PerSecond = 2
    MaxDefers = 2
    MaxResends = 1
    MaxTime = 1
SPECIFICATION Spec
INVARIANTS TypeOK IndexesAgree CancelledStays 
PROPERTIES DeferredRuns
CHECK_DEADLOCK FALSE
