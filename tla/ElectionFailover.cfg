CONSTANTS
    Seats <- TwoSeats
    Seed = seed
    seed = seed
    seat2 = seat2
    seat3 = seat3
    None = None
    MaxEvents = 3
    MaxElections = 1
    MaxQueue = 1
    MaxBusy = 1
SPECIFICATION FairSpec
PROPERTY FailoverHappens
CHECK_DEADLOCK FALSE
