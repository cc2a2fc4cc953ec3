CONSTANTS
    Seats <- ThreeSeats
    Seed = seed
    seed = seed
    seat2 = seat2
    seat3 = seat3
    None = None
    MaxEvents = 3
    MaxElections = 2
    MaxQueue = 1
    MaxBusy = 1
SPECIFICATION Spec
INVARIANTS VotesOncePerTerm TallyIsHonest GrantsAreDurable
SYMMETRY JoinersAreAlike
CHECK_DEADLOCK FALSE
