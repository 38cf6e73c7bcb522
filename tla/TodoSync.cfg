SPECIFICATION Spec
CONSTANTS
    Clients = {s1, s2}
    NoSession = NoSession
    MaxRetries = 1
    MaxFaults = 2
    Actors = {me, you}
    Owner = me
    FeedPage = 1
    FeedPages = 2
    Overlap = 0
    MaxEvents = 3
    MaxClock = 1
SYMMETRY Symmetry
INVARIANTS TypeOK NothingLost FaultsAreRidden PausesAreShort
CHECK_DEADLOCK FALSE
