SPECIFICATION FairSpec
CONSTANTS
    NTrackers = 3
    Tickets = {1, 2, 3, 4}
    TrackerOf <- MCTrackerOf
    World <- MCWorld
    Start = 3
    TrackerPage = 2
    TicketPage = 2
    EventPage = 2
    BatchesPerService = 4
    MaxTouches = 1
    MaxFailures = 1
CHECK_DEADLOCK FALSE
INVARIANTS TypeOK NothingLost NothingTwice
PROPERTIES IsScan Completes
