SPECIFICATION Spec
CONSTANTS
    Repositories = {old, new}
    Owned = {old, new}
    Configured = {old}
    Branches = {main}
    RepositoryOf <- MCRepositoryOf
    old = old
    new = new
    main = main
    LogPage = 1
    LogPages = 1
    TTL = 1
    Overlap = 1
    MaxCommits = 2
    MaxClock = 3
INVARIANTS TypeOK NothingLost
CHECK_DEADLOCK FALSE
