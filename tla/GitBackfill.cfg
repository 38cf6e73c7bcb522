SPECIFICATION FairSpec
CONSTANTS
    Listing <- MCListing
    Public = {"lib", "notes", "empty"}
    Configured = {"conf", "lib"}
    References <- MCReferences
    Branches = {"main", "next", "draft", "trunk"}
    Commits = {1, 2, 3, 4, 5, 6, 7, 8, 9}
    World <- MCWorld
    AuthorTime <- MCAuthorTime
    RepositoryPage = 2
    ReferencePage = 2
    LogPage = 2
    Start = 2
    BatchesPerService = 4
    MaxFailures = 1
CHECK_DEADLOCK FALSE
INVARIANTS TypeOK NothingLost
PROPERTIES IsScan Completes
