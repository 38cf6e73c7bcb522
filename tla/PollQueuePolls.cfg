SPECIFICATION Spec
CONSTANTS
    RepollSeconds = 2
    BackoffSeconds = 1
    BackoffMaxSeconds = 2
    AttemptCap = 3
    Actors = {a1}
    DefaultActor = a1
    NoActor = NoActor
    StartupPass = startup
    JobPass = job
    Passes = {startup, job}
    Posts = {p1}
    Gets = {}
    NoSession = NoSession
    BatchSize = 2
    BatchesPerService = 1
    Batches = 2
    TodoBatches = 1
    GitBatches = 2
    EventBatches = {1}
    MaxClock = 2
INVARIANTS TypeOK LockIsReleased StateInsertIsSafe CursorIsBacked CompletedIsComplete
PROPERTIES CompletedIsFinal DeadClaimIsDue
