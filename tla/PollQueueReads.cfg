SPECIFICATION FairSpec
CONSTANTS
    RepollSeconds = 0
    BackoffSeconds = 1
    BackoffMaxSeconds = 2
    AttemptCap = 3
    Actors = {a1}
    DefaultActor = NoActor
    NoActor = NoActor
    StartupPass = startup
    JobPass = job
    Passes = {job}
    Posts = {}
    Gets = {g1}
    NoSession = NoSession
    BatchSize = 2
    BatchesPerService = 1
    Batches = 2
    TodoBatches = 1
    GitBatches = 2
    EventBatches = {1}
    MaxClock = 2
INVARIANTS DueWithinHorizon
PROPERTIES PassEnds GetEnds
