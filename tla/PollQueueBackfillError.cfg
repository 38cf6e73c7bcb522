SPECIFICATION Spec
CONSTANTS
    RepollSeconds = 2
    BackoffSeconds = 1
    BackoffMaxSeconds = 2
    AttemptCap = 3
    Actors = {a1}
    DefaultActor = a1
    NoActor = NoActor
    StartupPass = startup
    JobPass = job
    Passes = {job}
    Posts = {}
    Gets = {}
    NoSession = NoSession
    BatchSize = 2
    BatchesPerService = 1
    Batches = 2
    TodoBatches = 1
    GitBatches = 2
    EventBatches = {1}
    MaxClock = 1
PROPERTIES BackfillErrorIsRecorded
