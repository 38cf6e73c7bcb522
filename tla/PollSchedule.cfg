SPECIFICATION Spec
CONSTANTS
    RepollSeconds = 1
    BackoffSeconds = 1
    BackoffMaxSeconds = 1
    AttemptCap = 1
    Actors = {a1, a2}
    a1 = a1
    a2 = a2
    File <- MCFile
    Stagger = 1
    BatchSize = 1
    BackfillPasses = 2
    MaxDisturbances = 1
INVARIANTS TypeOK
PROPERTIES EveryoneIsServed EveryoneStaysCurrent
CHECK_DEADLOCK FALSE
