SPECIFICATION Spec
CONSTANTS
    Events = {early, issue, comment, touched, late}
    early = early
    issue = issue
    comment = comment
    touched = touched
    late = late
    Promised = {early, issue, comment, late}
    At <- MCAt
    BatchOf <- MCBatchOf
    Batches = 2
    DayLength = 2
    Retention = 3
    NoSession = NoSession
    Poller = poller
    Reader = reader
    MaxTime = 5
INVARIANTS TypeOK AnswerIsBacked StatisticsAreRight
