SPECIFICATION Spec
CONSTANTS
    MaxCrashes = 1
INVARIANTS StatusIsNeverNull
CHECK_DEADLOCK FALSE
