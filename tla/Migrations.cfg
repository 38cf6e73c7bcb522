SPECIFICATION Spec
CONSTANTS
    MaxCrashes = 2
INVARIANTS TypeOK ServesCompleteSchema
PROPERTIES RowsSurvive UpgradeEnds
CHECK_DEADLOCK FALSE
