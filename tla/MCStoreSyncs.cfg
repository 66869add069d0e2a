SPECIFICATION Spec
CONSTANTS
    Rows = {r1}
    MaxGen = 2
    MaxFaults = 4
    FailingSyncs <- RetriedSyncs
CHECK_DEADLOCK FALSE
INVARIANTS SavedRowsSurvive
