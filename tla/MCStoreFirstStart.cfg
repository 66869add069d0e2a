SPECIFICATION Spec
CONSTANTS
    Rows = {r1}
    MaxGen = 1
    MaxFaults = 2
    FailingSyncs <- AllSyncs
INVARIANTS
    SavedRowsSurvive
