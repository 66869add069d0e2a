SPECIFICATION FairSpec
CONSTANTS
    Rows = {r1}
    MaxGen = 3
    MaxFaults = 3
    FailingSyncs <- RetriedSyncs
INVARIANTS
    SavedRowsSurvive
    OpenIsRetired
    ResetErasesSource
    CancelIsHonoured
PROPERTIES
    ImplementsDurableStore
    OperationsEnd
    StoreComesBack
