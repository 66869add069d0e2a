SPECIFICATION FairSpec
CONSTANTS
    Rows = {r1}
    MaxGen = 2
    MaxFaults = 1
    FailingSyncs <- RetriedSyncs
PROPERTIES
    RepeatedSetupOpens
