CONSTANTS
    Keys = {k1}
    Concurrency = 1
    Limit = 0
    Window = 1
    StaleAfter = 1
    MaxFaults = 1
    MaxCrashes = 1
    MaxSlow = 0
    MaxCount = 2
SPECIFICATION FairSpec
PROPERTY
    KeepsFinishing
