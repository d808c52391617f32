CONSTANTS
    Keys = {k1, k2}
    Concurrency = 1
    Limit = 1
    Window = 2
    StaleAfter = 2
    MaxFaults = 0
    MaxCrashes = 1
    MaxSlow = 0
    MaxCount = 1
SPECIFICATION FairSpec
PROPERTY
    FailedStays
