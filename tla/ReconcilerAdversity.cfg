CONSTANTS
    Keys = {k1}
    Concurrency = 1
    Limit = 1
    Window = 3
    StaleAfter = 2
    MaxFaults = 1
    MaxCrashes = 1
    MaxSlow = 1
    MaxCount = 5
SPECIFICATION FairSpec
INVARIANTS
    TypeOK
    BoundedStaleness
    PersistBeforeTerminal
    NeverForgotten
    MirrorConverges
    RowsPaidFor
    NothingSilent
PROPERTIES
    LooksLikeADiagnosis
    FinishesUnlessAbandoned
