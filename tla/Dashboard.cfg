CONSTANTS
    Keys = {k1, k2}
    Retention = 1
    MaxEvents = 3
    PageSize = 1
SPECIFICATION Spec
INVARIANTS
    TypeOK
    NoOrphans
    OutcomeHasRCA
    DetailTruthful
    ListIsASlice
PROPERTIES
    PrunerDeletesOnlyFinished
    KeptForRetention
    HistoryIsForgotten
