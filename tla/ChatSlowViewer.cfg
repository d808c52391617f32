CONSTANTS
    Turns = {t1}
    Viewers = {v1}
    Sizes = {1}
    Buffer = 2
    HistoryLimit = 2
    HistoryBytes = 4
    Retries = 1
    MaxDeltas = 3
SPECIFICATION Spec
INVARIANT
    SlowViewerCatchesUp
