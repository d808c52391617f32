CONSTANTS
    Turns = {t1, t2}
    Viewers = {v1}
    Sizes = {1, 3}
    Buffer = 2
    HistoryLimit = 2
    HistoryBytes = 4
    Retries = 1
    MaxDeltas = 2
SPECIFICATION FairSpec
INVARIANTS
    TypeOK
    FramesGrowToLatest
    RepliesAreWhole
    QuestionUnlessCrowded
PROPERTY
    TurnEnds
