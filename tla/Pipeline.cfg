CONSTANTS
    MaxIter = 0
    MaxTools = 2
    MaxUsage = 1
    MaxPods = 2
    NumPods = 3
    Containers = 2
    Budget = 3
SPECIFICATION Spec
CHECK_DEADLOCK FALSE
INVARIANTS
    ConversationIsClosed
    CostIsBounded
    OutcomeMeans
    ContextIsWhole
    EveryChannelHasItsTurn
