CONSTANTS
    Procs = {p1, p2}
    NumFiles = 3
    Idempotent = {1}
    MaxExits = 3
    Addrs = {a1, a2}
    Requests = {r1, r2}
    Limit = 2
    Window = 2
    MaxAddrs = 1
    MaxLost = 2
    Front = p1
    NoProc = NoProc
    NoAddr = NoAddr
SPECIFICATION Spec
INVARIANTS
    TypeOK
    AppliedAsRecorded
    ServesOnlyMigrated
    BudgetHolds
PROPERTIES
    SchemaMovesForward
    EveryProcessServes
    LockoutEnds
