CONSTANTS
    Procs = {p1}
    NumFiles = 1
    Idempotent = {1}
    MaxExits = 0
    Addrs = {a1, a2}
    Requests = {r1}
    Limit = 2
    Window = 2
    MaxAddrs = 1
    MaxLost = 2
    Front = p1
    NoProc = NoProc
    NoAddr = NoAddr
SPECIFICATION Spec
INVARIANT
    NoExtraAttempts
