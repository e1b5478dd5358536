SPECIFICATION Spec
CONSTANTS
    r1 = r1
    r2 = r2
    w1 = w1
    Threads <- MCThreads
    Leader <- MCLeader
    Lifetime = 4
    Stated = 4
    Margin = 2
    NetLag = 1
    Stall = 0
    Hops = 1
    MaxTime = 5
INVARIANTS
    WorkersOnlyReadCache
CHECK_DEADLOCK FALSE
