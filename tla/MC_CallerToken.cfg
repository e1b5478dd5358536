SPECIFICATION FairSpec
CONSTANTS
    r1 = r1
    r2 = r2
    w1 = w1
    Threads <- MCThreads
    Leader <- MCLeader
    Lifetime = 7
    Stated = 6
    Margin = 5
    NetLag = 1
    Stall = 1
    Hops = 1
    MaxTime = 10
INVARIANTS
    TypeOK
    ValidAtReturn
    ExpiryNotOverstated
PROPERTIES
    ExpiryKept
    GetEnds
\* A thread that has sent its hops, or whose get() raised, takes no further step.
CHECK_DEADLOCK FALSE
