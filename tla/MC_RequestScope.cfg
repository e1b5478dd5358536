SPECIFICATION FairSpec
CONSTANTS
    Slots = {"s1", "s2", "s3"}
    Bearers = {"alice", "bob"}
    Inputs <- MCInputs
    Environments <- MCEnvironments
    MaxThreads = 2
INVARIANTS
    TypeOK
    OwnIdentity
    ModesKept
PROPERTIES
    ImplementsIsolatedCalls
    CallerSettles
    EveryRequestAnswered
