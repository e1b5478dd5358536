SPECIFICATION FairSpec
CONSTANTS
    AppleHosts = {"root", "p01"}
    OtherHosts = {"stranger"}
    Paths = {"a", "b"}
    Requests <- MCRequests
    Locations <- MCLocations
    Addresses = {"v4", "v6", "local"}
    Global = {"v4", "v6"}
    V4 = {"v4", "local"}
    Limits <- MCLimits
INVARIANTS
    TypeOK
    EveryHopBrokerable
    RequestPreserved
    FinalUrlAnswered
    DirectHopsPinned
PROPERTIES
    RequestEnds
\* The request ends: nothing happens after it has returned or raised.
CHECK_DEADLOCK FALSE
