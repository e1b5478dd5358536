SPECIFICATION FairSpec
CONSTANTS
    Cards <- MCCards
    Accounts <- MCAccounts
    Limits <- MCLimits
    DefaultResults = 2
    MaxResults = 3
    MaxMethods = 2
    MaxScan = 5
    Tilde = 3
    Quirks <- MCQuirks
INVARIANTS
    TypeOK
    CapsHold
    FirstHitsReturned
    EveryNameFound
PROPERTIES
    SearchEnds
\* The search ends: nothing happens after it has returned or raised.
CHECK_DEADLOCK FALSE
