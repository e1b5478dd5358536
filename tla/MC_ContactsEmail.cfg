SPECIFICATION Spec
CONSTANTS
    Cards <- MCCards
    Accounts <- MCMailOnly
    Limits <- MCLimits
    DefaultResults = 2
    MaxResults = 3
    MaxMethods = 2
    MaxScan = 5
    Tilde = 3
    Quirks <- MCConforming
INVARIANTS
    EveryMatchFound
\* The search ends: nothing happens after it has returned or raised.
CHECK_DEADLOCK FALSE
