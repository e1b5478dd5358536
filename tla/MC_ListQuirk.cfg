SPECIFICATION Spec
CONSTANTS
    Items <- MCItems
    Lists <- MCLists
    Tilde = 6
    MaxLists = 3
    PartialExpand = TRUE
INVARIANTS
    EveryEventListed
\* The call ends: nothing happens after it has returned or raised.
CHECK_DEADLOCK FALSE
