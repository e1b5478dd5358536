SPECIFICATION FairSpec
CONSTANTS
    Items <- MCItems
    Lists <- MCLists
    Tilde = 6
    MaxLists = 3
    PartialExpand = FALSE
INVARIANTS
    TypeOK
    EveryEventListed
    OneAnswerEach
    RemindersExact
    NoteCountsUpgraded
    SortedResult
PROPERTIES
    ListEnds
\* The call ends: nothing happens after it has returned or raised.
CHECK_DEADLOCK FALSE
