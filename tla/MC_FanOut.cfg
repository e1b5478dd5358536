SPECIFICATION FairSpec
CONSTANTS
    res1 = res1
    res2 = res2
    err = err
    Results <- MCResults
    Error = err
    MaxCals = 4
    MaxWorkers = 2
INVARIANTS
    TypeOK
    QuietAtEnd
    FirstErrorWins
PROPERTIES
    NoStartWhenClosing
    ImplementsSerialMap
\* The call ends: nothing happens after it has returned or raised.
CHECK_DEADLOCK FALSE
