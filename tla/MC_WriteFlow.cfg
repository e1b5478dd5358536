SPECIFICATION FairSpec
CONSTANTS
    Calls = {1, 2, 3}
    Calendars = {"cal1", "cal2"}
    Names = {"Home", "Work"}
    Folded <- MCFolded
    Requests <- MCRequests
    MaxRedirects = 1
    Starts <- MCStarts
INVARIANTS
    TypeOK
    SameObjectIfStable
    NoDuplicate
    CreatedIfNoSeeOther
    ApprovalCompletes
PROPERTIES
    AttemptEnds
\* Attempts are not repeated for ever, and a held write may never be approved.
CHECK_DEADLOCK FALSE
