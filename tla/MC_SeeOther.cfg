SPECIFICATION Spec
CONSTANTS
    Calls = {1, 2, 3}
    Calendars = {"cal1", "cal2"}
    Names = {"Home", "Work"}
    Folded <- MCFolded
    Requests <- MCRequests
    MaxRedirects = 1
    Starts <- MCSeeOther
INVARIANTS
    CreatedIsStored
CHECK_DEADLOCK FALSE
