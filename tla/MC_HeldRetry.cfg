SPECIFICATION Spec
CONSTANTS
    Calls = {1, 2, 3}
    Calendars = {"cal1", "cal2"}
    Names = {"Home", "Work"}
    Folded <- MCFolded
    Requests <- MCRequests
    MaxRedirects = 0
    Starts <- MCUnreadable
INVARIANTS
    SameObject
CHECK_DEADLOCK FALSE
