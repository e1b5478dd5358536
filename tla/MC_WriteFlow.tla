--------------------------- MODULE MC_WriteFlow ---------------------------
(* Attempts at one event, by calendar name and by the default calendar. *)
EXTENDS WriteFlow, TLC

MCFolded == ("Home" :> "home" @@ "Work" :> "work" @@ "WORK" :> "work")

Event(location, calendar) ==
    [valid |-> TRUE, content |-> "lunch", location |-> location, calendar |-> calendar]

ByName == Event("cafe", "WORK")
ByDefault == Event("cafe", NoName)
Blank == [ByDefault EXCEPT !.valid = FALSE]

MCRequests == {ByName, ByDefault, Blank}

\* The calendars are alike, so one order of them is enough to start with, and
\* the first may be the one asked for.
Start(what, second, first, again, third) ==
    [faults |-> what, listing |-> <<"cal1", "cal2">>,
     nameOf |-> ("cal1" :> "Work" @@ "cal2" :> second),
     req |-> <<first, again, third>>]

Twice(what, second, r) == Start(what, second, r, r, Blank)

\* Two attempts under what may go wrong together, and three that may compete
\* for one approval.
MCStarts ==
    {Twice({"moved", "expired"}, "Home", ByName),
     Start({"moved", "expired"}, "Work", ByDefault, ByName, Blank),
     Twice({"moved", "see_other"}, "Home", ByName),
     Twice({"reordered", "expired"}, "Home", ByName),
     Twice({"reordered", "expired"}, "Home", ByDefault),
     Twice({"unreadable", "conflict"}, "Home", ByName),
     Twice({"unreadable", "conflict"}, "Work", ByName),
     Twice({"renamed"}, "Home", ByDefault),
     Start({}, "Work", ByName, ByName, ByName)}

MCUnreadable == {Twice({"unreadable"}, second, ByName) : second \in Names}

MCSeeOther == {Twice({"moved", "see_other"}, "Home", ByName)}
=============================================================================
