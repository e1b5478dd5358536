----------------------------- MODULE SerialMap -----------------------------
(***************************************************************************)
(* What a list call means by "apply fn to each calendar": one calendar     *)
(* after the other in the order of discovery, ending with the first that   *)
(* raises.  This is the loop that _map_calendars (apple_mcp/service.py)    *)
(* replaced and that its docstring keeps as the reference.                 *)
(***************************************************************************)
EXTENDS Naturals, Sequences

CONSTANTS MaxCals,      \* bound: calendars of one account
          Results,      \* what fn may return for a calendar
          Error         \* fn raises

VARIABLES answer,       \* what each calendar's fn does in this call
          out,          \* the results so far, in order
          status,       \* "running", "returned" or "raised"
          failed        \* the calendar whose error was raised, or 0

vars == <<answer, out, status, failed>>

Answers == Results \cup {Error}

Init ==
    /\ \E n \in 0 .. MaxCals : answer \in [1 .. n -> Answers]
    /\ out = <<>>
    /\ status = "running"
    /\ failed = 0

NextCal == Len(out) + 1

Apply ==
    /\ status = "running"
    /\ NextCal \in DOMAIN answer
    /\ answer[NextCal] # Error
    /\ out' = Append(out, answer[NextCal])
    /\ UNCHANGED <<answer, status, failed>>

Raise ==
    /\ status = "running"
    /\ NextCal \in DOMAIN answer
    /\ answer[NextCal] = Error
    /\ status' = "raised"
    /\ failed' = NextCal
    /\ UNCHANGED <<answer, out>>

Finish ==
    /\ status = "running"
    /\ NextCal \notin DOMAIN answer
    /\ status' = "returned"
    /\ UNCHANGED <<answer, out, failed>>

Next == Apply \/ Raise \/ Finish

Safety == Init /\ [][Next]_vars

Spec == Safety /\ WF_vars(Next)
=============================================================================
