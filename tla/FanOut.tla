------------------------------ MODULE FanOut ------------------------------
(***************************************************************************)
(* _map_calendars of apple_mcp/service.py: one tool call applies fn to     *)
(* every calendar, each in a worker of a ThreadPoolExecutor, and collects  *)
(* the results in the order of the calendars.                              *)
(*                                                                         *)
(* The executor is the Python library's.  map() submits every calendar at  *)
(* once; its iterator waits for the futures one by one in order, and when  *)
(* one raises it cancels those left, last first; the `with` block then     *)
(* waits until the workers are done, and only then does the call end.      *)
(***************************************************************************)
EXTENDS Naturals, Sequences, FiniteSets

CONSTANTS MaxCals,      \* bound: calendars of one account
          MaxWorkers,   \* _MAX_CALENDAR_WORKERS, 8 in the code
          Results,      \* what fn may return for a calendar
          Error         \* fn raises

\* With one worker the code applies fn to the first calendar only, which is
\* right only when there is no other.
ASSUME PoolAssumption ==
    MaxCals \in Nat /\ MaxWorkers \in Nat /\ MaxWorkers >= 2

ASSUME ErrorAssumption == Error \notin Results

VARIABLES
    answer,     \* what each calendar's fn does in this call
    task,       \* the state of each calendar's future
    phase,      \* where the calling thread is
    k,          \* the calendar it submits, waits for or cancels
    out,        \* the results collected so far
    failed      \* the calendar whose error was collected, or 0

vars == <<answer, task, phase, k, out, failed>>

Answers == Results \cup {Error}
N == Len(answer)
Cals == 1 .. N

Phases == {"start", "inline", "submit", "collect", "cancel", "closing",
           "returned", "raised"}
TaskStates == {"none", "queued", "running", "ok", "error", "cancelled"}

Running == {i \in Cals : task[i] = "running"}
Workers == IF N < MaxWorkers THEN N ELSE MaxWorkers

Init ==
    /\ \E n \in 0 .. MaxCals : answer \in [1 .. n -> Answers]
    /\ task = [i \in Cals |-> "none"]
    /\ phase = "start"
    /\ k = 1
    /\ out = <<>>
    /\ failed = 0

Move(i, from, to) ==
    /\ task[i] = from
    /\ task' = [task EXCEPT ![i] = to]

\* `if not cals: return []`
NoCalendars ==
    /\ phase = "start" /\ N = 0
    /\ phase' = "returned"
    /\ UNCHANGED <<answer, task, k, out, failed>>

\* `if workers <= 1: return [fn(cals[0])]`, in the calling thread.
CallInline ==
    /\ phase = "start" /\ N # 0 /\ Workers <= 1
    /\ Move(1, "none", "running")
    /\ phase' = "inline"
    /\ UNCHANGED <<answer, k, out, failed>>

InlineReturns ==
    /\ phase = "inline" /\ task[1] = "ok"
    /\ phase' = "closing"
    /\ out' = <<answer[1]>>
    /\ UNCHANGED <<answer, task, k, failed>>

InlineRaises ==
    /\ phase = "inline" /\ task[1] = "error"
    /\ phase' = "closing"
    /\ failed' = 1
    /\ UNCHANGED <<answer, task, k, out>>

OpenPool ==
    /\ phase = "start" /\ Workers > 1
    /\ phase' = "submit"
    /\ UNCHANGED <<answer, task, k, out, failed>>

Submit ==
    /\ phase = "submit" /\ k \in Cals
    /\ Move(k, "none", "queued")
    /\ k' = k + 1
    /\ UNCHANGED <<answer, phase, out, failed>>

Submitted ==
    /\ phase = "submit" /\ k \notin Cals
    /\ phase' = "collect"
    /\ k' = 1
    /\ UNCHANGED <<answer, task, out, failed>>

\* A free worker takes the oldest future in the queue and runs fn on it.
StartTask(i) ==
    /\ phase # "inline"
    /\ Cardinality(Running) < Workers
    /\ \A j \in Cals : j < i => task[j] # "queued"
    /\ Move(i, "queued", "running")
    /\ UNCHANGED <<answer, phase, k, out, failed>>

FinishTask(i) ==
    /\ Move(i, "running", IF answer[i] = Error THEN "error" ELSE "ok")
    /\ UNCHANGED <<answer, phase, k, out, failed>>

\* Mutants: exceptions taken for results; results in order of completion.
CollectAnything ==
    /\ phase = "collect" /\ k \in Cals
    /\ task[k] \in {"ok", "error"}
    /\ out' = Append(out, answer[k])
    /\ k' = k + 1
    /\ UNCHANGED <<answer, task, phase, failed>>

CollectCompleted ==
    /\ phase = "collect" /\ k \in Cals
    /\ \E i \in k .. N : task[i] = "ok" /\ out' = Append(out, answer[i])
    /\ k' = k + 1
    /\ UNCHANGED <<answer, task, phase, failed>>

\* list(...) takes the next result, waiting for it.
Collect ==
    /\ phase = "collect" /\ k \in Cals
    /\ task[k] = "ok"
    /\ out' = Append(out, answer[k])
    /\ k' = k + 1
    /\ UNCHANGED <<answer, task, phase, failed>>

\* Mutant: the error of whichever calendar failed first in time.
CollectAnyError ==
    /\ phase = "collect"
    /\ \E i \in Cals : task[i] = "error" /\ failed' = i
    /\ phase' = "cancel"
    /\ k' = N
    /\ UNCHANGED <<answer, task, out>>

\* The result is an exception: the iterator's `finally` cancels what is left.
CollectError ==
    /\ phase = "collect" /\ k \in Cals
    /\ task[k] = "error"
    /\ failed' = k
    /\ phase' = "cancel"
    /\ k' = N
    /\ UNCHANGED <<answer, task, out>>

\* Mutant: the futures that wait are left in the queue.
CancelNothing ==
    /\ phase = "cancel" /\ k > failed
    /\ k' = k - 1
    /\ UNCHANGED <<answer, task, phase, out, failed>>

\* future.cancel() has no effect on one that a worker has started.
Cancel ==
    /\ phase = "cancel" /\ k > failed
    /\ task' = [task EXCEPT ![k] = IF @ = "queued" THEN "cancelled" ELSE @]
    /\ k' = k - 1
    /\ UNCHANGED <<answer, phase, out, failed>>

Close ==
    /\ \/ phase = "collect" /\ k \notin Cals
       \/ phase = "cancel" /\ k = failed
    /\ phase' = "closing"
    /\ UNCHANGED <<answer, task, k, out, failed>>

\* Mutant: shutdown(wait=False).
EndAtOnce ==
    /\ phase = "closing"
    /\ phase' = IF failed = 0 THEN "returned" ELSE "raised"
    /\ UNCHANGED <<answer, task, k, out, failed>>

\* The `with` block ends: shutdown(wait=True), then the call returns or raises.
End ==
    /\ phase = "closing"
    /\ \A i \in Cals : task[i] \notin {"queued", "running"}
    /\ phase' = IF failed = 0 THEN "returned" ELSE "raised"
    /\ UNCHANGED <<answer, task, k, out, failed>>

Caller ==
    \/ NoCalendars \/ CallInline \/ InlineReturns \/ InlineRaises
    \/ OpenPool \/ Submit \/ Submitted \/ Collect \/ CollectError
    \/ Cancel \/ Close \/ End

Worker(i) == StartTask(i) \/ FinishTask(i)

Next == Caller \/ \E i \in Cals : Worker(i)

\* Threads are scheduled, and the request timeout ends every fn.
Fairness == WF_vars(Caller) /\ \A i \in 1 .. MaxCals : WF_vars(i \in Cals /\ Worker(i))

Spec == Init /\ [][Next]_vars

FairSpec == Spec /\ Fairness

-----------------------------------------------------------------------------
TypeOK ==
    /\ answer \in Seq(Answers) /\ N <= MaxCals
    /\ task \in [Cals -> TaskStates]
    /\ phase \in Phases
    /\ k \in 0 .. MaxCals + 1
    /\ out \in Seq(Results)
    /\ failed \in 0 .. MaxCals

(* When the tool call ends, no worker of it is still talking to Tessera with *)
(* the request's client, and none will start.                                *)
QuietAtEnd ==
    phase \in {"returned", "raised"} =>
        \A i \in Cals : task[i] \in {"none", "ok", "error", "cancelled"}
                        /\ (phase = "returned" => task[i] = "ok")

(* "fn's first raised error propagates": of several calendars that fail, in  *)
(* whatever order their workers finish, the first in calendar order is the   *)
(* one raised, and a call returns only if none failed.                       *)
FirstErrorWins ==
    /\ phase = "raised" => /\ answer[failed] = Error
                           /\ \A i \in 1 .. failed - 1 : answer[i] # Error
    /\ phase = "returned" => out = answer

(* Once the remaining futures are cancelled no further calendar is asked.    *)
NoStartWhenClosing ==
    [][phase = "closing" => Running' \subseteq Running]_vars

Serial == INSTANCE SerialMap WITH
    status <- IF phase \in {"returned", "raised"} THEN phase ELSE "running",
    failed <- IF phase = "raised" THEN failed ELSE 0

(* "parity with the prior serial loop": seen from the tool, the concurrent   *)
(* map is the serial loop, and ends whenever the serial loop does.           *)
ImplementsSerialMap == Serial!Spec
=============================================================================
