--------------------------- MODULE FanOut_proofs ---------------------------
(***************************************************************************)
(* Proofs about the fan-out over calendars, for any number of calendars,   *)
(* any pool of at least two workers and any results.                       *)
(***************************************************************************)
EXTENDS FanOut, TLAPS

USE PoolAssumption, ErrorAssumption DEF Cals, N

(* The inductive invariant: what the calling thread has collected            *)
(* agrees with the answers, and each phase has settled the futures it leaves *)
(* behind.                                                                   *)
TasksAgree ==
    \A i \in Cals : /\ task[i] = "ok" => answer[i] # Error
                    /\ task[i] = "error" => answer[i] = Error

Collected ==
    /\ Len(out) <= N
    /\ \A i \in 1 .. Len(out) : out[i] = answer[i] /\ task[i] = "ok"

Opening ==
    /\ phase \in {"start", "inline", "submit"} => out = <<>> /\ failed = 0
    /\ phase = "start" => k = 1 /\ \A i \in Cals : task[i] = "none"
    /\ phase = "inline" => N = 1 /\ task[1] \in {"running", "ok", "error"}
    /\ phase = "submit" =>
          /\ k >= 1
          /\ \A i \in Cals : task[i] # "cancelled" /\ (i < k => task[i] # "none")

Collecting ==
    phase = "collect" =>
        /\ failed = 0 /\ k = Len(out) + 1
        /\ \A i \in Cals : task[i] \notin {"none", "cancelled"}

Failing ==
    /\ phase = "cancel" =>
          /\ failed # 0 /\ failed <= k /\ k <= N
          /\ \A i \in Cals : i > k => task[i] # "queued"
    /\ failed # 0 =>
          /\ failed = Len(out) + 1 /\ failed <= N /\ task[failed] = "error"
          /\ \A i \in Cals : task[i] # "none" /\ (i < failed => task[i] = "ok")

Closing ==
    /\ phase \in {"closing", "raised", "returned"} =>
          /\ failed = 0 => Len(out) = N
          /\ \A i \in Cals : task[i] # "queued"
    /\ phase \in {"raised", "returned"} =>
          /\ phase = "raised" <=> failed # 0
          /\ \A i \in Cals : task[i] # "running"

IInv ==
    /\ TypeOK /\ TasksAgree /\ Collected
    /\ Opening /\ Collecting /\ Failing /\ Closing

(* Every field keeps its type: in particular what is collected is never an *)
(* error. *)
LEMMA TypeStep == IInv /\ [Next]_vars => TypeOK'
<1> SUFFICES ASSUME IInv, [Next]_vars PROVE TypeOK'
  OBVIOUS
<1> USE DEF IInv, TypeOK, TaskStates, Phases
<1>1. CASE NoCalendars \/ OpenPool \/ Submitted
  BY <1>1 DEF NoCalendars, OpenPool, Submitted
<1>2. CASE CallInline
  BY <1>2 DEF CallInline, Move
<1>3. CASE InlineReturns
  <2>1. answer[1] \in Results
    BY <1>3 DEF InlineReturns, TasksAgree, Opening, Answers
  <2>2. QED BY <1>3, <2>1 DEF InlineReturns
<1>4. CASE InlineRaises
  BY <1>4 DEF InlineRaises, Opening
<1>5. CASE Submit
  BY <1>5 DEF Submit, Move
<1>6. CASE Collect
  <2>1. answer[k] \in Results
    BY <1>6 DEF Collect, TasksAgree, Answers
  <2>2. QED BY <1>6, <2>1 DEF Collect
<1>7. CASE CollectError
  BY <1>7 DEF CollectError
<1>8. CASE Cancel
  <2>1. k > failed /\ k' = k - 1 /\ k \in Nat /\ failed \in Nat
    BY <1>8 DEF Cancel
  <2>2. task' = [task EXCEPT ![k] = IF @ = "queued" THEN "cancelled" ELSE @]
    BY <1>8 DEF Cancel
  <2>3. task' \in [Cals -> TaskStates]
    BY <2>2
  <2>4. QED BY <1>8, <2>1, <2>3 DEF Cancel
<1>9. CASE Close \/ End
  BY <1>9 DEF Close, End
<1>10. ASSUME NEW i \in Cals, Worker(i) PROVE TypeOK'
  BY <1>10 DEF Worker, StartTask, FinishTask, Move
<1>11. CASE UNCHANGED vars
  BY <1>11 DEF vars
<1>12. QED
  BY <1>1, <1>2, <1>3, <1>4, <1>5, <1>6, <1>7, <1>8, <1>9, <1>10, <1>11
  DEF Next, Caller

(* A step of a worker changes one future, from queued to running to done, *)
(* and disturbs nothing the calling thread relies on. *)
LEMMA WorkerStep ==
    ASSUME IInv, TypeOK', NEW i \in Cals, Worker(i)
    PROVE  IInv'
<1> USE DEF TypeOK
<1>1. /\ UNCHANGED <<answer, phase, k, out, failed>>
      /\ task' = [task EXCEPT ![i] = task'[i]]
      /\ task[i] \in {"queued", "running"}
      /\ task[i] = "queued" => task'[i] = "running" /\ phase # "inline"
      /\ task[i] = "running" =>
           task'[i] = IF answer[i] = Error THEN "error" ELSE "ok"
  BY DEF Worker, StartTask, FinishTask, Move, IInv
<1>2. TasksAgree' /\ Collected'
  BY <1>1 DEF IInv, TasksAgree, Collected
<1>3. Opening' /\ Collecting'
  BY <1>1 DEF IInv, Opening, Collecting
<1>4. Failing'
  BY <1>1 DEF IInv, Failing
<1>5. Closing'
  BY <1>1 DEF IInv, Closing
<1>6. QED BY <1>2, <1>3, <1>4, <1>5 DEF IInv

(* The calling thread applies fn itself only when there is one calendar. *)
LEMMA InlineMeansOne ==
    Len(answer) \in Nat /\ Len(answer) # 0 /\ Workers <= 1 => N = 1
<1>1. \A n \in Nat :
        n # 0 /\ (IF n < MaxWorkers THEN n ELSE MaxWorkers) <= 1 => n = 1
  OBVIOUS
<1>2. QED BY <1>1, Zenon DEF Workers

(* A step of the calling thread keeps the invariant. *)
LEMMA CallerStep == IInv /\ TypeOK' /\ Caller => IInv'
<1> SUFFICES ASSUME IInv, TypeOK', Caller PROVE IInv'
  OBVIOUS
<1> USE DEF IInv, TypeOK, TasksAgree, Collected, Opening, Collecting, Failing, Closing
<1>1. CASE NoCalendars
  BY <1>1 DEF NoCalendars
<1>2. CASE CallInline
  <2>1. N = 1 /\ phase' = "inline" /\ task' = [task EXCEPT ![1] = "running"]
    <3>1. Len(answer) \in Nat
      OBVIOUS
    <3>2. Len(answer) # 0 /\ Workers <= 1
      BY <1>2 DEF CallInline
    <3>3. N = 1
      BY <3>1, <3>2, InlineMeansOne
    <3>4. QED BY <1>2, <3>3 DEF CallInline, Move
  <2>2. UNCHANGED <<answer, k, out, failed>> /\ out = <<>> /\ failed = 0
    BY <1>2 DEF CallInline
  <2>3. TasksAgree' /\ Collected' /\ Opening'
    BY <2>1, <2>2
  <2>4. Collecting' /\ Failing' /\ Closing'
    BY <2>1, <2>2
  <2>5. QED BY <2>3, <2>4
<1>3. CASE InlineReturns
  <2>1. /\ N = 1 /\ task[1] = "ok" /\ phase' = "closing"
        /\ UNCHANGED <<answer, task, k, failed>> /\ failed = 0
    BY <1>3 DEF InlineReturns
  <2>2. Len(out') = 1 /\ out'[1] = answer[1]
    BY <1>3 DEF InlineReturns
  <2>3. TasksAgree' /\ Collected' /\ Opening'
    BY <2>1, <2>2
  <2>4. Collecting' /\ Failing' /\ Closing'
    BY <2>1, <2>2
  <2>5. QED BY <2>3, <2>4
<1>4. CASE InlineRaises
  <2>1. /\ N = 1 /\ task[1] = "error" /\ phase' = "closing" /\ failed' = 1
        /\ UNCHANGED <<answer, task, k, out>> /\ Len(out) = 0
    BY <1>4 DEF InlineRaises
  <2>2. TasksAgree' /\ Collected' /\ Opening'
    BY <2>1
  <2>3. Collecting' /\ Failing' /\ Closing'
    BY <2>1
  <2>4. QED BY <2>2, <2>3
<1>5. CASE OpenPool
  BY <1>5 DEF OpenPool
<1>6. CASE Submit
  BY <1>6 DEF Submit, Move
<1>7. CASE Submitted
  BY <1>7 DEF Submitted
<1>8. CASE Collect
  BY <1>8 DEF Collect
<1>9. CASE CollectError
  BY <1>9 DEF CollectError
<1>10. CASE Cancel
  <2>1. /\ phase = "cancel" /\ k > failed /\ k' = k - 1 /\ k \in Cals
        /\ failed # 0 /\ UNCHANGED <<answer, phase, out, failed>>
    BY <1>10 DEF Cancel
  <2>2. \A i \in Cals : task'[i] =
          IF i = k /\ task[i] = "queued" THEN "cancelled" ELSE task[i]
    BY <1>10, <2>1 DEF Cancel
  <2>3. TasksAgree' /\ Collected' /\ Opening' /\ Collecting' /\ Closing'
    BY <2>1, <2>2
  <2>4. Failing'
    BY <2>1, <2>2
  <2>5. QED BY <2>3, <2>4
<1>11. CASE Close
  BY <1>11 DEF Close
<1>12. CASE End
  BY <1>12 DEF End
<1>13. QED
  BY <1>1, <1>2, <1>3, <1>4, <1>5, <1>6, <1>7, <1>8, <1>9, <1>10, <1>11, <1>12
  DEF Caller

(* The invariant holds in every reachable state. *)
LEMMA Invariant == Spec => []IInv
<1>1. Init => IInv
  <2> SUFFICES ASSUME Init PROVE IInv
    OBVIOUS
  <2>1. PICK n \in 0 .. MaxCals : answer \in [1 .. n -> Answers]
    BY DEF Init
  <2>2. answer \in Seq(Answers) /\ Len(answer) = n
    BY <2>1
  <2>3. QED
    BY <2>1, <2>2 DEF Init, IInv, TypeOK, TaskStates, Phases, TasksAgree,
      Collected, Opening, Collecting, Failing, Closing
<1>2. IInv /\ [Next]_vars => IInv'
  <2> SUFFICES ASSUME IInv, [Next]_vars PROVE IInv'
    OBVIOUS
  <2>1. TypeOK'
    BY TypeStep
  <2>2. CASE Caller
    BY <2>1, <2>2, CallerStep
  <2>3. CASE \E i \in Cals : Worker(i)
    BY <2>1, <2>3, WorkerStep
  <2>4. CASE UNCHANGED vars
    BY <2>1, <2>4 DEF vars, IInv, TypeOK, TasksAgree, Collected, Opening,
      Collecting, Failing, Closing
  <2>5. QED BY <2>2, <2>3, <2>4 DEF Next
<1>3. QED BY <1>1, <1>2, PTL DEF Spec

(* Every field keeps its type; what is collected is never an error. *)
THEOREM TypeCorrect == Spec => []TypeOK
<1>1. IInv => TypeOK
  BY DEF IInv
<1>2. QED BY <1>1, Invariant, PTL

(* When the tool call ends, every worker of its fan-out has ended too. *)
THEOREM NoWorkerOutlivesCall == Spec => []QuietAtEnd
<1>1. IInv => QuietAtEnd
  BY DEF IInv, TypeOK, TaskStates, QuietAtEnd, Closing, Collected, Opening,
    Collecting, Failing
<1>2. QED BY <1>1, Invariant, PTL

(* No worker starts on a calendar once the pool is shutting down: what the *)
(* call has not collected by then was cancelled or is being finished. *)
THEOREM NothingStartsLate == Spec => NoStartWhenClosing
<1>1. IInv /\ [Next]_vars => [phase = "closing" => Running' \subseteq Running]_vars
  <2> SUFFICES ASSUME IInv, [Next]_vars, phase = "closing"
               PROVE  Running' \subseteq Running
    OBVIOUS
  <2>1. CASE UNCHANGED <<answer, task>>
    BY <2>1 DEF Running
  <2>2. ASSUME NEW i \in Cals, Worker(i) PROVE Running' \subseteq Running
    <3>1. task[i] # "queued"
      BY DEF IInv, Closing
    <3>2. FinishTask(i)
      BY <2>2, <3>1 DEF Worker, StartTask, Move
    <3>3. UNCHANGED answer /\ task' = [task EXCEPT ![i] = task'[i]] /\ task'[i] # "running"
      BY <3>2 DEF FinishTask, Move, IInv, TypeOK
    <3>4. QED BY <3>3 DEF Running, IInv, TypeOK
  <2>3. QED
    BY <2>1, <2>2
    DEF Next, Caller, NoCalendars, CallInline, InlineReturns, InlineRaises, OpenPool,
        Submit, Submitted, Collect, CollectError, Cancel, Close, End, vars
<1>2. QED BY <1>1, Invariant, PTL DEF Spec, NoStartWhenClosing

(* The error a call raises is that of the first failing calendar, and a call *)
(* that returns has every calendar's result, in calendar order. *)
THEOREM FirstErrorIsRaised == Spec => []FirstErrorWins
<1>1. IInv => FirstErrorWins
  <2> SUFFICES ASSUME IInv PROVE FirstErrorWins
    OBVIOUS
  <2>1. CASE phase = "raised"
    BY <2>1 DEF IInv, TypeOK, FirstErrorWins, TasksAgree, Failing, Closing
  <2>2. CASE phase = "returned"
    <3>1. Len(out) = Len(answer) /\ \A i \in 1 .. Len(out) : out[i] = answer[i]
      BY <2>2 DEF IInv, Collected, Closing
    <3>2. out \in Seq(Answers) /\ answer \in Seq(Answers)
      BY DEF IInv, TypeOK, Answers
    <3>3. out = answer
      BY <3>1, <3>2
    <3>4. QED BY <2>2, <3>3 DEF FirstErrorWins
  <2>3. QED BY <2>1, <2>2 DEF FirstErrorWins
<1>2. QED BY <1>1, Invariant, PTL

(* Every step of the concurrent map is a step of the serial loop or leaves *)
(* what the tool can see of it unchanged. *)
THEOREM RefinesSerialMap == Spec => Serial!Safety
<1> DEFINE st == IF phase \in {"returned", "raised"} THEN phase ELSE "running"
           fl == IF phase = "raised" THEN failed ELSE 0
<1>1. Init => Serial!Init
  BY DEF Init, Serial!Init, Serial!Answers, Answers
<1>2. IInv /\ IInv' /\ [Next]_vars => [Serial!Next]_(Serial!vars)
  <2> SUFFICES ASSUME IInv, IInv', [Next]_vars
               PROVE  Serial!Next \/ UNCHANGED Serial!vars
    OBVIOUS
  <2> USE DEF IInv, TypeOK, Serial!Next, Serial!vars, Serial!NextCal
  <2>1. CASE NoCalendars
    BY <2>1 DEF NoCalendars, Serial!Finish, Opening
  <2>2. CASE InlineReturns
    <3>1. 1 \in Cals /\ out = <<>> /\ answer[1] # Error /\ Len(out) = 0
      <4>1. N = 1 /\ out = <<>> /\ task[1] = "ok"
        BY <2>2 DEF InlineReturns, Opening
      <4>2. QED BY <4>1 DEF TasksAgree
    <3>2. out' = Append(out, answer[1])
      BY <2>2, <3>1 DEF InlineReturns
    <3>3. UNCHANGED <<answer, st, fl>> /\ st = "running"
      BY <2>2 DEF InlineReturns
    <3>4. QED BY <3>1, <3>2, <3>3 DEF Serial!Apply
  <2>3. CASE Collect
    <3>1. /\ k = Len(out) + 1 /\ k \in Cals /\ answer[k] # Error
          /\ out' = Append(out, answer[k])
          /\ UNCHANGED <<answer, st, fl>> /\ st = "running"
      BY <2>3 DEF Collect, Collecting, TasksAgree
    <3>2. QED BY <3>1 DEF Serial!Apply
  <2>4. CASE End
    <3>1. CASE failed = 0
      BY <2>4, <3>1 DEF End, Serial!Finish, Closing
    <3>2. CASE failed # 0
      <4>1. failed = Len(out) + 1 /\ failed \in Cals /\ answer[failed] = Error
        BY <3>2 DEF Failing, TasksAgree
      <4>2. QED BY <2>4, <3>2, <4>1 DEF End, Serial!Raise
    <3>3. QED BY <3>1, <3>2
  <2>5. CASE \/ CallInline \/ InlineRaises \/ OpenPool \/ Submit \/ Submitted
             \/ CollectError \/ Cancel \/ Close
    BY <2>5 DEF CallInline, InlineRaises, OpenPool, Submit, Submitted,
      CollectError, Cancel, Close
  <2>6. CASE \E i \in Cals : Worker(i)
    BY <2>6 DEF Worker, StartTask, FinishTask
  <2>7. CASE UNCHANGED vars
    BY <2>7 DEF vars
  <2>8. QED
    BY <2>1, <2>2, <2>3, <2>4, <2>5, <2>6, <2>7 DEF Next, Caller
<1>3. QED BY <1>1, <1>2, Invariant, PTL DEF Spec, Serial!Safety
=============================================================================
