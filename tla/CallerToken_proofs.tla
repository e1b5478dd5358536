------------------------ MODULE CallerToken_proofs ------------------------
(***************************************************************************)
(* Proofs about the shared caller token, for any number of threads, and    *)
(* any lifetime, expires_in and delays that TimingAssumption allows.       *)
(***************************************************************************)
EXTENDS CallerToken, TLAPS

USE DEF NoToken, Instants

(* What the theorems below rest on, as one inductive invariant: no step      *)
(* of get() takes longer than allowed, and each phase's view of the clock is *)
(* not too far ahead of the token that is cached then.                       *)
Prompt(t) ==
    /\ since[t] <= now
    /\ pc[t] = "answered" => now <= since[t] + NetLag
    /\ pc[t] \in Running => now <= since[t] + Stall

Local(t) ==
    /\ pc[t] \in {"compare", "answered", "write"} => local[t] = since[t]
    /\ pc[t] = "store" => local[t] # NoToken /\ since[t] <= local[t] + NetLag
    /\ pc[t] = "sent" => local[t] # NoToken /\ since[t] < local[t] + Lifetime

Cached(t) ==
    /\ pc[t] \in {"compare", "fast", "stamp", "write", "return"} => tok # NoToken
    /\ pc[t] = "fast" => since[t] + Stall < tok + Lifetime
    /\ pc[t] = "stamp" => since[t] <= tok + NetLag + Stall
    /\ pc[t] = "write" => since[t] <= tok + NetLag + 2 * Stall
    /\ pc[t] = "return" => since[t] <= tok + NetLag + 3 * Stall

IInv ==
    /\ TypeOK
    /\ exp <= now + Stated
    /\ ExpiryNotOverstated
    /\ \A t \in Threads : Prompt(t) /\ Local(t) /\ Cached(t)

\* What WriteExpiry adds expires_in to is a clock value.
ClockRead == \A t \in Threads : pc[t] = "write" => local[t] # NoToken

(* Every field keeps its type, in every interleaving of the threads of get().*)
THEOREM TypeCorrect == Spec => []TypeOK
<1>1. Init => TypeOK /\ ClockRead
  BY TimingAssumption DEF Init, TypeOK, Phases, ClockRead
<1>2. TypeOK /\ ClockRead /\ [Next]_vars => TypeOK' /\ ClockRead'
  <2> SUFFICES ASSUME TypeOK, ClockRead, [Next]_vars PROVE TypeOK' /\ ClockRead'
    OBVIOUS
  <2> USE TimingAssumption DEF TypeOK, ClockRead, Phases, Goto
  <2>1. ASSUME NEW t \in Threads, Look(t) PROVE TypeOK' /\ ClockRead'
    BY <2>1 DEF Look
  <2>2. ASSUME NEW t \in Threads, Compare(t) PROVE TypeOK' /\ ClockRead'
    BY <2>2 DEF Compare
  <2>3. ASSUME NEW t \in Threads, ReturnFast(t) \/ ReturnMinted(t) PROVE TypeOK' /\ ClockRead'
    BY <2>3 DEF ReturnFast, ReturnMinted
  <2>4. ASSUME NEW t \in Threads, Issue(t) \/ MintFails(t) \/ Arrive(t) PROVE TypeOK' /\ ClockRead'
    BY <2>4 DEF Issue, MintFails, Arrive
  <2>5. ASSUME NEW t \in Threads, StoreToken(t) PROVE TypeOK' /\ ClockRead'
    BY <2>5 DEF StoreToken
  <2>6. ASSUME NEW t \in Threads, ReadClock(t) \/ BadExpiresIn(t) PROVE TypeOK' /\ ClockRead'
    BY <2>6 DEF ReadClock, BadExpiresIn
  <2>7. ASSUME NEW t \in Threads, WriteExpiry(t) PROVE TypeOK' /\ ClockRead'
    BY <2>7 DEF WriteExpiry
  <2>8. ASSUME NEW t \in Threads, EndHop(t) PROVE TypeOK' /\ ClockRead'
    BY <2>8 DEF EndHop
  <2>9. CASE Tick
    BY <2>9 DEF Tick
  <2>10. CASE UNCHANGED vars
    BY <2>10 DEF vars
  <2>11. QED
    BY <2>1, <2>2, <2>3, <2>4, <2>5, <2>6, <2>7, <2>8, <2>9, <2>10
    DEF Next, Advance
<1>3. QED BY <1>1, <1>2, PTL DEF Spec

(* A step that leaves the clock and the cached token alone keeps what is known *)
(* of every other thread. *)
LEMMA OthersKept ==
    ASSUME NEW t \in Threads, NEW u \in Threads, u # t,
           TypeOK, Prompt(u), Local(u), Cached(u),
           NEW from, NEW to, NEW v, Goto(t, from, to, v),
           now' = now, tok' = tok
    PROVE  Prompt(u)' /\ Local(u)' /\ Cached(u)'
<1>1. pc'[u] = pc[u] /\ local'[u] = local[u] /\ since'[u] = since[u]
  BY DEF Goto, TypeOK
<1>2. QED BY <1>1 DEF Prompt, Local, Cached

(* So such a step keeps the invariant when it keeps it for its own thread. *)
LEMMA StepOfOne ==
    ASSUME IInv, TypeOK', NEW t \in Threads,
           NEW from, NEW to, NEW v, Goto(t, from, to, v),
           now' = now, tok' = tok,
           exp' <= now + Stated, ExpiryNotOverstated',
           Prompt(t)' /\ Local(t)' /\ Cached(t)'
    PROVE  IInv'
<1>1. ASSUME NEW u \in Threads PROVE Prompt(u)' /\ Local(u)' /\ Cached(u)'
  <2>1. CASE u = t BY <2>1
  <2>2. CASE u # t BY <2>2, OthersKept DEF IInv
  <2>3. QED BY <2>1, <2>2
<1>2. QED BY <1>1 DEF IInv

(* The relation between clock, cached token and every thread's progress is *)
(* kept by every step. *)
LEMMA Inductive == IInv /\ TypeOK' /\ [Next]_vars => IInv'
<1> SUFFICES ASSUME IInv, TypeOK', [Next]_vars PROVE IInv'
  OBVIOUS
<1> USE TimingAssumption
<1>0. /\ TypeOK
      /\ now \in Int /\ exp \in Int /\ tok \in Int
      /\ exp <= now + Stated
      /\ ExpiryNotOverstated
      /\ \A t \in Threads : /\ Prompt(t) /\ Local(t) /\ Cached(t)
                            /\ since[t] \in Int /\ local[t] \in Int
  BY DEF IInv, TypeOK
<1>1. ASSUME NEW t \in Threads, Look(t) PROVE IInv'
  <2>1. now' = now /\ tok' = tok /\ exp' = exp
    BY <1>1 DEF Look
  <2>2. CASE tok = NoToken
    <3>1. Goto(t, "idle", "post", NoToken)
      BY <1>1, <2>2 DEF Look
    <3>2. Prompt(t)' /\ Local(t)' /\ Cached(t)'
      BY <1>0, <2>1, <3>1 DEF Goto, Prompt, Local, Cached, TypeOK, Running
    <3>3. QED BY <1>0, <2>1, <3>1, <3>2, StepOfOne DEF ExpiryNotOverstated
  <2>3. CASE tok # NoToken
    <3>1. Goto(t, "idle", "compare", now)
      BY <1>1, <2>3 DEF Look
    <3>2. Prompt(t)' /\ Local(t)' /\ Cached(t)'
      BY <1>0, <2>1, <2>3, <3>1 DEF Goto, Prompt, Local, Cached, TypeOK, Running
    <3>3. QED BY <1>0, <2>1, <3>1, <3>2, StepOfOne DEF ExpiryNotOverstated
  <2>4. QED BY <2>2, <2>3
<1>2. ASSUME NEW t \in Threads, Compare(t) PROVE IInv'
  <2> DEFINE to == IF Fresh(t) THEN "fast" ELSE "post"
  <2>1. now' = now /\ tok' = tok /\ exp' = exp /\ Goto(t, "compare", to, NoToken)
    BY <1>2 DEF Compare
  <2>2. tok # NoToken /\ local[t] = since[t] /\ now <= since[t] + Stall
    BY <1>0, <2>1 DEF Goto, Prompt, Local, Cached, Running
  <2>3. Fresh(t) => now + Stall < tok + Lifetime
    BY <1>0, <2>2 DEF Fresh, ExpiryNotOverstated
  <2>4. Prompt(t)' /\ Local(t)' /\ Cached(t)'
    BY <1>0, <2>1, <2>2, <2>3 DEF Goto, Prompt, Local, Cached, TypeOK, Running
  <2>5. QED BY <1>0, <2>1, <2>4, StepOfOne DEF ExpiryNotOverstated
<1>3. ASSUME NEW t \in Threads, ReturnFast(t) \/ ReturnMinted(t) PROVE IInv'
  <2>1. PICK from \in {"fast", "return"} : Goto(t, from, "sent", tok)
    BY <1>3 DEF ReturnFast, ReturnMinted
  <2>2. now' = now /\ tok' = tok /\ exp' = exp
    BY <1>3 DEF ReturnFast, ReturnMinted
  <2>3. now < tok + Lifetime /\ tok # NoToken
    BY <1>0, <2>1 DEF Goto, Prompt, Cached, Running
  <2>4. Prompt(t)' /\ Local(t)' /\ Cached(t)'
    BY <1>0, <2>1, <2>2, <2>3 DEF Goto, Prompt, Local, Cached, TypeOK, Running
  <2>5. QED BY <1>0, <2>1, <2>2, <2>4, StepOfOne DEF ExpiryNotOverstated
<1>4. ASSUME NEW t \in Threads,
             Issue(t) \/ MintFails(t) \/ Arrive(t) \/ ReadClock(t)
               \/ BadExpiresIn(t) \/ EndHop(t)
      PROVE  IInv'
  <2>1. now' = now /\ tok' = tok /\ exp' = exp
    BY <1>4 DEF Issue, MintFails, Arrive, ReadClock, BadExpiresIn, EndHop
  <2>2. PICK from, to, v : Goto(t, from, to, v)
    BY <1>4 DEF Issue, MintFails, Arrive, ReadClock, BadExpiresIn, EndHop
  <2>3. CASE Issue(t)
    <3>1. Prompt(t)' /\ Local(t)' /\ Cached(t)'
      BY <1>0, <2>1, <2>3
      DEF Issue, Goto, Prompt, Local, Cached, TypeOK, Running
    <3>2. QED BY <1>0, <2>1, <2>2, <3>1, StepOfOne DEF ExpiryNotOverstated
  <2>4. CASE MintFails(t) \/ BadExpiresIn(t) \/ EndHop(t)
    <3>1. Prompt(t)' /\ Local(t)' /\ Cached(t)'
      BY <1>0, <2>1, <2>4
      DEF MintFails, BadExpiresIn, EndHop, Goto, Prompt, Local, Cached, TypeOK, Running
    <3>2. QED BY <1>0, <2>1, <2>2, <3>1, StepOfOne DEF ExpiryNotOverstated
  <2>5. CASE Arrive(t)
    <3>1. Prompt(t)' /\ Local(t)' /\ Cached(t)'
      BY <1>0, <2>1, <2>5
      DEF Arrive, Goto, Prompt, Local, Cached, TypeOK, Running
    <3>2. QED BY <1>0, <2>1, <2>2, <3>1, StepOfOne DEF ExpiryNotOverstated
  <2>6. CASE ReadClock(t)
    <3>1. Prompt(t)' /\ Local(t)' /\ Cached(t)'
      BY <1>0, <2>1, <2>6
      DEF ReadClock, Goto, Prompt, Local, Cached, TypeOK, Running
    <3>2. QED BY <1>0, <2>1, <2>2, <3>1, StepOfOne DEF ExpiryNotOverstated
  <2>7. QED BY <1>4, <2>3, <2>4, <2>5, <2>6
<1>5. ASSUME NEW t \in Threads, StoreToken(t) PROVE IInv'
  <2>1. now' = now /\ exp' = exp /\ tok' = local[t] /\ Goto(t, "store", "stamp", NoToken)
    BY <1>5 DEF StoreToken
  <2>2. local[t] # NoToken /\ now <= local[t] + NetLag + Stall
    BY <1>0, <2>1 DEF Goto, Prompt, Local, Running
  <2>3. Prompt(t)' /\ Local(t)' /\ Cached(t)'
    BY <1>0, <2>1, <2>2 DEF Goto, Prompt, Local, Cached, TypeOK, Running
  <2>4. ASSUME NEW u \in Threads, u # t PROVE Prompt(u)' /\ Local(u)' /\ Cached(u)'
    <3>1. pc'[u] = pc[u] /\ local'[u] = local[u] /\ since'[u] = since[u]
      BY <2>1, <2>4, <1>0 DEF Goto, TypeOK
    <3>2. since[u] <= now /\ Prompt(u) /\ Local(u)
      BY <1>0 DEF Prompt
    <3>3. QED BY <1>0, <2>1, <2>2, <3>1, <3>2 DEF Prompt, Local, Cached
  <2>5. ExpiryNotOverstated'
    BY <1>0, <2>1, <2>2 DEF ExpiryNotOverstated
  <2>6. QED BY <1>0, <2>1, <2>3, <2>4, <2>5 DEF IInv
<1>6. ASSUME NEW t \in Threads, WriteExpiry(t) PROVE IInv'
  <2>1. /\ now' = now /\ tok' = tok /\ exp' = local[t] + Stated
        /\ Goto(t, "write", "return", NoToken)
    BY <1>6 DEF WriteExpiry
  <2>2. /\ local[t] = since[t] /\ since[t] <= now /\ now <= since[t] + Stall
        /\ since[t] <= tok + NetLag + 2 * Stall /\ tok # NoToken
    BY <1>0, <2>1 DEF Goto, Prompt, Local, Cached, Running
  <2>3. Prompt(t)' /\ Local(t)' /\ Cached(t)'
    BY <1>0, <2>1, <2>2 DEF Goto, Prompt, Local, Cached, TypeOK, Running
  <2>4. exp' <= now + Stated /\ ExpiryNotOverstated'
    BY <1>0, <2>1, <2>2 DEF ExpiryNotOverstated
  <2>5. QED BY <1>0, <2>1, <2>3, <2>4, StepOfOne
<1>7. CASE Tick
  <2>1. now' = now + 1 /\ UNCHANGED <<tok, exp, pc, local, since, hops>>
    BY <1>7 DEF Tick
  <2>2. ASSUME NEW t \in Threads PROVE Prompt(t)' /\ Local(t)' /\ Cached(t)'
    <3>1. MayWait(t)
      BY <1>7 DEF Tick
    <3>2. QED BY <1>0, <2>1, <3>1 DEF MayWait, Prompt, Local, Cached, Running
  <2>3. QED BY <1>0, <2>1, <2>2 DEF IInv, ExpiryNotOverstated
<1>8. CASE UNCHANGED vars
  BY <1>8 DEF vars, IInv, ExpiryNotOverstated, Prompt, Local, Cached, TypeOK
<1>9. QED
  BY <1>1, <1>2, <1>3, <1>4, <1>5, <1>6, <1>7, <1>8 DEF Next, Advance

(* The invariant holds in every reachable state. *)
LEMMA Invariant == Spec => []IInv
<1>1. Init => IInv
  BY TimingAssumption
  DEF Init, IInv, TypeOK, Phases, ExpiryNotOverstated, Prompt, Local, Cached, Running
<1>2. QED BY <1>1, TypeCorrect, Inductive, PTL DEF Spec

(* get() never returns an expired token, whichever way the mints of several   *)
(* threads interleave, as long as the 60 s margin covers the token endpoint's *)
(* delay and four scheduling delays, and a token lasts as long as stated, or  *)
(* an hour where nothing is stated (TimingAssumption). *)
THEOREM ReturnedTokenValid == Spec => []ValidAtReturn
<1>1. IInv => ValidAtReturn
  BY DEF IInv, ValidAtReturn, Local
<1>2. QED BY <1>1, Invariant, PTL

(* However _tok and _exp of different mints are paired, the cached expiry     *)
(* exceeds the one stated for the cached token by less than the margin. *)
THEOREM PairNeverOverstated == Spec => []ExpiryNotOverstated
<1>1. IInv => ExpiryNotOverstated
  BY DEF IInv
<1>2. QED BY <1>1, Invariant, PTL

(* No write of _exp, by however slow a thread, takes back more than one       *)
(* scheduling delay of the freshness already recorded. *)
THEOREM FreshnessKept == Spec => ExpiryKept
<1>1. IInv /\ [Next]_vars => [exp' >= exp - Stall]_vars
  <2> SUFFICES ASSUME IInv, [Next]_vars PROVE exp' >= exp - Stall
    OBVIOUS
  <2>1. exp \in Int /\ Stall \in Nat /\ now \in Int /\ Stated \in Nat
    BY TimingAssumption DEF IInv, TypeOK
  <2>2. CASE \E t \in Threads : WriteExpiry(t)
    <3>1. PICK t \in Threads : WriteExpiry(t)
      BY <2>2
    <3>2. local[t] = since[t] /\ now <= since[t] + Stall /\ since[t] \in Int
      BY <3>1 DEF WriteExpiry, Goto, IInv, Prompt, Local, Running, TypeOK
    <3>3. exp' = local[t] + Stated /\ exp <= now + Stated
      BY <3>1 DEF WriteExpiry, IInv
    <3>4. QED BY <2>1, <3>2, <3>3
  <2>3. CASE ~ \E t \in Threads : WriteExpiry(t)
    <3>1. exp' = exp
      BY <2>3 DEF Next, Advance, Look, Compare, ReturnFast, ReturnMinted, Issue,
        MintFails, Arrive, StoreToken, ReadClock, BadExpiresIn, EndHop, Tick, vars
    <3>2. QED BY <2>1, <3>1
  <2>4. QED BY <2>2, <2>3
<1>2. QED BY <1>1, Invariant, PTL DEF Spec, ExpiryKept
=============================================================================
