---------------------------- MODULE CallerToken ----------------------------
(***************************************************************************)
(* The caller token of apple_mcp/tessera_caldav.py: one _CallerToken       *)
(* object, without a lock, used by every thread that sends a hop to        *)
(* Tessera.  The request's own thread uses it while it discovers the       *)
(* calendars, then the workers of _map_calendars use it concurrently.      *)
(*                                                                         *)
(* get() is cut into one action per read or write of the shared fields     *)
(* _tok and _exp and of the clock, since another thread may run between    *)
(* any two of them.  A token is named by the instant at which the identity *)
(* provider issued it: it is accepted before that instant + Lifetime.      *)
(***************************************************************************)
EXTENDS Integers

CONSTANTS
    Threads,    \* the threads that share the object
    Leader,     \* Leader[t] = t for a request's own thread; else its request's
    Lifetime,   \* how long the identity provider accepts a token
    Stated,     \* expires_in of its answers, or 3600 if it does not state it
    Margin,     \* the 60 s of get()'s freshness test
    NetLag,     \* longest time between issue and arrival of a token
    Stall,      \* longest time between two adjacent statements of get()
    Hops,       \* bound: hops each thread sends
    MaxTime     \* bound of the clock

ASSUME TimingAssumption ==
    /\ Lifetime \in Nat /\ Margin \in Nat /\ NetLag \in Nat /\ Stall \in Nat
    /\ MaxTime \in Nat /\ Hops \in Nat
    /\ Stated \in Nat /\ Stated <= Lifetime
    /\ NetLag + 4 * Stall <= Margin
    /\ NetLag + 4 * Stall < Lifetime

ASSUME LeaderAssumption ==
    /\ Leader \in [Threads -> Threads]
    /\ \A t \in Threads : Leader[Leader[t]] = Leader[t]

VARIABLES
    now,        \* the wall clock, time.time()
    tok,        \* self._tok
    exp,        \* self._exp
    pc,         \* where each thread is in get()
    local,      \* the one value a thread has at hand: the clock it has read,
                \* the token of its response, or the token get() returned
    since,      \* when each thread in get() or in its hop reached its pc
    hops        \* hops each thread has sent

vars == <<now, tok, exp, pc, local, since, hops>>

NoToken == -1                          \* the empty string of __init__

Phases == {"idle", "compare", "fast", "post", "answered", "store",
           "stamp", "write", "return", "sent", "failed"}

\* Inside get() with nothing to wait for: only the scheduler delays the thread.
Running == {"compare", "fast", "store", "stamp", "write", "return"}
Minting == {"post", "answered", "store", "stamp", "write", "return"}

Init ==
    /\ now = 0
    /\ tok = NoToken
    /\ exp = 0
    /\ pc = [t \in Threads |-> "idle"]
    /\ local = [t \in Threads |-> NoToken]
    /\ since = [t \in Threads |-> 0]
    /\ hops = [t \in Threads |-> 0]

\* Thread t moves on, with v at hand.
Goto(t, from, to, v) ==
    /\ pc[t] = from
    /\ pc' = [pc EXCEPT ![t] = to]
    /\ local' = [local EXCEPT ![t] = v]
    /\ since' = [since EXCEPT ![t] =
                    IF to \in {"idle", "post", "failed"} THEN 0 ELSE now]

\* A worker runs only after its request's thread has discovered the calendars.
MayStart(t) ==
    /\ hops[t] < Hops
    /\ \/ Leader[t] = t
       \/ hops[Leader[t]] = Hops /\ pc[Leader[t]] = "idle"

\* `if self._tok and time.time() ...`: without a token the clock is not read.
Look(t) ==
    /\ MayStart(t)
    /\ \/ tok = NoToken /\ Goto(t, "idle", "post", NoToken)
       \/ tok # NoToken /\ Goto(t, "idle", "compare", now)
    /\ UNCHANGED <<now, tok, exp, hops>>

\* Mutant: without the margin.
FreshNoMargin(t) == local[t] < exp

\* `... < self._exp - 60`, with the clock value read in Look.
Fresh(t) == local[t] < exp - Margin

Compare(t) ==
    /\ Goto(t, "compare", IF Fresh(t) THEN "fast" ELSE "post", NoToken)
    /\ UNCHANGED <<now, tok, exp, hops>>

\* `return self._tok`, on either path: the field is read again.
ReturnFast(t) ==
    /\ Goto(t, "fast", "sent", tok)
    /\ UNCHANGED <<now, tok, exp, hops>>

ReturnMinted(t) ==
    /\ Goto(t, "return", "sent", tok)
    /\ UNCHANGED <<now, tok, exp, hops>>

\* The identity provider answers the POST with a new token.
Issue(t) ==
    /\ Goto(t, "post", "answered", now)
    /\ UNCHANGED <<now, tok, exp, hops>>

\* Mutants: a failed mint prolongs the old token; forgets it; never comes,
\* since the POST has no timeout.
MintFailsOver(t) ==
    /\ Goto(t, "post", "failed", NoToken)
    /\ exp' = IF tok = NoToken THEN exp ELSE now + Stated
    /\ UNCHANGED <<now, tok, hops>>

MintFailsReset(t) ==
    /\ Goto(t, "post", "failed", NoToken)
    /\ exp' = 0
    /\ UNCHANGED <<now, tok, hops>>

MintWaits(t) ==
    /\ Goto(t, "answered", "failed", NoToken)
    /\ UNCHANGED <<now, tok, exp, hops>>

\* No usable answer: an HTTP error, unreachable, the opener's timeout, or no
\* access_token in the body.  get() raises and leaves both fields alone.
MintFails(t) ==
    /\ \/ Goto(t, "post", "failed", NoToken)
       \/ Goto(t, "answered", "failed", NoToken)
    /\ UNCHANGED <<now, tok, exp, hops>>

\* The answer reaches the thread.
Arrive(t) ==
    /\ Goto(t, "answered", "store", local[t])
    /\ UNCHANGED <<now, tok, exp, hops>>

\* `self._tok = token`
StoreToken(t) ==
    /\ Goto(t, "store", "stamp", NoToken)
    /\ tok' = local[t]
    /\ UNCHANGED <<now, exp, hops>>

\* `time.time() + float(data.get("expires_in", 3600))`: the clock, then the
\* conversion, which raises for an expires_in that is no number, after _tok
\* has been replaced.
ReadClock(t) ==
    /\ Goto(t, "stamp", "write", now)
    /\ UNCHANGED <<now, tok, exp, hops>>

BadExpiresIn(t) ==
    /\ Goto(t, "stamp", "failed", NoToken)
    /\ UNCHANGED <<now, tok, exp, hops>>

\* Mutant: the margin is added.
WriteLaterExpiry(t) ==
    /\ Goto(t, "write", "return", NoToken)
    /\ exp' = local[t] + Stated + Margin
    /\ UNCHANGED <<now, tok, hops>>

\* `self._exp = ...`
WriteExpiry(t) ==
    /\ Goto(t, "write", "return", NoToken)
    /\ exp' = local[t] + Stated
    /\ UNCHANGED <<now, tok, hops>>

\* The hop that needed the token has been answered.
EndHop(t) ==
    /\ Goto(t, "sent", "idle", NoToken)
    /\ hops' = [hops EXCEPT ![t] = @ + 1]
    /\ UNCHANGED <<now, tok, exp>>

\* How long a thread may stay where it is.
MayWait(t) ==
    /\ pc[t] = "answered" => now - since[t] < NetLag
    /\ pc[t] \in Running => now - since[t] < Stall

Tick ==
    /\ now < MaxTime
    /\ \A t \in Threads : MayWait(t)
    /\ now' = now + 1
    /\ UNCHANGED <<tok, exp, pc, local, since, hops>>

\* The steps a thread takes by itself; Issue and Look depend on others.
Advance(t) ==
    \/ Compare(t) \/ ReturnFast(t) \/ ReturnMinted(t)
    \/ Arrive(t) \/ StoreToken(t) \/ ReadClock(t) \/ BadExpiresIn(t) \/ WriteExpiry(t)
    \/ MintFails(t)

Next ==
    \/ \E t \in Threads : Look(t) \/ Issue(t) \/ EndHop(t) \/ Advance(t)
    \/ Tick

\* Threads are scheduled, and the opener's timeout ends a POST that gets no
\* answer; nothing makes the identity provider answer or a new get() start.
Fairness == \A t \in Threads : WF_vars(Advance(t))

Spec == Init /\ [][Next]_vars

FairSpec == Spec /\ Fairness

-----------------------------------------------------------------------------
Instants == 0 .. MaxTime

TypeOK ==
    /\ now \in Instants
    /\ tok \in Instants \cup {NoToken}
    /\ exp \in 0 .. MaxTime + Stated
    /\ pc \in [Threads -> Phases]
    /\ local \in [Threads -> Instants \cup {NoToken}]
    /\ since \in [Threads -> Instants]
    /\ hops \in [Threads -> Nat]

(* "Return a valid caller token" (get): whatever the interleaving of several *)
(* mints, the token a get() returns has not expired when it is returned.     *)
ValidAtReturn ==
    \A t \in Threads :
        pc[t] = "sent" =>
            local[t] # NoToken /\ since[t] < local[t] + Lifetime

(* _tok and _exp are written separately, so the pair may belong to two       *)
(* different tokens; the cached expiry never exceeds that stated for the     *)
(* cached token by more than the lag the margin of 60 s leaves room for.     *)
ExpiryNotOverstated ==
    tok # NoToken => exp <= tok + Stated + NetLag + 2 * Stall

(* A stampede is bounded: a write of _exp by a slower thread never takes     *)
(* back more than one scheduling delay of the freshness already recorded.    *)
ExpiryKept == [][exp' >= exp - Stall]_vars

(* get() always ends: no thread waits for another one, and a silent token    *)
(* endpoint ends in an error.                                                *)
GetEnds ==
    \A t \in Threads :
        pc[t] \in Running \cup Minting ~> pc[t] \in {"sent", "failed"}

(* service.py, _map_calendars: "the caller token is already cached by the    *)
(* preceding principal discovery, so the threads only hit its read-only fast *)
(* path": a worker never asks for a new token.                               *)
WorkersOnlyReadCache ==
    \A t \in Threads : Leader[t] # t => pc[t] \notin Minting
=============================================================================
