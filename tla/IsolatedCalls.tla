--------------------------- MODULE IsolatedCalls ---------------------------
(***************************************************************************)
(* What the application promises each person (apple_mcp/app.py and         *)
(* context.py): their request is served as if nobody else were there.  Its *)
(* tool runs at most once, for the person who sent it or with the owner's  *)
(* own credentials, and success is answered only when the tool has run.    *)
(* There are no threads here, no queue, no context and no shared caller.   *)
(***************************************************************************)
CONSTANTS Slots,        \* bound: requests at one time
          Requests,     \* [surface, tool, bearer]
          Nothing,      \* the request of a free slot
          Nobody        \* [kind, obo] of a slot whose tool does not run

VARIABLES guarded,      \* guarded direct mode, for the life of the process
          asked,        \* what each request asks
          stage,        \* "free", "asked" or "running"
          acting,       \* for whom its tool runs, and through which client
          reply         \* the last answer given in each slot

vars == <<guarded, asked, stage, acting, reply>>

Init ==
    /\ guarded \in BOOLEAN
    /\ asked = [r \in Slots |-> Nothing]
    /\ stage = [r \in Slots |-> "free"]
    /\ acting = [r \in Slots |-> Nobody]
    /\ reply = [r \in Slots |-> "none"]

Ask(r) ==
    /\ stage[r] = "free"
    /\ stage' = [stage EXCEPT ![r] = "asked"]
    /\ \E in \in Requests : asked' = [asked EXCEPT ![r] = in]
    /\ reply' = [reply EXCEPT ![r] = "none"]
    /\ UNCHANGED <<guarded, acting>>

\* The one identity a request may act with.
Own(r) ==
    IF guarded THEN [Nobody EXCEPT !.kind = "direct"]
    ELSE [kind |-> "tessera", obo |-> asked[r].bearer]

Run(r) ==
    /\ stage[r] = "asked" /\ asked[r].surface # "probe"
    /\ guarded => asked[r].tool # "create_event"
    /\ stage' = [stage EXCEPT ![r] = "running"]
    /\ acting' = [acting EXCEPT ![r] = Own(r)]
    /\ UNCHANGED <<guarded, asked, reply>>

\* Success, in the words of the surface the request came in on.
Successes(r) ==
    CASE asked[r].surface = "mcp" -> {"text"}
      [] asked[r].surface = "openapi" -> {"200"}
      [] OTHER -> {}

Failures(r) ==
    CASE asked[r].surface = "mcp" -> {"isError"}
      [] asked[r].surface = "openapi" -> {"502", "500"}
      [] OTHER -> {}

Probed(r) == IF asked[r].surface = "probe" THEN {"200", "503"} ELSE {}

Replies(r) ==
    Failures(r) \cup Probed(r) \cup (IF stage[r] = "running" THEN Successes(r) ELSE {})

Reply(r) ==
    /\ stage[r] # "free"
    /\ \E what \in Replies(r) : reply' = [reply EXCEPT ![r] = what]
    /\ stage' = [stage EXCEPT ![r] = "free"]
    /\ asked' = [asked EXCEPT ![r] = Nothing]
    /\ acting' = [acting EXCEPT ![r] = Nobody]
    /\ UNCHANGED guarded

Next == \E r \in Slots : Ask(r) \/ Run(r) \/ Reply(r)

Safety == Init /\ [][Next]_vars
=============================================================================
