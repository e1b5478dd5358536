------------------------ MODULE RequestScope_proofs ------------------------
(***************************************************************************)
(* Proofs about the application, for any number of overlapping requests,   *)
(* any people, any settings and any pool.                                  *)
(***************************************************************************)
EXTENDS RequestScope, SequenceTheorems, TLAPS

USE EnvironmentAssumption, PoolAssumption, NamesAssumption, InputAssumption
    DEF ContextOf

(* What the code knows of a request at each point: the token set in its    *)
(* context, or passed on, is its own, and each branch of _invoke_tool has  *)
(* tested what the later steps rely on.                                    *)
TokenKept(r) ==
    /\ pc[r] \in {"received", "handed"} => req[r].surface = "mcp"
    /\ pc[r] = "handed" => ctx[r] = req[r].bearer
    /\ pc[r] = "queued" /\ req[r].surface = "mcp" => obo[r] = req[r].bearer
    /\ pc[r] \in Working /\ req[r].surface # "probe" => obo[r] = req[r].bearer

Tested(r) ==
    /\ pc[r] \in {"check", "construct", "bind"} => Known(r) /\ ~env.direct
    /\ pc[r] = "construct" => env.broker
    /\ pc[r] = "bind" => caller # NoCaller

Bound(r) ==
    pc[r] = "calling" =>
        /\ Known(r)
        /\ env.direct => client[r].kind = "direct" /\ Credentials
        /\ ~env.direct =>
              /\ env.broker /\ client[r].kind = "tessera"
              /\ client[r].obo = req[r].bearer /\ client[r].caller # NoCaller

Scoped(r) == TokenKept(r) /\ Tested(r) /\ Bound(r)

IInv ==
    /\ TypeOK
    /\ caller # NoCaller => env.broker
    /\ \A r \in Slots : Scoped(r)

(* The queue holds each waiting request once: when nobody enters or leaves *)
(* it, when one joins it, and when its head leaves. *)
LEMMA NobodyMoves ==
    ASSUME WaitOnce, queue' = queue,
           \A r \in Slots : pc'[r] = "queued" <=> pc[r] = "queued"
    PROVE  WaitOnce'
BY DEF WaitOnce

LEMMA OneJoins ==
    ASSUME WaitOnce, NEW r \in Slots, pc[r] # "queued", queue' = Append(queue, r),
           \A s \in Slots : pc'[s] = "queued" <=> pc[s] = "queued" \/ s = r
    PROVE  WaitOnce'
<1> DEFINE n == Len(queue)
<1>1. /\ queue \in Seq(Slots) /\ n \in Nat
      /\ \A i, j \in 1 .. n : queue[i] = queue[j] => i = j
      /\ \A s \in Slots : pc[s] = "queued" <=> \E i \in 1 .. n : queue[i] = s
  BY DEF WaitOnce
<1>2. /\ queue' \in Seq(Slots) /\ Len(queue') = n + 1
      /\ \A i \in 1 .. n : queue'[i] = queue[i]
      /\ queue'[n + 1] = r
  BY <1>1, AppendProperties
<1>3. \A i \in 1 .. n : queue[i] # r
  BY <1>1
<1> HIDE DEF n
<1>4. \A i, j \in 1 .. n + 1 : queue'[i] = queue'[j] => i = j
  <2>1. \A i \in 1 .. n + 1 : i \in 1 .. n \/ i = n + 1
    BY <1>1
  <2>2. QED BY <1>1, <1>2, <1>3, <2>1
<1>5. \A s \in Slots : pc'[s] = "queued" <=> \E i \in 1 .. n + 1 : queue'[i] = s
  <2>1. \A i \in 1 .. n + 1 : i \in 1 .. n \/ i = n + 1
    BY <1>1
  <2>2. \A i \in 1 .. n : i \in 1 .. n + 1
    BY <1>1
  <2>3. n + 1 \in 1 .. n + 1
    BY <1>1
  <2>4. QED BY <1>1, <1>2, <2>1, <2>2, <2>3
<1>6. QED BY <1>2, <1>4, <1>5 DEF WaitOnce

LEMMA HeadLeaves ==
    ASSUME WaitOnce, queue # <<>>, queue' = Tail(queue),
           \A s \in Slots : pc'[s] = "queued" <=> pc[s] = "queued" /\ s # Head(queue)
    PROVE  WaitOnce'
<1> DEFINE n == Len(queue)
<1>1. /\ queue \in Seq(Slots) /\ n \in Nat
      /\ \A i, j \in 1 .. n : queue[i] = queue[j] => i = j
      /\ \A s \in Slots : pc[s] = "queued" <=> \E i \in 1 .. n : queue[i] = s
  BY DEF WaitOnce
<1>2. /\ queue' \in Seq(Slots) /\ Len(queue') = n - 1 /\ 1 <= n
      /\ \A i \in 1 .. n - 1 : queue'[i] = queue[i + 1]
      /\ Head(queue) = queue[1]
  BY <1>1, HeadTailProperties
<1> HIDE DEF n
<1>3. \A i, j \in 1 .. n - 1 : queue'[i] = queue'[j] => i = j
  BY <1>1, <1>2
<1>4. \A s \in Slots : pc'[s] = "queued" <=> \E i \in 1 .. n - 1 : queue'[i] = s
  <2> TAKE s \in Slots
  <2>1. ASSUME pc'[s] = "queued" PROVE \E i \in 1 .. n - 1 : queue'[i] = s
    <3>1. PICK i \in 1 .. n : queue[i] = s
      BY <1>1, <2>1
    <3>2. i # 1
      BY <1>2, <2>1, <3>1
    <3>3. i - 1 \in 1 .. n - 1 /\ (i - 1) + 1 = i
      BY <1>1, <3>1, <3>2
    <3>4. QED BY <1>2, <3>1, <3>3
  <2>2. ASSUME NEW i \in 1 .. n - 1, queue'[i] = s PROVE pc'[s] = "queued"
    <3>1. i + 1 \in 1 .. n /\ 1 \in 1 .. n /\ i + 1 # 1
      BY <1>1, <1>2, <2>2
    <3>2. queue[i + 1] = s /\ queue[1] # s
      BY <1>1, <1>2, <2>2, <3>1
    <3>3. QED BY <1>1, <1>2, <3>1, <3>2
  <2>3. QED BY <2>1, <2>2
<1>5. QED BY <1>2, <1>3, <1>4 DEF WaitOnce

(* An answer leaves the queue and the globals alone, and clears its slot. *)
LEMMA AnswerTypes ==
    ASSUME TypeOK, NEW r \in Slots, NEW from, from # "queued",
           NEW what \in Answers, Answer(r, from, what)
    PROVE  TypeOK'
<1>1. WaitOnce'
  <2>1. queue' = queue /\ \A s \in Slots : pc'[s] = "queued" <=> pc[s] = "queued"
    BY DEF Answer, Goto, globals, TypeOK
  <2>2. QED BY <2>1, NobodyMoves DEF TypeOK
<1>2. pc' \in [Slots -> Working \cup {"idle", "received", "handed", "queued"}]
  BY DEF TypeOK, Answer, Goto
<1>3. req' \in [Slots -> Requests]
  BY DEF TypeOK, Answer, Health, Requests, Tokens
<1>4. ctx' \in [Slots -> Tokens] /\ obo' \in [Slots -> Tokens]
  BY DEF TypeOK, Answer, Tokens
<1>5. client' \in [Slots -> Clients]
  <2>1. NoClient \in Clients
    BY DEF NoClient, Clients, Tokens
  <2>2. QED BY <2>1 DEF TypeOK, Answer
<1>6. answer' \in [Slots -> Answers] /\ UNCHANGED <<env, caller, captured>>
  BY DEF TypeOK, Answer, globals
<1>7. QED BY <1>1, <1>2, <1>3, <1>4, <1>5, <1>6 DEF TypeOK

(* Whatever ends a request is such an answer. *)
Ending(r) ==
    \/ Probe(r) \/ UnknownTool(r) \/ NoCredentials(r) \/ NotConfigured(r) \/ Ends(r)

LEMMA EndingAnswers ==
    ASSUME TypeOK, NEW r \in Slots, Ending(r)
    PROVE  \E from \in {"entered", "check", "calling"}, what \in Answers :
              Answer(r, from, what)
BY DEF Ending, Probe, UnknownTool, NoCredentials, NotConfigured, Ends, Raises, Answers

(* Every field keeps its type, for any number of requests. *)
LEMMA TypeStep == TypeOK /\ [Next]_vars => TypeOK'
<1> SUFFICES ASSUME TypeOK, [Next]_vars PROVE TypeOK'
  OBVIOUS
<1>1. ASSUME NEW r \in Slots, NEW in \in Inputs, Arrive(r, in) PROVE TypeOK'
  <2>1. WaitOnce'
    <3>1. CASE in.surface = "mcp"
      <4>1. queue' = queue /\ \A s \in Slots : pc'[s] = "queued" <=> pc[s] = "queued"
        BY <1>1, <3>1 DEF Arrive, Goto, TypeOK
      <4>2. QED BY <4>1, NobodyMoves DEF TypeOK
    <3>2. CASE in.surface # "mcp"
      <4>1. /\ queue' = Append(queue, r) /\ pc[r] # "queued"
            /\ \A s \in Slots : pc'[s] = "queued" <=> pc[s] = "queued" \/ s = r
        BY <1>1, <3>2 DEF Arrive, Goto, TypeOK
      <4>2. QED BY <4>1, OneJoins DEF TypeOK
    <3>3. QED BY <3>1, <3>2
  <2>2. pc' \in [Slots -> Working \cup {"idle", "received", "handed", "queued"}]
    BY <1>1 DEF TypeOK, Arrive, Goto
  <2>3. req' \in [Slots -> Requests] /\ ctx' \in [Slots -> Tokens]
    BY <1>1 DEF TypeOK, Arrive, Tokens
  <2>4. answer' \in [Slots -> Answers]
    BY <1>1 DEF TypeOK, Arrive, Answers
  <2>5. QED BY <1>1, <2>1, <2>2, <2>3, <2>4 DEF TypeOK, Arrive, globals
<1>2. ASSUME NEW r \in Slots, SetObo(r) PROVE TypeOK'
  <2>1. queue' = queue /\ \A s \in Slots : pc'[s] = "queued" <=> pc[s] = "queued"
    BY <1>2 DEF SetObo, Goto, TypeOK
  <2>2. WaitOnce'
    BY <2>1, NobodyMoves DEF TypeOK
  <2>3. req[r].bearer \in Tokens
    BY DEF TypeOK, Requests, Tokens
  <2>4. captured' \in Tokens /\ ctx' \in [Slots -> Tokens]
    BY <1>2, <2>3 DEF SetObo, TypeOK, Tokens
  <2>5. pc' \in [Slots -> Working \cup {"idle", "received", "handed", "queued"}]
    BY <1>2 DEF TypeOK, SetObo, Goto
  <2>6. QED BY <1>2, <2>2, <2>4, <2>5 DEF TypeOK, SetObo
<1>3. ASSUME NEW r \in Slots, CallTool(r) PROVE TypeOK'
  <2>1. /\ queue' = Append(queue, r) /\ pc[r] # "queued"
        /\ \A s \in Slots : pc'[s] = "queued" <=> pc[s] = "queued" \/ s = r
    BY <1>3 DEF CallTool, Goto, TypeOK
  <2>2. WaitOnce'
    BY <2>1, OneJoins DEF TypeOK
  <2>3. pc' \in [Slots -> Working \cup {"idle", "received", "handed", "queued"}]
    BY <1>3 DEF TypeOK, CallTool, Goto
  <2>4. QED BY <1>3, <2>2, <2>3 DEF TypeOK, CallTool, globals
<1>4. ASSUME NEW r \in Slots, Enter(r) PROVE TypeOK'
  <2>1. /\ queue # <<>> /\ queue' = Tail(queue) /\ Head(queue) = r
        /\ \A s \in Slots : pc'[s] = "queued" <=> pc[s] = "queued" /\ s # r
    BY <1>4 DEF Enter, Rest, Goto, TypeOK
  <2>2. WaitOnce'
    BY <2>1, HeadLeaves DEF TypeOK
  <2>3. req[r].bearer \in Tokens
    BY DEF TypeOK, Requests, Tokens
  <2>4. obo' \in [Slots -> Tokens]
    BY <1>4, <2>3 DEF TypeOK, Enter
  <2>5. pc' \in [Slots -> Working \cup {"idle", "received", "handed", "queued"}]
    BY <1>4 DEF TypeOK, Enter, Goto, Working
  <2>6. QED BY <1>4, <2>2, <2>4, <2>5 DEF TypeOK, Enter, globals
<1>5. ASSUME NEW r \in Slots, BuildDirect(r) \/ Bind(r) PROVE TypeOK'
  <2>1. queue' = queue /\ \A s \in Slots : pc'[s] = "queued" <=> pc[s] = "queued"
    BY <1>5 DEF BuildDirect, Bind, Goto, TypeOK
  <2>2. WaitOnce'
    BY <2>1, NobodyMoves DEF TypeOK
  <2>3. client' \in [Slots -> Clients]
    <3>1. [NoClient EXCEPT !.kind = "direct"] \in Clients
      BY DEF NoClient, Clients, Tokens
    <3>2. [kind |-> "tessera", caller |-> caller, obo |-> obo[r]] \in Clients
      BY DEF TypeOK, Clients
    <3>3. QED BY <1>5, <3>1, <3>2 DEF TypeOK, BuildDirect, Bind
  <2>4. pc' \in [Slots -> Working \cup {"idle", "received", "handed", "queued"}]
    BY <1>5 DEF TypeOK, BuildDirect, Bind, Goto, Working
  <2>5. QED BY <1>5, <2>2, <2>3, <2>4 DEF TypeOK, BuildDirect, Bind, globals
<1>6. ASSUME NEW r \in Slots, Brokered(r) \/ CheckCaller(r) \/ SetCaller(r) PROVE TypeOK'
  <2>1. queue' = queue /\ \A s \in Slots : pc'[s] = "queued" <=> pc[s] = "queued"
    BY <1>6 DEF Brokered, CheckCaller, SetCaller, Goto, TypeOK
  <2>2. WaitOnce'
    BY <2>1, NobodyMoves DEF TypeOK
  <2>3. pc' \in [Slots -> Working \cup {"idle", "received", "handed", "queued"}]
    BY <1>6 DEF TypeOK, Brokered, CheckCaller, SetCaller, Goto, Working
  <2>4. QED
    BY <1>6, <2>2, <2>3 DEF TypeOK, Brokered, CheckCaller, SetCaller, globals, calls
<1>7. ASSUME NEW r \in Slots, Ending(r) PROVE TypeOK'
  BY <1>7, EndingAnswers, AnswerTypes
<1>8. CASE UNCHANGED vars
  <2>1. WaitOnce'
    BY <1>8, NobodyMoves DEF TypeOK, vars
  <2>2. QED BY <1>8, <2>1 DEF TypeOK, vars, globals, calls
<1>9. QED
  BY <1>1, <1>2, <1>3, <1>4, <1>5, <1>6, <1>7, <1>8 DEF Next, Step, Ending

(* A step touches the fields of one request only, no step changes the      *)
(* settings, and once there is a caller there is one for ever: what was    *)
(* known of the other requests stays true. *)
Others(r) ==
    /\ env' = env /\ (caller # NoCaller => caller' # NoCaller)
    /\ \A s \in Slots \ {r} :
          /\ pc'[s] = pc[s] /\ req'[s] = req[s] /\ ctx'[s] = ctx[s]
          /\ obo'[s] = obo[s] /\ client'[s] = client[s]

LEMMA OthersKept ==
    ASSUME IInv, NEW r \in Slots, Others(r), Scoped(r)',
           (caller # NoCaller => env.broker)', TypeOK'
    PROVE  IInv'
<1>1. ASSUME NEW s \in Slots \ {r} PROVE Scoped(s)'
  <2>1. Scoped(s) /\ s \in Slots
    BY DEF IInv
  <2>2. TokenKept(s)'
    BY <2>1 DEF Others, Scoped, TokenKept
  <2>3. Tested(s)'
    BY <2>1 DEF Others, Scoped, Tested, Known, Tools, WritesEnabled
  <2>4. Bound(s)'
    BY <2>1 DEF Others, Scoped, Bound, Known, Tools, WritesEnabled, Credentials
  <2>5. QED BY <2>2, <2>3, <2>4 DEF Scoped
<1>2. QED BY <1>1 DEF IInv

LEMMA StepOthers ==
    ASSUME TypeOK, NEW r \in Slots,
           Step(r) \/ \E in \in Inputs : Arrive(r, in)
    PROVE  Others(r)
<1> USE DEF TypeOK, Others, Goto, globals, calls
<1>1. CASE \E in \in Inputs : Arrive(r, in)
  BY <1>1 DEF Arrive
<1>2. CASE SetObo(r) \/ CallTool(r) \/ Enter(r)
  BY <1>2 DEF SetObo, CallTool, Enter
<1>3. CASE BuildDirect(r) \/ Bind(r)
  BY <1>3 DEF BuildDirect, Bind
<1>4. CASE Brokered(r) \/ CheckCaller(r)
  BY <1>4 DEF Brokered, CheckCaller
<1>5. CASE SetCaller(r)
  BY <1>5 DEF SetCaller
<1>6. CASE Ending(r)
  <2>1. PICK from \in {"entered", "check", "calling"}, what \in Answers :
           Answer(r, from, what)
    BY <1>6, EndingAnswers
  <2>2. QED BY <2>1 DEF Answer
<1>7. QED BY <1>1, <1>2, <1>3, <1>4, <1>5, <1>6 DEF Step, Ending

(* The request whose step it is carries its own token to its own service.  *)
LEMMA InvStep == IInv /\ [Next]_vars => IInv'
<1> SUFFICES ASSUME IInv, [Next]_vars PROVE IInv'
  OBVIOUS
<1>1. TypeOK /\ TypeOK'
  BY TypeStep DEF IInv
<1>2. ASSUME NEW r \in Slots,
             Step(r) \/ \E in \in Inputs : Arrive(r, in)
      PROVE  IInv'
  <2> USE DEF TypeOK, Goto, globals, calls, Working
  <2>1. Others(r) /\ Scoped(r) /\ (caller # NoCaller => env.broker)
    BY <1>1, <1>2, StepOthers DEF IInv
  <2>2. Scoped(r)' /\ (caller # NoCaller => env.broker)'
    <3>1. CASE \E in \in Inputs : Arrive(r, in)
      <4>1. UNCHANGED <<caller, env>> /\ pc'[r] \in {"received", "queued"}
        BY <1>1, <3>1 DEF Arrive
      <4>2. pc'[r] = "received" <=> req'[r].surface = "mcp"
        BY <1>1, <3>1 DEF Arrive
      <4>3. QED BY <2>1, <4>1, <4>2 DEF Scoped, TokenKept, Tested, Bound
    <3>2. CASE SetObo(r)
      <4>1. /\ UNCHANGED <<caller, env>> /\ pc'[r] = "handed" /\ pc[r] = "received"
            /\ ctx'[r] = req[r].bearer /\ req'[r] = req[r]
        BY <1>1, <3>2 DEF SetObo
      <4>2. QED BY <2>1, <4>1 DEF Scoped, TokenKept, Tested, Bound
    <3>3. CASE CallTool(r)
      <4>1. /\ UNCHANGED <<caller, env>> /\ pc'[r] = "queued" /\ pc[r] = "handed"
            /\ obo'[r] = ctx[r] /\ req'[r] = req[r]
        BY <1>1, <3>3 DEF CallTool
      <4>2. QED BY <2>1, <4>1 DEF Scoped, TokenKept, Tested, Bound
    <3>4. CASE Enter(r)
      <4>1. /\ UNCHANGED <<caller, env>> /\ pc'[r] = "entered" /\ pc[r] = "queued"
            /\ obo'[r] = IF req[r].surface = "openapi" THEN req[r].bearer ELSE obo[r]
            /\ req'[r] = req[r]
        BY <1>1, <3>4 DEF Enter
      <4>2. req[r].surface \in {"openapi", "mcp", "probe"}
        BY <1>1 DEF Requests
      <4>3. QED BY <2>1, <4>1, <4>2 DEF Scoped, TokenKept, Tested, Bound
    <3>5. CASE BuildDirect(r)
      <4>1. /\ UNCHANGED <<caller, env>> /\ pc'[r] = "calling" /\ pc[r] = "entered"
            /\ req'[r] = req[r] /\ obo'[r] = obo[r] /\ Known(r)
            /\ env.direct /\ Credentials
        BY <1>1, <3>5 DEF BuildDirect
      <4>2. client'[r].kind = "direct"
        BY <1>1, <3>5 DEF BuildDirect, NoClient, Clients
      <4>3. Known(r)' /\ Credentials'
        BY <4>1 DEF Known, Tools, WritesEnabled, Credentials
      <4>4. QED BY <2>1, <4>1, <4>2, <4>3 DEF Scoped, TokenKept, Tested, Bound
    <3>6. CASE Brokered(r)
      <4>1. /\ UNCHANGED <<caller, env>> /\ pc'[r] = "check" /\ pc[r] = "entered"
            /\ req'[r] = req[r] /\ obo'[r] = obo[r] /\ Known(r) /\ ~env.direct
        BY <1>1, <3>6 DEF Brokered
      <4>2. Known(r)'
        BY <4>1 DEF Known, Tools, WritesEnabled
      <4>3. QED BY <2>1, <4>1, <4>2 DEF Scoped, TokenKept, Tested, Bound
    <3>7. CASE CheckCaller(r)
      <4>1. /\ UNCHANGED <<caller, env>> /\ pc[r] = "check"
            /\ pc'[r] = IF Makes THEN "construct" ELSE "bind"
            /\ req'[r] = req[r] /\ obo'[r] = obo[r] /\ (Makes => env.broker)
        BY <1>1, <3>7 DEF CheckCaller
      <4>2. Known(r) /\ ~env.direct
        BY <2>1, <4>1 DEF Scoped, Tested
      <4>3. Known(r)'
        BY <4>1, <4>2 DEF Known, Tools, WritesEnabled
      <4>4. QED BY <2>1, <4>1, <4>2, <4>3 DEF Scoped, TokenKept, Tested, Bound, Makes
    <3>8. CASE SetCaller(r)
      <4>1. /\ env' = env /\ caller' = r /\ pc'[r] = "bind" /\ pc[r] = "construct"
            /\ req'[r] = req[r] /\ obo'[r] = obo[r]
        BY <1>1, <3>8 DEF SetCaller
      <4>2. Known(r) /\ ~env.direct /\ env.broker
        BY <2>1, <4>1 DEF Scoped, Tested
      <4>3. Known(r)' /\ caller' # NoCaller
        BY <4>1, <4>2 DEF Known, Tools, WritesEnabled
      <4>4. QED BY <2>1, <4>1, <4>2, <4>3 DEF Scoped, TokenKept, Tested, Bound
    <3>9. CASE Bind(r)
      <4>1. /\ UNCHANGED <<caller, env>> /\ pc'[r] = "calling" /\ pc[r] = "bind"
            /\ req'[r] = req[r] /\ obo'[r] = obo[r]
            /\ client'[r] = [kind |-> "tessera", caller |-> caller, obo |-> obo[r]]
        BY <1>1, <3>9 DEF Bind
      <4>2. Known(r) /\ ~env.direct /\ caller # NoCaller
        BY <2>1, <4>1 DEF Scoped, Tested
      <4>3. req[r].surface # "probe"
        BY <4>2 DEF Known
      <4>4. obo[r] = req[r].bearer
        BY <2>1, <4>1, <4>3 DEF Scoped, TokenKept
      <4>5. Known(r)'
        BY <4>1, <4>2 DEF Known, Tools, WritesEnabled
      <4>6. QED BY <2>1, <4>1, <4>2, <4>4, <4>5 DEF Scoped, TokenKept, Tested, Bound
    <3>10. CASE Ending(r)
      <4>1. PICK from \in {"entered", "check", "calling"}, what \in Answers :
               Answer(r, from, what)
        BY <1>1, <3>10, EndingAnswers
      <4>2. UNCHANGED <<caller, env>> /\ pc'[r] = "idle"
        BY <1>1, <4>1 DEF Answer
      <4>3. QED BY <2>1, <4>2 DEF Scoped, TokenKept, Tested, Bound
    <3>11. QED
      BY <1>2, <3>1, <3>2, <3>3, <3>4, <3>5, <3>6, <3>7, <3>8, <3>9, <3>10
      DEF Step, Ending
  <2>3. QED BY <1>1, <2>1, <2>2, OthersKept
<1>3. CASE UNCHANGED vars
  <2>1. UNCHANGED <<env, caller, pc, req, ctx, obo, client>>
    BY <1>3 DEF vars, globals, calls
  <2>2. \A r \in Slots : Scoped(r)'
    BY <2>1 DEF IInv, Scoped, TokenKept, Tested, Bound, Known, Tools, WritesEnabled,
       Credentials
  <2>3. QED BY <1>1, <2>1, <2>2 DEF IInv
<1>4. QED BY <1>2, <1>3 DEF Next

LEMMA InvInit == Init => IInv
<1> SUFFICES ASSUME Init PROVE IInv
  OBVIOUS
<1>1. WaitOnce
  BY DEF Init, WaitOnce
<1>2. Health \in Requests /\ NoClient \in Clients /\ NoBearer \in Tokens
  BY DEF Health, Requests, Tokens, NoClient, Clients
<1>3. TypeOK
  BY <1>1, <1>2 DEF Init, TypeOK, Answers
<1>4. \A r \in Slots : Scoped(r)
  BY DEF Init, Scoped, TokenKept, Tested, Bound, Working
<1>5. QED BY <1>3, <1>4 DEF Init, IInv

LEMMA Invariant == Spec => []IInv
<1>1. QED BY InvInit, InvStep, PTL DEF Spec

(* Every field keeps its type, and the pool's queue holds each waiting     *)
(* request exactly once (app.py, _handler and _mcp_asgi). *)
THEOREM TypeCorrect == Spec => []TypeOK
<1>1. IInv => TypeOK
  BY DEF IInv
<1>2. QED BY <1>1, Invariant, PTL

(* "one user's token can never bleed into another user's call"             *)
(* (context.py): however many requests of however many people overlap, a   *)
(* tool talks to Tessera with the token of the request it serves.          *)
THEOREM EachOwnIdentity == Spec => []OwnIdentity
<1>1. IInv => OwnIdentity
  <2> SUFFICES ASSUME IInv, NEW r \in Slots, pc[r] = "calling",
                      client[r].kind = "tessera"
               PROVE  client[r].obo = req[r].bearer /\ client[r].caller # NoCaller
    BY DEF OwnIdentity
  <2>1. Bound(r)
    BY DEF IInv, Scoped
  <2>2. QED BY <2>1 DEF Bound
<1>2. QED BY <1>1, Invariant, PTL

(* "guarded direct mode is always read-only" (app.py): no request runs with *)
(* the other mode's client, without its mode's settings, or writes where   *)
(* writes are off, in any environment.                                     *)
THEOREM EachModeKept == Spec => []ModesKept
<1>1. IInv => ModesKept
  <2> SUFFICES ASSUME IInv, NEW r \in Slots, pc[r] = "calling"
               PROVE  /\ client[r].kind = IF env.direct THEN "direct" ELSE "tessera"
                      /\ IF env.direct THEN env.id /\ env.password ELSE env.broker
                      /\ req[r].tool = "create_event" => env.writes /\ ~env.direct
    BY DEF ModesKept
  <2>1. Bound(r)
    BY DEF IInv, Scoped
  <2>2. req[r].tool \in Tools
    BY <2>1 DEF Bound, Known
  <2>3. req[r].tool = "create_event" => WritesEnabled
    BY <2>2 DEF Tools, ReadTools
  <2>4. QED BY <2>1, <2>3 DEF Bound, Credentials, WritesEnabled
<1>2. QED BY <1>1, Invariant, PTL

(* How the stage of a request follows from where it is in the code. *)
StageOf(place) ==
    CASE place = "idle" -> "free"
      [] place = "calling" -> "running"
      [] OTHER -> "asked"

Places == Working \cup {"idle", "received", "handed", "queued"}

Stages == [s \in Slots |-> Stage(s)]
Actors == [s \in Slots |-> [kind |-> client[s].kind, obo |-> client[s].obo]]

LEMMA StageMoves ==
    ASSUME TypeOK, TypeOK', NEW r \in Slots, NEW to, pc' = [pc EXCEPT ![r] = to]
    PROVE  Stages' = [Stages EXCEPT ![r] = StageOf(to)]
<1>1. pc \in [Slots -> Places]
  BY DEF TypeOK, Places
<1>2. \A s \in Slots : pc'[s] = IF s = r THEN to ELSE pc[s]
  BY <1>1
<1>3. \A s \in Slots : Stage(s)' = IF s = r THEN StageOf(to) ELSE Stage(s)
  BY <1>2 DEF Stage, StageOf
<1>4. QED BY <1>3 DEF Stages

LEMMA ActorMoves ==
    ASSUME TypeOK, NEW r \in Slots, NEW to, client' = [client EXCEPT ![r] = to]
    PROVE  Actors' = [Actors EXCEPT ![r] = [kind |-> to.kind, obo |-> to.obo]]
<1>1. \A s \in Slots : client'[s] = IF s = r THEN to ELSE client[s]
  BY DEF TypeOK
<1>2. QED BY <1>1 DEF Actors

(* A request that ends is answered as its surface does, with success only  *)
(* from "calling".                                                         *)
LEMMA EndingReplies ==
    ASSUME IInv, NEW r \in Slots, Ending(r)
    PROVE  \E from \in {"entered", "check", "calling"}, what \in Answers :
              /\ Answer(r, from, what)
              /\ what \in Isolated!Replies(r)
<1> DEFINE Good(what) == what \in Isolated!Replies(r)
<1>1. /\ req[r].surface \in {"mcp", "openapi", "probe"}
      /\ Scoped(r)
  BY DEF IInv, TypeOK, Requests
<1>2. /\ req[r].surface = "probe" => Good("200") /\ Good("503")
      /\ req[r].surface = "mcp" => Good("isError")
      /\ req[r].surface = "openapi" => Good("502") /\ Good("500")
      /\ pc[r] = "calling" /\ req[r].surface = "mcp" => Good("text")
      /\ pc[r] = "calling" /\ req[r].surface = "openapi" => Good("200")
  BY DEF Isolated!Replies, Isolated!Failures, Isolated!Successes, Isolated!Probed, Stage
<1> HIDE DEF Good
<1>3. ASSUME NEW from, NEW egressError \in BOOLEAN, Raises(r, from, egressError),
             req[r].surface # "probe"
      PROVE  \E what \in Answers : Answer(r, from, what) /\ Good(what)
  <2>1. CASE req[r].surface = "mcp"
    <3>1. Answer(r, from, "isError")
      BY <1>3, <2>1, Zenon DEF Raises
    <3>2. Good("isError") /\ "isError" \in Answers
      BY <1>2, <2>1 DEF Answers
    <3>3. QED BY <3>1, <3>2, Zenon
  <2>2. CASE req[r].surface = "openapi"
    BY <1>2, <1>3, <2>2 DEF Raises, Answers
  <2>3. QED BY <1>1, <1>3, <2>1, <2>2
<1>4. CASE Probe(r)
  <2>1. req[r].surface = "probe"
        /\ (Answer(r, "entered", "200") \/ Answer(r, "entered", "503"))
    BY <1>4 DEF Probe
  <2>2. QED BY <1>2, <2>1 DEF Good, Answers
<1>5. CASE UnknownTool(r) \/ NoCredentials(r)
  <2>1. req[r].surface # "probe" /\ Raises(r, "entered", TRUE)
    BY <1>5 DEF UnknownTool, NoCredentials, Known
  <2>2. QED BY <1>3, <2>1 DEF Good
<1>6. CASE NotConfigured(r)
  <2>1. Raises(r, "check", TRUE) /\ pc[r] = "check"
    BY <1>6 DEF NotConfigured, Raises, Answer, Goto
  <2>2. req[r].surface # "probe"
    BY <1>1, <2>1 DEF Scoped, Tested, Known
  <2>3. QED BY <1>3, <2>1, <2>2 DEF Good
<1>7. CASE Ends(r)
  <2>1. pc[r] = "calling"
    BY <1>7 DEF Ends, Raises, Answer, Goto
  <2>2. req[r].surface # "probe"
    BY <1>1, <2>1 DEF Scoped, Bound, Known
  <2>3. CASE \E egressError \in BOOLEAN : Raises(r, "calling", egressError)
    BY <1>3, <2>2, <2>3 DEF Good
  <2>4. CASE Answer(r, "calling", IF req[r].surface = "mcp" THEN "text" ELSE "200")
    <3>1. CASE req[r].surface = "mcp"
      BY <1>2, <2>1, <2>4, <3>1 DEF Good, Answers
    <3>2. CASE req[r].surface = "openapi"
      BY <1>2, <2>1, <2>4, <3>2 DEF Good, Answers
    <3>3. QED BY <1>1, <2>2, <3>1, <3>2
  <2>5. QED BY <1>7, <2>3, <2>4 DEF Ends
<1>8. QED BY <1>4, <1>5, <1>6, <1>7 DEF Ending

LEMMA StepIsIsolated ==
    ASSUME IInv, TypeOK', NEW r \in Slots, Step(r) \/ \E in \in Inputs : Arrive(r, in)
    PROVE  \/ Isolated!Ask(r) \/ Isolated!Run(r) \/ Isolated!Reply(r)
           \/ UNCHANGED Isolated!vars
<1> USE DEF globals, calls
<1>0. TypeOK /\ Scoped(r)
  BY DEF IInv
<1>1. CASE \E in \in Inputs : Arrive(r, in)
  <2>1. PICK in \in Inputs : Arrive(r, in)
    BY <1>1
  <2>2. PICK to \in {"received", "queued"} : pc' = [pc EXCEPT ![r] = to]
    BY <2>1 DEF Arrive, Goto
  <2>3. Stages' = [Stages EXCEPT ![r] = "asked"]
    BY <1>0, <2>2, StageMoves DEF StageOf
  <2>4. Stages[r] = "free"
    BY <2>1 DEF Arrive, Goto, Stages, Stage
  <2>5. /\ req' = [req EXCEPT ![r] = in] /\ in \in Requests
        /\ answer' = [answer EXCEPT ![r] = "none"]
        /\ env' = env /\ Actors' = Actors
    BY <2>1 DEF Arrive, Actors
  <2>6. Isolated!Ask(r)
    BY <2>3, <2>4, <2>5 DEF Isolated!Ask, Stages, Actors
  <2>7. QED BY <2>6
<1>2. CASE SetObo(r) \/ CallTool(r) \/ Enter(r) \/ Brokered(r) \/ CheckCaller(r) \/ SetCaller(r)
  <2>1. UNCHANGED <<env, req, client, answer>>
    BY <1>2 DEF SetObo, CallTool, Enter, Brokered, CheckCaller, SetCaller
  <2>2. PICK to \in Places \ {"idle", "calling"} :
            pc' = [pc EXCEPT ![r] = to] /\ pc[r] \in Places \ {"idle", "calling"}
    BY <1>2
    DEF SetObo, CallTool, Enter, Brokered, CheckCaller, SetCaller, Goto, Places, Working
  <2>3. \A s \in Slots : Stage(s)' = Stage(s)
    BY <1>0, <2>2 DEF Stage, TypeOK, Places
  <2>4. QED BY <2>1, <2>3 DEF Isolated!vars
<1>3. CASE BuildDirect(r)
  <2>1. /\ pc' = [pc EXCEPT ![r] = "calling"] /\ pc[r] = "entered"
        /\ UNCHANGED <<env, req, answer>> /\ Known(r) /\ env.direct
        /\ client' = [client EXCEPT ![r] = [NoClient EXCEPT !.kind = "direct"]]
    BY <1>3 DEF BuildDirect, Goto
  <2>2. Stages' = [Stages EXCEPT ![r] = "running"] /\ Stages[r] = "asked"
    BY <1>0, <2>1, StageMoves DEF StageOf, Stages, Stage
  <2>3. Actors' = [Actors EXCEPT ![r] = [kind |-> "direct", obo |-> NoBearer]]
    BY <1>0, <2>1, ActorMoves DEF NoClient
  <2>4. req[r].surface # "probe" /\ req[r].tool # "create_event"
    BY <2>1 DEF Known, Tools, ReadTools, WritesEnabled
  <2>5. Isolated!Run(r)
    BY <2>1, <2>2, <2>3, <2>4 DEF Isolated!Run, Isolated!Own, Stages, Actors
  <2>6. QED BY <2>5
<1>4. CASE Bind(r)
  <2>1. /\ pc' = [pc EXCEPT ![r] = "calling"] /\ pc[r] = "bind"
        /\ UNCHANGED <<env, req, answer>>
        /\ client' = [client EXCEPT ![r] =
                         [kind |-> "tessera", caller |-> caller, obo |-> obo[r]]]
    BY <1>4 DEF Bind, Goto
  <2>2. Stages' = [Stages EXCEPT ![r] = "running"] /\ Stages[r] = "asked"
    BY <1>0, <2>1, StageMoves DEF StageOf, Stages, Stage
  <2>3. Known(r) /\ ~env.direct
    BY <1>0, <2>1 DEF Scoped, Tested
  <2>4. req[r].surface # "probe" /\ obo[r] = req[r].bearer
    BY <1>0, <2>1, <2>3 DEF Scoped, TokenKept, Known, Working
  <2>5. Actors' = [Actors EXCEPT ![r] = [kind |-> "tessera", obo |-> req[r].bearer]]
    BY <1>0, <2>1, <2>4, ActorMoves
  <2>6. Isolated!Run(r)
    BY <2>1, <2>2, <2>3, <2>4, <2>5 DEF Isolated!Run, Isolated!Own, Stages, Actors
  <2>7. QED BY <2>6
<1>5. CASE Ending(r)
  <2>1. PICK from \in {"entered", "check", "calling"}, what \in Answers :
            Answer(r, from, what) /\ what \in Isolated!Replies(r)
    BY <1>5, EndingReplies
  <2>2. /\ pc' = [pc EXCEPT ![r] = "idle"] /\ pc[r] # "idle"
        /\ req' = [req EXCEPT ![r] = Health] /\ env' = env
        /\ answer' = [answer EXCEPT ![r] = what]
        /\ client' = [client EXCEPT ![r] = NoClient]
    BY <2>1 DEF Answer, Goto
  <2>3. Stages' = [Stages EXCEPT ![r] = "free"] /\ Stages[r] # "free"
    BY <1>0, <2>2, StageMoves DEF StageOf, Stages, Stage
  <2>4. Actors' = [Actors EXCEPT ![r] = [kind |-> "none", obo |-> NoBearer]]
    BY <1>0, <2>2, ActorMoves DEF NoClient
  <2>5. Isolated!Reply(r)
    BY <2>1, <2>2, <2>3, <2>4 DEF Isolated!Reply, Stages, Actors
  <2>6. QED BY <2>5
<1>6. QED BY <1>1, <1>2, <1>3, <1>4, <1>5 DEF Step, Ending

(* Each request is served as if it were alone: every step of the           *)
(* application, for any number of requests, people and threads, is a step  *)
(* of IsolatedCalls or none (app.py, _invoke_tool).                        *)
THEOREM RefinesIsolatedCalls == Spec => ImplementsIsolatedCalls
<1>1. Init => Isolated!Init
  <2> SUFFICES ASSUME Init PROVE Isolated!Init
    OBVIOUS
  <2>1. env.direct \in BOOLEAN
    BY DEF Init, Settings
  <2>2. Stages = [r \in Slots |-> "free"]
    BY DEF Init, Stages, Stage
  <2>3. Actors = [r \in Slots |-> [kind |-> "none", obo |-> NoBearer]]
    BY DEF Init, Actors, NoClient
  <2>4. QED BY <2>1, <2>2, <2>3 DEF Init, Isolated!Init, Stages, Actors
<1>2. IInv /\ IInv' /\ [Next]_vars => [Isolated!Next]_(Isolated!vars)
  <2> SUFFICES ASSUME IInv, IInv', [Next]_vars
               PROVE  Isolated!Next \/ UNCHANGED Isolated!vars
    OBVIOUS
  <2>1. ASSUME NEW r \in Slots, Step(r) \/ \E in \in Inputs : Arrive(r, in)
        PROVE  Isolated!Next \/ UNCHANGED Isolated!vars
    BY <2>1, StepIsIsolated DEF IInv, Isolated!Next
  <2>2. CASE UNCHANGED vars
    <3>1. UNCHANGED <<env, req, pc, client, answer>>
      BY <2>2 DEF vars, globals, calls
    <3>2. \A s \in Slots : Stage(s)' = Stage(s)
      BY <3>1 DEF Stage
    <3>3. QED BY <3>1, <3>2 DEF Isolated!vars
  <2>3. QED BY <2>1, <2>2 DEF Next
<1>3. QED BY <1>1, <1>2, Invariant, PTL DEF Spec, ImplementsIsolatedCalls, Isolated!Safety
=============================================================================
