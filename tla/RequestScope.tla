---------------------------- MODULE RequestScope ----------------------------
(***************************************************************************)
(* The application around the tools: apple_mcp/app.py, context.py, the     *)
(* MCP server of mcp_streamable.py, and the settings they read.  Requests  *)
(* of several people overlap.  MCP requests are read on the event loop,    *)
(* which keeps their on-behalf-of token in a context variable; they and    *)
(* the OpenAPI requests run their tool on one pool of threads, where the   *)
(* health probes run as well.                                              *)
(*                                                                         *)
(* FastAPI, anyio, asyncio and the MCP SDK are external: a context belongs *)
(* to one request, and the pool serves those that wait in order.           *)
(***************************************************************************)
EXTENDS Naturals, Sequences, FiniteSets

CONSTANTS
    Slots,          \* bound: requests at one time
    Bearers,        \* the on-behalf-of tokens people send
    Inputs,         \* the requests they make
    Environments,   \* the settings the process may be started with
    MaxThreads      \* the pool's size, 40 by anyio's default

Settings == [direct : BOOLEAN, id : BOOLEAN, password : BOOLEAN,
             broker : BOOLEAN, writes : BOOLEAN, diag : BOOLEAN]

ASSUME EnvironmentAssumption == Environments \subseteq Settings

ASSUME PoolAssumption == MaxThreads \in Nat \ {0}

VARIABLES
    env,        \* the environment, read again and again
    caller,     \* the global _caller: who made it
    captured,   \* the token in the diagnostic file
    queue,      \* the requests waiting for a thread
    pc, req,    \* where each request is, and what it asks
    ctx,        \* the context variable _obo_token, in each context
    obo,        \* the token each request passes to _invoke_tool
    client,     \* the client of its service
    answer      \* how the last request of each slot was answered

globals == <<env, caller, captured>>
calls == <<req, ctx, obo, client>>
vars == <<globals, queue, pc, calls, answer>>

NoBearer == ""                          \* no Authorization header
NoCaller == "none"
NoClient == [kind |-> "none", caller |-> NoCaller, obo |-> NoBearer]

ASSUME NamesAssumption == NoBearer \notin Bearers /\ NoCaller \notin Slots

Tokens == Bearers \cup {NoBearer}
ReadTools == {"read"}
Health == [surface |-> "probe", tool |-> "healthz", bearer |-> NoBearer]
Requests ==
    [surface : {"openapi", "mcp"}, tool : {"read", "create_event", "unknown"},
     bearer : Tokens]
    \cup [surface : {"probe"}, tool : {"healthz", "readyz"}, bearer : {NoBearer}]

ASSUME InputAssumption == Inputs \subseteq Requests

\* TOOLS, filled when the process starts: writes_enabled()
WritesEnabled == ~env.direct /\ env.writes

Tools == ReadTools \cup (IF WritesEnabled THEN {"create_event"} ELSE {})

Init ==
    /\ env \in Environments
    /\ caller = NoCaller /\ captured = NoBearer
    /\ queue = <<>>
    /\ pc = [r \in Slots |-> "idle"]
    /\ req = [r \in Slots |-> Health]
    /\ ctx = [r \in Slots |-> NoBearer]
    /\ obo = [r \in Slots |-> NoBearer]
    /\ client = [r \in Slots |-> NoClient]
    /\ answer = [r \in Slots |-> "none"]

Goto(r, from, to) == pc[r] = from /\ pc' = [pc EXCEPT ![r] = to]

\* Mutant: a module-level variable in place of the context variable.
SharedContext(r) == CHOOSE s \in Slots : TRUE

\* The context a request runs in is its own.
ContextOf(r) == r

\* A request comes in.  The OpenAPI routes are those of TOOLS, with a body
\* of their own; the event loop puts their handlers and the probes' on the pool.
Arrive(r, in) ==
    /\ in.surface = "openapi" => in.tool \in Tools
    /\ Goto(r, "idle", IF in.surface = "mcp" THEN "received" ELSE "queued")
    /\ queue' = IF in.surface = "mcp" THEN queue ELSE Append(queue, r)
    /\ req' = [req EXCEPT ![r] = in]
    /\ ctx' = [ctx EXCEPT ![ContextOf(r)] = NoBearer]
    /\ answer' = [answer EXCEPT ![r] = "none"]
    /\ UNCHANGED <<globals, obo, client>>

\* _mcp_asgi: set_obo_token, then _maybe_capture_obo, which truncates the file
\* and writes the token, on the event loop, and ignores every failure.
SetObo(r) ==
    /\ Goto(r, "received", "handed")
    /\ ctx' = [ctx EXCEPT ![ContextOf(r)] = req[r].bearer]
    /\ captured' \in IF env.diag /\ req[r].bearer # NoBearer
                     THEN {captured, NoBearer, req[r].bearer} ELSE {captured}
    /\ UNCHANGED <<env, caller, queue, req, obo, client, answer>>

\* _call_tool: get_obo_token() before the thread is asked for.
CallTool(r) ==
    /\ Goto(r, "handed", "queued")
    /\ queue' = Append(queue, r)
    /\ obo' = [obo EXCEPT ![r] = ctx[ContextOf(r)]]
    /\ UNCHANGED <<globals, req, ctx, client, answer>>

Working == {"entered", "check", "construct", "bind", "calling"}
Busy == {r \in Slots : pc[r] \in Working}

\* Mutant: the request keeps its place in the queue.
RestWithHead == queue

Rest == Tail(queue)

\* A thread is free; the OpenAPI handler reads the bearer of its own request.
Enter(r) ==
    /\ queue # <<>> /\ Head(queue) = r
    /\ Cardinality(Busy) < MaxThreads
    /\ Goto(r, "queued", "entered")
    /\ queue' = Rest
    /\ obo' = IF req[r].surface = "openapi"
              THEN [obo EXCEPT ![r] = req[r].bearer] ELSE obo
    /\ UNCHANGED <<globals, req, ctx, client, answer>>

\* The request ends, and so do its context, its service and its thread.
Answer(r, from, what) ==
    /\ Goto(r, from, "idle")
    /\ answer' = [answer EXCEPT ![r] = what]
    /\ req' = [req EXCEPT ![r] = Health]
    /\ ctx' = [ctx EXCEPT ![ContextOf(r)] = NoBearer]
    /\ obo' = [obo EXCEPT ![r] = NoBearer]
    /\ client' = [client EXCEPT ![r] = NoClient]
    /\ UNCHANGED <<globals, queue>>

\* Mutant: an exception of an MCP tool gets lost.
RaisesUnheard(r, from, egressError) ==
    req[r].surface # "mcp" /\ Answer(r, from, IF egressError THEN "502" ELSE "500")

\* Mutant: the error's text is returned as the MCP tool's result.
RaisesAsText(r, from, egressError) ==
    Answer(r, from, IF req[r].surface = "mcp" THEN "text"
                    ELSE IF egressError THEN "502" ELSE "500")

Raises(r, from, egressError) ==
    Answer(r, from, IF req[r].surface = "mcp" THEN "isError"
                    ELSE IF egressError THEN "502" ELSE "500")

Probe(r) ==
    /\ req[r].surface = "probe"
    /\ Answer(r, "entered",
              IF req[r].tool = "readyz" /\ env.direct /\ ~(env.id /\ env.password)
              THEN "503" ELSE "200")

\* `if name not in TOOLS`
UnknownTool(r) ==
    /\ req[r].surface # "probe" /\ req[r].tool \notin Tools
    /\ Raises(r, "entered", TRUE)

Known(r) == req[r].surface # "probe" /\ req[r].tool \in Tools

\* Mutant: one of the credentials is enough.
EitherCredential == env.id \/ env.password

\* With one, DirectCalDAVClient refuses; with none, the service has no caller.
Credentials == env.id /\ env.password

BuildDirect(r) ==
    /\ Known(r) /\ env.direct /\ Credentials
    /\ Goto(r, "entered", "calling")
    /\ client' = [client EXCEPT ![r] = [NoClient EXCEPT !.kind = "direct"]]
    /\ UNCHANGED <<globals, queue, req, ctx, obo, answer>>

NoCredentials(r) ==
    /\ Known(r) /\ env.direct /\ ~Credentials
    /\ Raises(r, "entered", TRUE)

\* _get_caller: the global is tested, set, and read again, without a lock.
Brokered(r) ==
    /\ Known(r) /\ ~env.direct
    /\ Goto(r, "entered", "check")
    /\ UNCHANGED <<globals, queue, calls, answer>>

\* Mutant: every request makes a caller of its own and shares it.
MakesAlways == TRUE

Makes == caller = NoCaller

CheckCaller(r) ==
    /\ Makes => env.broker
    /\ Goto(r, "check", IF Makes THEN "construct" ELSE "bind")
    /\ UNCHANGED <<globals, queue, calls, answer>>

NotConfigured(r) ==
    /\ Makes /\ ~env.broker
    /\ Raises(r, "check", TRUE)

SetCaller(r) ==
    /\ Goto(r, "construct", "bind")
    /\ caller' = r
    /\ UNCHANGED <<env, captured, queue, calls, answer>>

Bind(r) ==
    /\ Goto(r, "bind", "calling")
    /\ client' = [client EXCEPT ![r] =
                     [kind |-> "tessera", caller |-> caller, obo |-> obo[r]]]
    /\ UNCHANGED <<globals, queue, req, ctx, obo, answer>>

\* The tool returns, or raises an AppleEgressError or anything else.
Ends(r) ==
    \/ Answer(r, "calling", IF req[r].surface = "mcp" THEN "text" ELSE "200")
    \/ \E egressError \in BOOLEAN : Raises(r, "calling", egressError)

Step(r) ==
    \/ SetObo(r) \/ CallTool(r) \/ Enter(r)
    \/ Probe(r) \/ UnknownTool(r) \/ BuildDirect(r) \/ NoCredentials(r)
    \/ Brokered(r) \/ CheckCaller(r) \/ NotConfigured(r) \/ SetCaller(r) \/ Bind(r)
    \/ Ends(r)

Next == \E r \in Slots : Step(r) \/ \E in \in Inputs : Arrive(r, in)

Spec == Init /\ [][Next]_vars

\* The event loop and the threads are scheduled, and the request timeout and
\* the bounded redirects end every tool; nothing makes people send requests.
FairSpec == Spec /\ \A r \in Slots : WF_vars(Step(r))

-----------------------------------------------------------------------------
Clients == [kind : {"none", "direct", "tessera"}, caller : Slots \cup {NoCaller},
            obo : Tokens]

Answers == {"none", "200", "502", "500", "503", "text", "isError"}

WaitOnce ==
    /\ queue \in Seq(Slots)
    /\ \A i, j \in 1 .. Len(queue) : queue[i] = queue[j] => i = j
    /\ \A r \in Slots : pc[r] = "queued" <=> \E i \in 1 .. Len(queue) : queue[i] = r

TypeOK ==
    /\ env \in Environments
    /\ caller \in Slots \cup {NoCaller} /\ captured \in Tokens
    /\ WaitOnce
    /\ pc \in [Slots -> Working \cup {"idle", "received", "handed", "queued"}]
    /\ req \in [Slots -> Requests]
    /\ ctx \in [Slots -> Tokens] /\ obo \in [Slots -> Tokens]
    /\ client \in [Slots -> Clients]
    /\ answer \in [Slots -> Answers]

(* "one user's token can never bleed into another user's call" (context.py): *)
(* a tool that talks to Tessera does so for the person who asked, whatever   *)
(* requests overlap on either surface, and for nobody when no token came.    *)
OwnIdentity ==
    \A r \in Slots :
        pc[r] = "calling" /\ client[r].kind = "tessera" =>
            client[r].obo = req[r].bearer /\ client[r].caller # NoCaller

(* "Brokered mode can expose create_event behind Tessera approval; guarded   *)
(* direct mode is always read-only" (app.py): each mode uses its own client, *)
(* never the other's as a fallback, with all its settings, and direct mode   *)
(* runs no write.                                                            *)
ModesKept ==
    \A r \in Slots :
        pc[r] = "calling" =>
            /\ client[r].kind = IF env.direct THEN "direct" ELSE "tessera"
            /\ IF env.direct THEN env.id /\ env.password ELSE env.broker
            /\ req[r].tool = "create_event" => env.writes /\ ~env.direct

Stage(r) ==
    CASE pc[r] = "idle" -> "free"
      [] pc[r] = "calling" -> "running"
      [] OTHER -> "asked"

Isolated == INSTANCE IsolatedCalls WITH
    Nothing <- Health,
    Nobody <- [kind |-> "none", obo |-> NoBearer],
    guarded <- env.direct,
    asked <- req,
    stage <- [r \in Slots |-> Stage(r)],
    acting <- [r \in Slots |-> [kind |-> client[r].kind, obo |-> client[r].obo]],
    reply <- answer

(* "Single choke point shared by the OpenAPI routes and the MCP transport"   *)
(* (app.py): through the pool, the queue and the shared caller, each request *)
(* is served as if alone. Its tool runs once at most, for its own person or, *)
(* in direct mode, for the owner, and success on either surface means it ran.*)
ImplementsIsolatedCalls == Isolated!Safety

(* "caller token (shared, cached)" (app.py): first requests may race to make *)
(* the shared caller, but from some point on one object serves every call.   *)
CallerSettles == <>[][caller' = caller]_vars

(* Every request is answered, the health probes behind a pool full of slow   *)
(* tools included.                                                           *)
EveryRequestAnswered == \A r \in Slots : pc[r] # "idle" ~> pc[r] = "idle"
=============================================================================
