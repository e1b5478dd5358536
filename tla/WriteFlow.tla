----------------------------- MODULE WriteFlow -----------------------------
(***************************************************************************)
(* create_event of apple_mcp/service.py, called again and again for the    *)
(* same event by an assistant: the first attempt may be held by Tessera    *)
(* for the person's approval, an answer may be lost, a timed-out PUT may   *)
(* still arrive, and attempts may overlap.  The code has no memory of an   *)
(* earlier attempt: only the UID and the body, rebuilt from the arguments  *)
(* and from the calendar's display name, tie the attempts together.        *)
(*                                                                         *)
(* Tessera, iCloud and the person are external: they do what the code and  *)
(* its tests expect of them, and what "faults" allows beyond that.         *)
(***************************************************************************)
EXTENDS Naturals, Sequences, FiniteSets, SequencesExt

CONSTANTS
    Calls,          \* the attempts
    Calendars, Names,
    Folded,         \* name.strip().lower() of each name written or read
    Requests,       \* arguments [valid, content, location, calendar] of the
                    \* tool; content stands for summary, start and end
    MaxRedirects,   \* hops after the first of one PUT
    Starts          \* where a behaviour starts: [faults, listing, nameOf, req]

\* What may go wrong.
AllFaults == {"unreadable",     \* a display-name read fails
              "renamed",        \* the person renames a calendar
              "reordered",      \* iCloud lists the calendars in another order
              "expired",        \* an approval expires
              "moved",          \* iCloud redirects to another host
              "see_other",      \* and may do so with a 303
              "conflict"}       \* iCloud itself answers 409

NoName == "none"                \* None, and the empty default
NoCalendar == "no calendar"
NoObject == [cal |-> NoCalendar]

ASSUME WriteAssumption ==
    /\ MaxRedirects \in Nat /\ IsFiniteSet(Calendars)
    /\ Starts \subseteq [faults : SUBSET AllFaults, listing : SetToSeqs(Calendars),
                         nameOf : [Calendars -> Names], req : [Calls -> Requests]]
    /\ NoName \notin Names /\ NoCalendar \notin Calendars
    /\ Names \subseteq DOMAIN Folded
    /\ \A r \in Requests : r.calendar \in DOMAIN Folded \cup {NoName}

VARIABLES
    faults,     \* what may go wrong in this behaviour
    listing,    \* iCloud: the calendars in the order it lists them
    nameOf,     \* iCloud: each calendar's display name
    events,     \* iCloud: the objects stored in the calendars
    holds,      \* Tessera: whether its policy holds writes for approval
    held,       \* Tessera: the writes that wait for approval
    approved,   \* Tessera: the writes approved and not yet used up
    pc, req, cals, cal, obj, result,    \* each attempt's locals and outcome
    wire,       \* each attempt's PUT: where it is, as what, at which hop
    built,      \* history: which object each request was turned into
    retried     \* history: attempts begun with the request's write approved

icloud == <<faults, listing, nameOf>>
tessera == <<holds, held, approved>>
locals == <<pc, req, cals, cal, obj>>
vars == <<icloud, events, tessera, locals, result, wire, built, retried>>

Statuses == {"2xx", "409", "401_403", "424", "other"}
NoWire == [at |-> "nowhere", method |-> "PUT", hop |-> 0, status |-> "none"]

Init ==
    /\ \E s \in Starts : /\ faults = s.faults /\ listing = s.listing
                         /\ nameOf = s.nameOf /\ req = s.req
    /\ holds \in BOOLEAN
    /\ events = {} /\ held = {} /\ approved = {}
    /\ pc = [c \in Calls |-> "idle"]
    /\ cals = [c \in Calls |-> <<>>]
    /\ cal = [c \in Calls |-> NoCalendar]
    /\ obj = [c \in Calls |-> NoObject]
    /\ result = [c \in Calls |-> "none"]
    /\ wire = [c \in Calls |-> NoWire]
    /\ built = {}
    /\ retried = {}

-----------------------------------------------------------------------------
\* The attempt.

Goto(c, from, to) == pc[c] = from /\ pc' = [pc EXCEPT ![c] = to]

Outside == UNCHANGED <<icloud, events, tessera, wire>>

\* The call returns or raises: `outcome` is the tool's status, or "error".
Finish(c, from, outcome) ==
    /\ Goto(c, from, "done")
    /\ result' = [result EXCEPT ![c] = outcome]
    /\ UNCHANGED <<req, cals, cal, obj, built, retried>>

\* No summary, an unparseable date, or an end before the start.
Reject(c) ==
    /\ ~req[c].valid
    /\ Finish(c, "idle", "error") /\ Outside

Begin(c) ==
    /\ req[c].valid
    /\ Goto(c, "idle", "discover")
    /\ retried' = IF \E b \in built : b.req = req[c] /\ b.obj \in approved
                  THEN retried \cup {c} ELSE retried
    /\ UNCHANGED <<req, cals, cal, obj, result, built>> /\ Outside

Discover(c) ==
    /\ Goto(c, "discover", "resolve")
    /\ cals' = [cals EXCEPT ![c] = listing]
    /\ UNCHANGED <<req, cal, obj, result, built, retried>> /\ Outside

\* A display-name read gives the name, or None when the read fails.
Readable(cs) == IF "unreadable" \in faults THEN SUBSET cs ELSE {cs}

\* _resolve_calendar: the first readable calendar of that name, or the first.
Bears(k, r) == Folded[nameOf[k]] = Folded[r.calendar]

Named(c, readable) ==
    {i \in DOMAIN cals[c] : cals[c][i] \in readable /\ Bears(cals[c][i], req[c])}

Matches(c, readable) ==
    IF req[c].calendar = NoName THEN DOMAIN cals[c] ELSE Named(c, readable)

\* Mutant: any calendar that matches.
ResolveAny(c) ==
    /\ Goto(c, "resolve", "name")
    /\ \E i \in Matches(c, Calendars) : cal' = [cal EXCEPT ![c] = cals[c][i]]
    /\ UNCHANGED <<req, cals, obj, result, built, retried>> /\ Outside

Resolve(c) ==
    /\ Goto(c, "resolve", "name")
    /\ \E readable \in Readable(Calendars) :
         \E i \in Matches(c, readable) :
            /\ \A j \in Matches(c, readable) : i <= j
            /\ cal' = [cal EXCEPT ![c] = cals[c][i]]
    /\ UNCHANGED <<req, cals, obj, result, built, retried>> /\ Outside

NoSuchCalendar(c) ==
    /\ \E readable \in Readable(Calendars) : Matches(c, readable) = {}
    /\ Finish(c, "resolve", "error") /\ Outside

\* Mutant: the UID has the calendar as the caller wrote it.
BuildAsAsked(r, calendar, name) ==
    [cal |-> calendar,
     uid |-> [name |-> r.calendar, content |-> r.content],
     location |-> r.location]

\* _deterministic_uid, _build_vevent and put_url.
Build(r, calendar, name) ==
    [cal |-> calendar,
     uid |-> [name |-> name, content |-> r.content],
     location |-> r.location]

\* The name is read once more, the object built and the PUT sent.
Send(c) ==
    /\ Goto(c, "name", "wait")
    /\ \E readable \in Readable({cal[c]}) :
         LET name == IF cal[c] \in readable THEN nameOf[cal[c]] ELSE NoName
             o == Build(req[c], cal[c], name)
         IN  /\ obj' = [obj EXCEPT ![c] = o]
             /\ built' = built \cup {[req |-> req[c], obj |-> o]}
    /\ wire' = [wire EXCEPT ![c].at = "tessera"]
    /\ UNCHANGED <<req, cals, cal, result, retried, icloud, events, tessera>>

\* The calendar has no URL to put the event at.
NoUrl(c) == Finish(c, "name", "error") /\ Outside

\* Mutants: every other answer counts as held; every answer as created.
OutcomeHeld(status) == IF status = "2xx" THEN "created" ELSE "pending_approval"

OutcomeCreated(status) == IF status = "409" THEN "pending_approval" ELSE "created"

\* _interpret_write
Outcome(status) ==
    CASE status = "2xx" -> "created"
      [] status = "409" -> "pending_approval"
      [] status = "401_403" -> "writes_not_enabled"
      [] status = "424" -> "no_credential"
      [] OTHER -> "error"

Interpret(c) ==
    /\ wire[c].at = "answered"
    /\ Finish(c, "wait", Outcome(wire[c].status)) /\ Outside

\* Mutant: a PUT has no timeout.
GiveUpDiscovery(c) ==
    /\ Finish(c, "discover", "error")
    /\ Outside

\* A failed discovery, or an answer that is lost or too late: the PUT goes on.
GiveUp(c) ==
    /\ Finish(c, "discover", "error") \/ Finish(c, "wait", "error")
    /\ Outside

-----------------------------------------------------------------------------
\* Tessera, iCloud and the person.

Attempts == UNCHANGED <<locals, result, built, retried>>

Move(c, from, to) ==
    /\ wire[c].at = from
    /\ wire' = [wire EXCEPT ![c].at = to]
    /\ Attempts

Answer(c, from, status) ==
    /\ wire[c].at = from
    /\ wire' = [wire EXCEPT ![c].at = "answered", ![c].status = status]
    /\ Attempts

\* Tessera passes on a read, and a write that needs no approval or has it.
NeedsApproval(c) ==
    holds /\ wire[c].method = "PUT" /\ obj[c] \notin approved

Forward(c) ==
    /\ Move(c, "tessera", "icloud")
    /\ ~NeedsApproval(c)
    /\ UNCHANGED <<icloud, events, tessera>>

Hold(c) ==
    /\ Answer(c, "tessera", "409")
    /\ NeedsApproval(c)
    /\ held' = held \cup {obj[c]}
    /\ UNCHANGED <<icloud, events, holds, approved>>

Deny(c) ==
    /\ \E status \in {"401_403", "424", "other"} : Answer(c, "tessera", status)
    /\ UNCHANGED <<icloud, events, tessera>>

\* PUT replaces the object with that UID, and may use up its approval.
Same(e, f) == e.cal = f.cal /\ e.uid = f.uid

Store(c) ==
    /\ Answer(c, "icloud", "2xx")
    /\ wire[c].method = "PUT"
    /\ events' = {e \in events : ~Same(e, obj[c])} \cup {obj[c]}
    /\ approved' \in {approved, approved \ {obj[c]}}
    /\ UNCHANGED <<icloud, holds, held>>

Get(c) ==
    /\ Answer(c, "icloud", "2xx")
    /\ wire[c].method = "GET"
    /\ UNCHANGED <<icloud, events, tessera>>

Refuse(c) ==
    /\ \E status \in {"401_403", "other"} \cup (IF "conflict" \in faults THEN {"409"} ELSE {}) :
         Answer(c, "icloud", status)
    /\ UNCHANGED <<icloud, events, tessera>>

\* Mutant: redirects are not counted.
RedirectForEver(c) ==
    /\ "moved" \in faults /\ wire[c].at = "icloud"
    /\ wire' = [wire EXCEPT ![c].at = "tessera", ![c].hop = @ + 1]
    /\ Attempts /\ UNCHANGED <<icloud, events, tessera>>

\* Mutant: the next hop of a PUT is a GET, whatever the redirect was.
RedirectAsGet(c) ==
    /\ "moved" \in faults /\ wire[c].at = "icloud" /\ wire[c].hop < MaxRedirects
    /\ wire' = [wire EXCEPT ![c].at = IF pc[c] = "wait" THEN "tessera" ELSE "nowhere",
                            ![c].method = "GET", ![c].hop = @ + 1]
    /\ Attempts /\ UNCHANGED <<icloud, events, tessera>>

\* iCloud redirects: _brokered sends the next hop, after a 303 as a GET.
Redirect(c) ==
    /\ "moved" \in faults /\ wire[c].at = "icloud" /\ wire[c].hop < MaxRedirects
    /\ \E method \in IF "see_other" \in faults THEN {wire[c].method, "GET"}
                     ELSE {wire[c].method} :
         wire' = [wire EXCEPT ![c].at = IF pc[c] = "wait" THEN "tessera" ELSE "nowhere",
                              ![c].method = method, ![c].hop = @ + 1]
    /\ Attempts /\ UNCHANGED <<icloud, events, tessera>>

Approve(o) ==
    /\ o \in held
    /\ held' = held \ {o} /\ approved' = approved \cup {o}
    /\ Attempts /\ UNCHANGED <<icloud, events, holds, wire>>

Expire(o) ==
    /\ "expired" \in faults /\ o \in held \cup approved
    /\ held' = held \ {o} /\ approved' = approved \ {o}
    /\ Attempts /\ UNCHANGED <<icloud, events, holds, wire>>

Rename(k, name) ==
    /\ "renamed" \in faults
    /\ nameOf' = [nameOf EXCEPT ![k] = name]
    /\ Attempts /\ UNCHANGED <<faults, listing, events, tessera, wire>>

Reorder ==
    /\ "reordered" \in faults
    /\ listing' \in SetToSeqs(Calendars)
    /\ Attempts /\ UNCHANGED <<faults, nameOf, events, tessera, wire>>

Attempt(c) ==
    \/ Discover(c) \/ Resolve(c) \/ NoSuchCalendar(c) \/ NoUrl(c) \/ Send(c)
    \/ Interpret(c) \/ GiveUp(c)

Upstream(c) ==
    \/ Forward(c) \/ Hold(c) \/ Deny(c)
    \/ Store(c) \/ Get(c) \/ Refuse(c) \/ Redirect(c)

Next ==
    \/ \E c \in Calls : Reject(c) \/ Begin(c) \/ Attempt(c) \/ Upstream(c)
    \/ \E o \in held \cup approved : Approve(o) \/ Expire(o)
    \/ \E k \in Calendars, name \in Names : Rename(k, name)
    \/ Reorder

\* The request timeout ends every wait; nothing makes Tessera, iCloud or the
\* person act, nor the assistant try (again).
Spec == Init /\ [][Next]_vars

FairSpec == Spec /\ \A c \in Calls : WF_vars(Attempt(c))

-----------------------------------------------------------------------------
Objects ==
    [cal : Calendars,
     uid : [name : Names \cup {NoName}, content : {r.content : r \in Requests}],
     location : {r.location : r \in Requests}]

TypeOK ==
    /\ faults \subseteq AllFaults
    /\ listing \in SetToSeqs(Calendars)
    /\ nameOf \in [Calendars -> Names]
    /\ holds \in BOOLEAN
    /\ events \subseteq Objects /\ held \subseteq Objects /\ approved \subseteq Objects
    /\ pc \in [Calls -> {"idle", "discover", "resolve", "name", "wait", "done"}]
    /\ req \in [Calls -> Requests]
    /\ cals \in [Calls -> SetToSeqs(Calendars) \cup {<<>>}]
    /\ cal \in [Calls -> Calendars \cup {NoCalendar}]
    /\ obj \in [Calls -> Objects \cup {NoObject}]
    /\ result \in [Calls -> {"none", "error"} \cup {Outcome(s) : s \in Statuses}]
    /\ wire \in [Calls -> [at : {"nowhere", "tessera", "icloud", "answered"},
                           method : {"PUT", "GET"}, hop : 0 .. MaxRedirects,
                           status : Statuses \cup {"none"}]]
    /\ built \subseteq [req : Requests, obj : Objects]
    /\ retried \subseteq Calls

Free(from) == faults \cap from = {}

(* "a create is IDEMPOTENT by content [...] the first (held) attempt and the *)
(* post-approval re-request build the SAME object" (service.py).             *)
SameObject == \A b, d \in built : b.req = d.req => b.obj = d.obj

Unambiguous(r) ==
    /\ r.calendar # NoName
    /\ \A k, l \in Calendars : Bears(k, r) /\ Bears(l, r) => k = l

(* That is so while the names the attempts read are the same, whatever is    *)
(* held, lost, late, redirected or expired in between: iCloud may even list  *)
(* the calendars in another order, if only one has the name asked for.       *)
SameObjectIfStable ==
    Free({"unreadable", "renamed"}) =>
        \A b, d \in built :
            /\ b.req = d.req
            /\ Free({"reordered"}) \/ Unambiguous(b.req)
            => b.obj = d.obj

(* However often a request is attempted, timed out, redelivered late or      *)
(* approved, no calendar ends up with two events for it, unless a name       *)
(* changes under the attempts.                                               *)
NoDuplicate ==
    Free({"unreadable", "renamed"}) =>
        \A e, f \in events :
            e.cal = f.cal /\ e.uid.content = f.uid.content => e = f

(* "The event is written to your calendar and the call returns               *)
(* status="created"" (tools.py): who is told "created" has the event.        *)
CreatedIsStored ==
    \A c \in Calls : result[c] = "created" =>
        \E e \in events : Same(e, obj[c])

(* That is so unless iCloud answers with a 303, whatever else goes wrong.    *)
CreatedIfNoSeeOther == Free({"see_other"}) => CreatedIsStored

(* "the IDENTICAL re-request completes it after approval": an attempt begun  *)
(* with the write approved is not told to wait for an approval, unless       *)
(* another attempt has used it, and then the event is there.  iCloud must    *)
(* not answer 409 itself, which _interpret_write takes for Tessera's.        *)
ApprovalCompletes ==
    Free(AllFaults \ {"moved", "see_other"}) =>
        \A c \in retried : result[c] = "pending_approval" =>
            \E e \in events : Same(e, obj[c])

(* Every attempt ends with an answer or an error, whatever stays silent.     *)
AttemptEnds == \A c \in Calls : pc[c] = "discover" ~> pc[c] = "done"
=============================================================================
