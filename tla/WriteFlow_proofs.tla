-------------------------- MODULE WriteFlow_proofs --------------------------
(***************************************************************************)
(* Proofs about create_event: any number of attempts, requests, calendars, *)
(* names and redirects, overlapping in any way, under every fault.         *)
(***************************************************************************)
EXTENDS WriteFlow, FiniteSetTheorems, TLAPS

(* How the PUT of an attempt moves. *)
Places == {"nowhere", "tessera", "icloud", "answered"}

Wires == [at : Places, method : {"PUT", "GET"}, hop : 0 .. MaxRedirects,
          status : Statuses \cup {"none"}]

OneWire(c) ==
    wire' \in [Calls -> Wires] /\ wire' = [wire EXCEPT ![c] = wire'[c]]

LEMMA WireMoves ==
    ASSUME MaxRedirects \in Nat, wire \in [Calls -> Wires], NEW c \in Calls, NEW to \in Places,
           wire' = [wire EXCEPT ![c].at = to]
    PROVE  /\ OneWire(c) /\ wire'[c].at = to /\ wire'[c].method = wire[c].method
           /\ wire'[c].status = wire[c].status
BY DEF Wires, OneWire, Places, Statuses

LEMMA WireAnswered ==
    ASSUME MaxRedirects \in Nat, wire \in [Calls -> Wires], NEW c \in Calls, NEW status \in Statuses,
           wire' = [wire EXCEPT ![c].at = "answered", ![c].status = status]
    PROVE  /\ OneWire(c) /\ wire'[c].at = "answered"
           /\ wire'[c].method = wire[c].method /\ wire'[c].status = status
BY DEF Wires, OneWire, Places, Statuses

LEMMA WireRedirected ==
    ASSUME MaxRedirects \in Nat, wire \in [Calls -> Wires], NEW c \in Calls, NEW to \in Places,
           NEW method \in {"PUT", "GET"}, wire[c].hop < MaxRedirects,
           wire' = [wire EXCEPT ![c].at = to, ![c].method = method, ![c].hop = @ + 1]
    PROVE  /\ OneWire(c) /\ wire'[c].at = to /\ wire'[c].method = method
           /\ wire'[c].status = wire[c].status
BY DEF Wires, OneWire, Places, Statuses

USE WriteAssumption DEF AllFaults, NoWire, NoObject

(* A PUT is sent once, after the object has been built; its answer is kept *)
(* until the attempt has read it. *)
Underway(c) ==
    /\ pc[c] = "name" => cal[c] \in Calendars
    /\ wire[c].at # "nowhere" =>
          /\ pc[c] \in {"wait", "done"}
          /\ obj[c] \in Objects /\ [req |-> req[c], obj |-> obj[c]] \in built
    /\ pc[c] \notin {"wait", "done"} => wire[c].status = "none" /\ result[c] = "none"
    /\ result[c] = "created" => wire[c].at = "answered" /\ wire[c].status = "2xx"
    /\ result[c] = "pending_approval" =>
          wire[c].at = "answered" /\ wire[c].status = "409"

Flow == TypeOK /\ \A c \in Calls : Underway(c)

Stored(o) == \E e \in events : Same(e, o)

LEMMA Orders ==
    ASSUME NEW s \in SetToSeqs(Calendars)
    PROVE  /\ s \in [1 .. Cardinality(Calendars) -> Calendars]
           /\ Cardinality(Calendars) \in Nat
BY FS_CardinalityType DEF SetToSeqs

(* An attempt reads a name or does not, and picks one of the calendars it  *)
(* was given. *)
LEMMA ResolveTypes ==
    ASSUME TypeOK, NEW c \in Calls, Resolve(c)
    PROVE  /\ pc[c] = "resolve" /\ pc' = [pc EXCEPT ![c] = "name"]
           /\ \E k \in Calendars : cal' = [cal EXCEPT ![c] = k]
           /\ UNCHANGED <<req, cals, obj, result, built, retried>>
           /\ UNCHANGED <<icloud, events, tessera, wire>>
<1>0. PICK readable \in Readable(Calendars) :
         \E i \in Matches(c, readable) : cal' = [cal EXCEPT ![c] = cals[c][i]]
  BY DEF Resolve
<1>1. PICK i \in Matches(c, readable) : cal' = [cal EXCEPT ![c] = cals[c][i]]
  BY <1>0
<1>2. i \in DOMAIN cals[c]
  BY <1>1 DEF Matches, Named
<1>3. cals[c] \in SetToSeqs(Calendars) \cup {<<>>}
  BY DEF TypeOK
<1>4. cals[c] # <<>>
  BY <1>2
<1>5. cals[c][i] \in Calendars
  BY <1>2, <1>3, <1>4, Orders
<1>6. QED BY <1>1, <1>5 DEF Resolve, Goto, Outside

LEMMA SendTypes ==
    ASSUME TypeOK, NEW c \in Calls, Underway(c), Send(c)
    PROVE  /\ pc[c] = "name" /\ pc' = [pc EXCEPT ![c] = "wait"]
           /\ \E name \in Names \cup {NoName} :
                LET o == Build(req[c], cal[c], name)
                IN  /\ "unreadable" \notin faults => name = nameOf[cal[c]]
                    /\ obj' = [obj EXCEPT ![c] = o]
                    /\ built' = built \cup {[req |-> req[c], obj |-> o]}
                    /\ o \in Objects
           /\ wire' = [wire EXCEPT ![c].at = "tessera"]
           /\ UNCHANGED <<req, cals, cal, result, retried>>
           /\ UNCHANGED <<icloud, events, tessera>>
<1>1. PICK readable \in Readable({cal[c]}) :
         LET name == IF cal[c] \in readable THEN nameOf[cal[c]] ELSE NoName
             o == Build(req[c], cal[c], name)
         IN  /\ obj' = [obj EXCEPT ![c] = o]
             /\ built' = built \cup {[req |-> req[c], obj |-> o]}
  BY DEF Send
<1> DEFINE name == IF cal[c] \in readable THEN nameOf[cal[c]] ELSE NoName
           o == Build(req[c], cal[c], name)
<1>2. readable \subseteq {cal[c]} /\ ("unreadable" \notin faults => readable = {cal[c]})
  BY <1>1 DEF Readable
<1>3. "unreadable" \notin faults => name = nameOf[cal[c]]
  BY <1>2
<1>4. cal[c] \in Calendars
  BY DEF Send, Goto, Underway
<1>5. name \in Names \cup {NoName}
  BY <1>4 DEF TypeOK
<1>6. o \in Objects
  BY <1>4, <1>5 DEF TypeOK, Build, Objects
<1>7. QED BY <1>1, <1>3, <1>5, <1>6 DEF Send, Goto

Results == {"none", "error"} \cup {Outcome(s) : s \in Statuses}

Finishes(c) ==
    Reject(c) \/ NoSuchCalendar(c) \/ NoUrl(c) \/ Interpret(c) \/ GiveUp(c)

LEMMA OutcomeOf ==
    ASSUME NEW status
    PROVE  /\ Outcome(status) = "created" <=> status = "2xx"
           /\ Outcome(status) = "pending_approval" <=> status = "409"
BY DEF Outcome

LEMMA FinishTypes ==
    ASSUME TypeOK, NEW c \in Calls, Underway(c), Finishes(c)
    PROVE  /\ pc[c] # "done" /\ pc' = [pc EXCEPT ![c] = "done"]
           /\ \E outcome \in Results :
                /\ result' = [result EXCEPT ![c] = outcome]
                /\ outcome = "created" =>
                      wire[c].at = "answered" /\ wire[c].status = "2xx"
                /\ outcome = "pending_approval" =>
                      wire[c].at = "answered" /\ wire[c].status = "409"
           /\ UNCHANGED <<req, cals, cal, obj, built, retried>>
           /\ UNCHANGED <<icloud, events, tessera, wire>>
<1> USE DEF Finish, Goto, Outside, Results
<1>1. CASE Reject(c) \/ NoSuchCalendar(c) \/ NoUrl(c) \/ GiveUp(c)
  BY <1>1 DEF Reject, NoSuchCalendar, NoUrl, GiveUp
<1>2. CASE Interpret(c)
  <2>1. /\ wire[c].at = "answered" /\ pc[c] = "wait"
        /\ result' = [result EXCEPT ![c] = Outcome(wire[c].status)]
    BY <1>2 DEF Interpret
  <2>2. wire[c].status \in Statuses \/ wire[c].status = "none"
    BY DEF TypeOK
  <2>3. Outcome(wire[c].status) \in Results
    BY <2>2 DEF Outcome, Statuses
  <2>4. \E outcome \in Results :
           /\ result' = [result EXCEPT ![c] = outcome]
           /\ outcome = "created" =>
                 wire[c].at = "answered" /\ wire[c].status = "2xx"
           /\ outcome = "pending_approval" =>
                 wire[c].at = "answered" /\ wire[c].status = "409"
    <3>1. WITNESS Outcome(wire[c].status) \in Results
    <3>2. QED BY <2>1, OutcomeOf, Zenon
  <2>5. QED BY <1>2, <2>1, <2>4 DEF Interpret
<1>3. QED BY <1>1, <1>2 DEF Finishes

(* What an attempt's own step does to the others: nothing. *)
Frame(c) ==
    /\ built \subseteq built' /\ pc' = [pc EXCEPT ![c] = pc'[c]]
    /\ req' = req /\ cal' = [cal EXCEPT ![c] = cal'[c]]
    /\ obj' = [obj EXCEPT ![c] = obj'[c]]
    /\ result' = [result EXCEPT ![c] = result'[c]]
    /\ wire' = [wire EXCEPT ![c] = wire'[c]]

LEMMA FrameKept ==
    ASSUME Flow, TypeOK', NEW c \in Calls, Frame(c), Underway(c)' PROVE Flow'
<1>1. ASSUME NEW d \in Calls, d # c PROVE Underway(d)'
  <2>1. /\ pc'[d] = pc[d] /\ req'[d] = req[d] /\ cal'[d] = cal[d]
        /\ obj'[d] = obj[d] /\ result'[d] = result[d] /\ wire'[d] = wire[d]
        /\ built \subseteq built'
    BY <1>1 DEF Frame, Flow, TypeOK
  <2>2. QED BY <2>1 DEF Flow, Underway
<1>2. QED BY <1>1 DEF Flow

Own(c) ==
    Reject(c) \/ Begin(c) \/ Attempt(c)

LEMMA OwnStep ==
    ASSUME Flow, NEW c \in Calls, Own(c)
    PROVE  Flow'
<1> USE DEF TypeOK
<1>1. TypeOK /\ Underway(c)
  BY DEF Flow
<1>2. CASE Begin(c) \/ Discover(c)
  <2>1. TypeOK'
    <3>1. cals' \in [Calls -> SetToSeqs(Calendars) \cup {<<>>}]
      BY <1>1, <1>2 DEF Begin, Discover
    <3>2. retried' \subseteq Calls
      BY <1>1, <1>2 DEF Begin, Discover
    <3>3. pc' \in [Calls -> {"idle", "discover", "resolve", "name", "wait", "done"}]
      <4>1. pc' = [pc EXCEPT ![c] = "discover"] \/ pc' = [pc EXCEPT ![c] = "resolve"]
        BY <1>2 DEF Begin, Discover, Goto
      <4>2. pc \in [Calls -> {"idle", "discover", "resolve", "name", "wait", "done"}]
        BY <1>1
      <4> HIDE DEF TypeOK
      <4>3. QED BY <4>1, <4>2
    <3>4. QED
      BY <1>1, <1>2, <3>1, <3>2, <3>3 DEF Begin, Discover, Outside, icloud, tessera
  <2>2. Frame(c)
    BY <1>1, <1>2 DEF Begin, Discover, Goto, Outside, Frame
  <2>3. Underway(c)'
    BY <1>1, <1>2 DEF Begin, Discover, Goto, Outside, Underway
  <2>4. QED BY <2>1, <2>2, <2>3, FrameKept
<1>3. CASE Resolve(c)
  <2>1. PICK k \in Calendars : cal' = [cal EXCEPT ![c] = k]
    BY <1>1, <1>3, ResolveTypes
  <2>2. /\ pc[c] = "resolve" /\ pc' = [pc EXCEPT ![c] = "name"]
        /\ UNCHANGED <<req, cals, obj, result, built, retried>>
        /\ UNCHANGED <<faults, listing, nameOf, events, holds, held, approved, wire>>
    BY <1>1, <1>3, ResolveTypes DEF icloud, tessera
  <2>3. TypeOK'
    BY <1>1, <2>1, <2>2
  <2>4. Frame(c)
    BY <1>1, <2>1, <2>2 DEF Frame
  <2>5. Underway(c)'
    BY <1>1, <2>1, <2>2 DEF Underway
  <2>6. QED BY <2>3, <2>4, <2>5, FrameKept
<1>4. CASE Send(c)
  <2>1. PICK o \in Objects :
           /\ obj' = [obj EXCEPT ![c] = o]
           /\ built' = built \cup {[req |-> req[c], obj |-> o]}
    BY <1>1, <1>4, SendTypes
  <2>2. /\ pc[c] = "name" /\ pc' = [pc EXCEPT ![c] = "wait"]
        /\ wire' = [wire EXCEPT ![c].at = "tessera"]
        /\ UNCHANGED <<req, cals, cal, result, retried>>
        /\ UNCHANGED <<faults, listing, nameOf, events, holds, held, approved>>
    BY <1>1, <1>4, SendTypes DEF icloud, tessera
  <2>3. OneWire(c) /\ wire'[c].at = "tessera" /\ wire'[c].status = wire[c].status
    BY <1>1, <2>2, WireMoves DEF Wires, Places
  <2>4. TypeOK'
    <3>1. obj' \in [Calls -> Objects \cup {NoObject}]
      BY <1>1, <2>1
    <3>2. built' \subseteq [req : Requests, obj : Objects]
      BY <1>1, <2>1
    <3>3. wire' \in [Calls -> Wires]
      BY <2>3, Zenon DEF OneWire
    <3>4. QED BY <1>1, <2>2, <3>1, <3>2, <3>3 DEF Wires, Places
  <2>5. Frame(c)
    BY <1>1, <2>1, <2>2, <2>3 DEF Frame, OneWire
  <2>6. Underway(c)'
    BY <1>1, <2>1, <2>2, <2>3 DEF Underway
  <2>7. QED BY <2>4, <2>5, <2>6, FrameKept
<1>5. CASE Finishes(c)
  <2>1. PICK outcome \in Results :
           /\ result' = [result EXCEPT ![c] = outcome]
           /\ outcome = "created" =>
                 wire[c].at = "answered" /\ wire[c].status = "2xx"
           /\ outcome = "pending_approval" =>
                 wire[c].at = "answered" /\ wire[c].status = "409"
    BY <1>1, <1>5, FinishTypes
  <2>2. /\ pc[c] # "done" /\ pc' = [pc EXCEPT ![c] = "done"]
        /\ UNCHANGED <<req, cals, cal, obj, built, retried>>
        /\ UNCHANGED <<faults, listing, nameOf, events, holds, held, approved, wire>>
    BY <1>1, <1>5, FinishTypes DEF icloud, tessera
  <2>3. TypeOK'
    BY <1>1, <2>1, <2>2 DEF Results
  <2>4. Frame(c)
    BY <1>1, <2>1, <2>2 DEF Frame
  <2>5. Underway(c)'
    BY <1>1, <2>1, <2>2 DEF Underway
  <2>6. QED BY <2>3, <2>4, <2>5, FrameKept
<1>6. QED BY <1>2, <1>3, <1>4, <1>5 DEF Own, Attempt, Finishes

(* What Tessera and iCloud do with a PUT: its attempt sees an answer that  *)
(* is given once, and nothing else. *)
LEMMA UpstreamTypes ==
    ASSUME Flow, NEW c \in Calls, Upstream(c)
    PROVE  /\ OneWire(c)
           /\ wire[c].at \in {"tessera", "icloud"} /\ obj[c] \in Objects
           /\ wire'[c].at = "answered" \/ wire'[c].status = wire[c].status
           /\ events' \subseteq events \cup {obj[c]}
           /\ held' \subseteq held \cup {obj[c]}
           /\ approved' \subseteq approved
           /\ UNCHANGED <<faults, listing, nameOf, holds>>
           /\ UNCHANGED <<pc, req, cals, cal, obj, result, built, retried>>
<1> USE DEF Attempts, locals, icloud, tessera
<1>1. wire \in [Calls -> Wires] /\ MaxRedirects \in Nat /\ Underway(c)
  BY DEF Flow, TypeOK, Wires, Places
<1>2. wire[c].at \in {"tessera", "icloud"} => obj[c] \in Objects
  BY <1>1 DEF Underway
<1>3. CASE Forward(c)
  <2>1. wire' = [wire EXCEPT ![c].at = "icloud"] /\ wire[c].at = "tessera"
    BY <1>3 DEF Forward, Move
  <2>2. OneWire(c) /\ wire'[c].status = wire[c].status
    BY <1>1, <2>1, WireMoves DEF Places
  <2>3. QED BY <1>2, <1>3, <2>1, <2>2 DEF Forward, Move
<1>4. ASSUME NEW from \in {"tessera", "icloud"}, NEW status \in Statuses,
             Answer(c, from, status)
      PROVE  /\ OneWire(c) /\ wire[c].at = from /\ wire'[c].at = "answered"
             /\ UNCHANGED <<pc, req, cals, cal, obj, result, built, retried>>
  <2>1. wire' = [wire EXCEPT ![c].at = "answered", ![c].status = status]
    BY <1>4 DEF Answer
  <2>2. OneWire(c) /\ wire'[c].at = "answered"
    BY <1>1, <2>1, WireAnswered
  <2>3. QED BY <1>4, <2>2 DEF Answer
<1>5. {"2xx", "409", "401_403", "424", "other"} \subseteq Statuses
  BY DEF Statuses
<1>6. CASE Hold(c)
  BY <1>2, <1>4, <1>5, <1>6 DEF Hold
<1>7. CASE Deny(c) \/ Refuse(c)
  BY <1>2, <1>4, <1>5, <1>7 DEF Deny, Refuse
<1>8. CASE Store(c) \/ Get(c)
  BY <1>2, <1>4, <1>5, <1>8 DEF Store, Get
<1>9. CASE Redirect(c)
  <2>1. PICK method \in {wire[c].method, "GET"} :
           wire' = [wire EXCEPT ![c].at = IF pc[c] = "wait" THEN "tessera" ELSE "nowhere",
                                ![c].method = method, ![c].hop = @ + 1]
    BY <1>9 DEF Redirect
  <2>2. wire[c].method \in {"PUT", "GET"} /\ wire[c].hop < MaxRedirects
    BY <1>1, <1>9 DEF Redirect, Wires
  <2>3. OneWire(c) /\ wire'[c].status = wire[c].status
    <3> DEFINE to == IF pc[c] = "wait" THEN "tessera" ELSE "nowhere"
    <3>1. to \in Places /\ method \in {"PUT", "GET"}
      BY <2>1, <2>2 DEF Places
    <3> HIDE DEF to
    <3>2. QED BY <1>1, <2>1, <2>2, <3>1, WireRedirected DEF to
  <2>4. QED BY <1>2, <1>9, <2>3 DEF Redirect
<1>10. QED BY <1>3, <1>6, <1>7, <1>8, <1>9 DEF Upstream

LEMMA UpstreamStep ==
    ASSUME Flow, NEW c \in Calls, Upstream(c)
    PROVE  Flow'
<1>1. /\ OneWire(c)
      /\ wire[c].at \in {"tessera", "icloud"} /\ obj[c] \in Objects
      /\ wire'[c].at = "answered" \/ wire'[c].status = wire[c].status
      /\ events' \subseteq events \cup {obj[c]}
      /\ held' \subseteq held \cup {obj[c]}
      /\ approved' \subseteq approved
      /\ UNCHANGED <<faults, listing, nameOf, holds>>
      /\ UNCHANGED <<pc, req, cals, cal, obj, result, built, retried>>
  BY UpstreamTypes
<1>2. TypeOK'
  BY <1>1 DEF Flow, TypeOK, OneWire, Wires, Places
<1>3. Frame(c)
  BY <1>1 DEF Flow, TypeOK, Frame, OneWire
<1>4. Underway(c)'
  BY <1>1 DEF Flow, Underway
<1>5. QED BY <1>2, <1>3, <1>4, FrameKept

(* The person, and time. *)
World ==
    \/ \E o \in held \cup approved : Approve(o) \/ Expire(o)
    \/ \E k \in Calendars, name \in Names : Rename(k, name)
    \/ Reorder

LEMMA WorldTypes ==
    ASSUME Flow, World
    PROVE  /\ held' \subseteq Objects /\ approved' \subseteq Objects
           /\ listing' \in SetToSeqs(Calendars) /\ nameOf' \in [Calendars -> Names]
           /\ "reordered" \notin faults => listing' = listing
           /\ "renamed" \notin faults => nameOf' = nameOf
           /\ "expired" \notin faults => approved \subseteq approved'
           /\ UNCHANGED <<faults, events, holds, wire>>
           /\ UNCHANGED <<pc, req, cals, cal, obj, result, built, retried>>
<1> USE DEF Flow, TypeOK, Attempts, locals, tessera
<1>1. CASE \E o \in held \cup approved : Approve(o) \/ Expire(o)
  BY <1>1 DEF Approve, Expire, icloud
<1>2. CASE \E k \in Calendars, name \in Names : Rename(k, name)
  BY <1>2 DEF Rename
<1>3. CASE Reorder
  BY <1>3 DEF Reorder
<1>4. QED BY <1>1, <1>2, <1>3 DEF World

LEMMA NextSplits ==
    ASSUME [Next]_vars
    PROVE  \/ \E c \in Calls : Own(c) \/ Upstream(c)
           \/ World
           \/ UNCHANGED vars
BY DEF Next, Own, World

LEMMA SameVars ==
    ASSUME UNCHANGED vars
    PROVE  /\ UNCHANGED <<faults, listing, nameOf, events, holds, held, approved>>
           /\ UNCHANGED <<pc, req, cals, cal, obj, result, wire, built, retried>>
BY DEF vars, icloud, tessera, locals

LEMMA FlowStep == Flow /\ [Next]_vars => Flow'
<1> SUFFICES ASSUME Flow, [Next]_vars PROVE Flow'
  OBVIOUS
<1>1. CASE \E c \in Calls : Own(c) \/ Upstream(c)
  BY <1>1, OwnStep, UpstreamStep
<1>2. CASE World
  BY <1>2, WorldTypes DEF Flow, TypeOK, Underway
<1>3. CASE UNCHANGED vars
  BY <1>3, SameVars DEF Flow, TypeOK, Underway
<1>4. QED BY <1>1, <1>2, <1>3, NextSplits

LEMMA FlowInit == Init => Flow
<1> SUFFICES ASSUME Init PROVE Flow
  OBVIOUS
<1>1. TypeOK
  BY DEF Init, TypeOK, Statuses
<1>2. QED BY <1>1 DEF Init, Flow, Underway

(* What every step leaves alone: an attempt keeps its arguments, a built   *)
(* object stays built, and its own steps touch neither iCloud nor Tessera, *)
(* nor an answer. *)
LEMMA OwnFrame ==
    ASSUME Flow, NEW c \in Calls, Own(c)
    PROVE  /\ UNCHANGED <<faults, listing, nameOf, events, holds, held, approved, req>>
           /\ \A d \in Calls :
                /\ wire'[d].method = wire[d].method /\ wire'[d].status = wire[d].status
                /\ obj'[d] = obj[d] \/ wire[d].status = "none"
<1> USE DEF icloud, tessera, Outside
<1>1. TypeOK /\ Underway(c)
  BY DEF Flow
<1>2. CASE Begin(c) \/ Discover(c)
  BY <1>2 DEF Begin, Discover
<1>3. CASE Resolve(c)
  BY <1>1, <1>3, ResolveTypes
<1>4. CASE Send(c)
  <2>1. /\ pc[c] = "name" /\ wire' = [wire EXCEPT ![c].at = "tessera"]
        /\ UNCHANGED <<faults, listing, nameOf, events, holds, held, approved, req>>
    BY <1>1, <1>4, SendTypes
  <2>2. \A d \in Calls : obj'[d] = obj[d] \/ d = c
    BY <1>1, <1>4, SendTypes DEF TypeOK
  <2>3. wire[c].status = "none"
    BY <1>1, <2>1 DEF Underway
  <2>4. /\ wire \in [Calls -> Wires] /\ OneWire(c)
        /\ wire'[c].method = wire[c].method /\ wire'[c].status = wire[c].status
    BY <1>1, <2>1, WireMoves DEF TypeOK, Wires, Places
  <2>5. \A d \in Calls : d # c => wire'[d] = wire[d]
    BY <2>4 DEF OneWire
  <2>6. QED BY <2>1, <2>2, <2>3, <2>4, <2>5
<1>5. CASE Finishes(c)
  BY <1>1, <1>5, FinishTypes
<1>6. QED BY <1>2, <1>3, <1>4, <1>5 DEF Own, Attempt, Finishes

(* An event, once stored, is only ever replaced by one of the same UID.    *)
LEMMA EventsStep ==
    ASSUME Flow, [Next]_vars
    PROVE  events' = events \/ \E c \in Calls : Store(c)
<1>1. CASE \E c \in Calls : Own(c)
  BY <1>1, OwnFrame
<1>2. ASSUME NEW c \in Calls, Upstream(c) PROVE events' = events \/ Store(c)
  BY <1>2 DEF Upstream, Forward, Hold, Deny, Get, Refuse, Redirect
<1>3. CASE World
  BY <1>3, WorldTypes
<1>4. CASE UNCHANGED vars
  BY <1>4, SameVars
<1>5. QED BY <1>1, <1>2, <1>3, <1>4, NextSplits

LEMMA StoredStays ==
    ASSUME Flow, [Next]_vars, NEW o, Stored(o)
    PROVE  \E e \in events' : Same(e, o)
<1>1. CASE events' = events
  BY <1>1 DEF Stored
<1>2. ASSUME NEW c \in Calls, Store(c) PROVE \E e \in events' : Same(e, o)
  <2>1. PICK e \in events : Same(e, o)
    BY DEF Stored
  <2>2. events' = {f \in events : ~Same(f, obj[c])} \cup {obj[c]}
    BY <1>2 DEF Store
  <2>3. CASE Same(e, obj[c])
    BY <2>1, <2>2, <2>3 DEF Same
  <2>4. CASE ~Same(e, obj[c])
    BY <2>1, <2>2, <2>4
  <2>5. QED BY <2>3, <2>4
<1>3. QED BY <1>1, <1>2, EventsStep

(* Who answers what: only Store and Get give a 2xx, only Hold a 409 unless *)
(* iCloud has a conflict, and only a 303 turns the PUT into a GET. *)
LEMMA Answers ==
    ASSUME Flow, NEW c \in Calls, Upstream(c)
    PROVE  /\ wire'[c].method = wire[c].method \/ "see_other" \in faults
           /\ wire'[c].status = "2xx" =>
                 wire[c].status = "2xx" \/ wire[c].method = "GET" \/ Store(c)
           /\ wire'[c].status = "409" =>
                 wire[c].status = "409" \/ Hold(c) \/ "conflict" \in faults
<1>1. wire \in [Calls -> Wires] /\ MaxRedirects \in Nat
  BY DEF Flow, TypeOK, Wires, Places
<1>2. CASE Forward(c)
  <2>1. wire' = [wire EXCEPT ![c].at = "icloud"]
    BY <1>2 DEF Forward, Move
  <2>2. QED BY <1>1, <2>1, WireMoves DEF Places
<1>3. ASSUME NEW from, NEW status \in Statuses, Answer(c, from, status)
      PROVE  wire'[c].method = wire[c].method /\ wire'[c].status = status
  <2>1. wire' = [wire EXCEPT ![c].at = "answered", ![c].status = status]
    BY <1>3 DEF Answer
  <2>2. QED BY <1>1, <2>1, WireAnswered
<1>4. {"2xx", "409", "401_403", "424", "other"} \subseteq Statuses
  BY DEF Statuses
<1>5. CASE Hold(c)
  BY <1>3, <1>4, <1>5 DEF Hold
<1>6. CASE Deny(c) \/ Refuse(c)
  BY <1>3, <1>4, <1>6 DEF Deny, Refuse
<1>7. CASE Store(c)
  BY <1>3, <1>4, <1>7 DEF Store
<1>8. CASE Get(c)
  BY <1>3, <1>4, <1>8 DEF Get
<1>9. CASE Redirect(c)
  <2> DEFINE to == IF pc[c] = "wait" THEN "tessera" ELSE "nowhere"
  <2>1. PICK method \in {wire[c].method, "GET"} :
           /\ "see_other" \notin faults => method = wire[c].method
           /\ wire' = [wire EXCEPT ![c].at = to, ![c].method = method, ![c].hop = @ + 1]
    BY <1>9 DEF Redirect
  <2>2. method \in {"PUT", "GET"} /\ wire[c].hop < MaxRedirects /\ to \in Places
    BY <1>1, <1>9, <2>1 DEF Redirect, Wires, Places
  <2> HIDE DEF to
  <2>3. wire'[c].method = method /\ wire'[c].status = wire[c].status
    BY <1>1, <2>1, <2>2, WireRedirected
  <2>4. QED BY <2>1, <2>3
<1>10. QED BY <1>2, <1>5, <1>6, <1>7, <1>8, <1>9 DEF Upstream

(* Without a 303 every hop is a PUT, so a 2xx is iCloud's to the PUT. *)
Truthful ==
    Free({"see_other"}) =>
        \A c \in Calls : /\ wire[c].method = "PUT"
                         /\ wire[c].status = "2xx" => Stored(obj[c])

LEMMA TruthfulStep == Flow /\ Truthful /\ [Next]_vars => Truthful'
<1> SUFFICES ASSUME Flow, Truthful, [Next]_vars, Free({"see_other"})',
                    NEW d \in Calls
             PROVE  /\ wire'[d].method = "PUT"
                    /\ wire'[d].status = "2xx" => \E e \in events' : Same(e, obj'[d])
  BY DEF Truthful, Stored
<1>1. faults' = faults =>
        /\ "see_other" \notin faults
        /\ \A c \in Calls : wire[c].method = "PUT"
        /\ \A c \in Calls : wire[c].status = "2xx" => Stored(obj[c])
  BY DEF Truthful, Free
<1>2. \A c \in Calls : Stored(obj[c]) => \E e \in events' : Same(e, obj[c])
  BY StoredStays
<1>3. ASSUME NEW c \in Calls, Own(c)
      PROVE  /\ wire'[d].method = "PUT"
             /\ wire'[d].status = "2xx" => \E e \in events' : Same(e, obj'[d])
  <2>1. /\ faults' = faults
        /\ wire'[d].method = wire[d].method /\ wire'[d].status = wire[d].status
        /\ obj'[d] = obj[d] \/ wire[d].status = "none"
    BY <1>3, OwnFrame
  <2>2. QED BY <1>1, <1>2, <2>1
<1>4. ASSUME NEW c \in Calls, Upstream(c)
      PROVE  /\ wire'[d].method = "PUT"
             /\ wire'[d].status = "2xx" => \E e \in events' : Same(e, obj'[d])
  <2>1. faults' = faults /\ obj' = obj /\ (d # c => wire'[d] = wire[d])
    BY <1>4, UpstreamTypes DEF OneWire, Flow, TypeOK
  <2>2. CASE d # c
    BY <1>1, <1>2, <2>1, <2>2
  <2>3. CASE d = c
    <3>1. wire'[c].method = "PUT"
      BY <1>1, <1>4, <2>1, Answers
    <3>2. wire'[c].status = "2xx" => wire[c].status = "2xx" \/ Store(c)
      BY <1>1, <1>4, <2>1, Answers
    <3>3. Store(c) => \E e \in events' : Same(e, obj[c])
      BY DEF Store, Same
    <3>4. QED BY <1>1, <1>2, <2>1, <2>3, <3>1, <3>2, <3>3
  <2>4. QED BY <2>2, <2>3
<1>5. CASE World
  <2>1. UNCHANGED <<faults, events, wire, obj>>
    BY <1>5, WorldTypes
  <2>2. QED BY <1>1, <2>1 DEF Stored
<1>6. CASE UNCHANGED vars
  <2>1. UNCHANGED <<faults, events, wire, obj>>
    BY <1>6, SameVars
  <2>2. QED BY <1>1, <2>1 DEF Stored
<1>7. QED BY <1>3, <1>4, <1>5, <1>6, NextSplits

(* Which calendar a request names while iCloud's answers do not change, and *)
(* which object it is turned into. *)
Wanted(r, i) ==
    r.calendar = NoName \/ Bears(listing[i], r)

Picked(r, k) ==
    \E i \in DOMAIN listing :
        /\ k = listing[i] /\ Wanted(r, i)
        /\ \A j \in DOMAIN listing : Wanted(r, j) => i <= j

Built(b) ==
    /\ b.obj.uid = [name |-> nameOf[b.obj.cal], content |-> b.req.content]
    /\ b.obj.location = b.req.location

NamedRight == Free({"unreadable", "renamed"}) => \A b \in built : Built(b)

(* Whatever the order, the calendar has the name asked for, if one was.    *)
Fits(r, k) == k \in Calendars /\ (r.calendar = NoName \/ Bears(k, r))

Fitting ==
    Free({"unreadable", "renamed"}) =>
        /\ \A c \in Calls : pc[c] = "name" => Fits(req[c], cal[c])
        /\ \A b \in built : Fits(b.req, b.obj.cal)

Chosen ==
    Free({"unreadable", "renamed", "reordered"}) =>
        /\ \A c \in Calls : /\ pc[c] = "resolve" => cals[c] = listing
                            /\ pc[c] = "name" => Picked(req[c], cal[c])
        /\ \A b \in built : Picked(b.req, b.obj.cal)

LEMMA PickedOnce ==
    ASSUME TypeOK, NEW r, NEW k, NEW l, Picked(r, k), Picked(r, l)
    PROVE  k = l
<1>1. DOMAIN listing = 1 .. Cardinality(Calendars) /\ Cardinality(Calendars) \in Nat
  BY Orders DEF TypeOK
<1>2. PICK i \in DOMAIN listing :
        /\ k = listing[i] /\ Wanted(r, i)
        /\ \A j \in DOMAIN listing : Wanted(r, j) => i <= j
  BY DEF Picked
<1>3. PICK j \in DOMAIN listing :
        /\ l = listing[j] /\ Wanted(r, j)
        /\ \A h \in DOMAIN listing : Wanted(r, h) => j <= h
  BY DEF Picked
<1>4. i = j
  BY <1>1, <1>2, <1>3
<1>5. QED BY <1>2, <1>3, <1>4

LEMMA OneObject ==
    ASSUME TypeOK, NamedRight, Fitting, Chosen
    PROVE  SameObjectIfStable
<1> SUFFICES ASSUME Free({"unreadable", "renamed"}), NEW b \in built, NEW d \in built,
                    b.req = d.req, Free({"reordered"}) \/ Unambiguous(b.req)
             PROVE  b.obj = d.obj
  BY DEF SameObjectIfStable
<1>1. b.obj.cal = d.obj.cal
  <2>1. CASE Free({"reordered"})
    <3>1. Free({"unreadable", "renamed", "reordered"})
      BY <2>1 DEF Free
    <3>2. QED BY <3>1, PickedOnce DEF Chosen
  <2>2. CASE Unambiguous(b.req)
    BY <2>2 DEF Fitting, Fits, Unambiguous
  <2>3. QED BY <2>1, <2>2
<1>2. Built(b) /\ Built(d)
  BY DEF NamedRight, Free
<1>3. b.obj \in Objects /\ d.obj \in Objects
  BY DEF TypeOK
<1>4. QED BY <1>1, <1>2, <1>3 DEF Built, Objects

(* An attempt's calendar has the name its request asks for. *)
LEMMA ResolveFits ==
    ASSUME TypeOK, NEW c \in Calls, Resolve(c)
    PROVE  Fits(req[c], cal'[c])
<1>1. PICK k \in Calendars : cal' = [cal EXCEPT ![c] = k]
  BY ResolveTypes
<1>2. PICK readable \in Readable(Calendars) :
         \E i \in Matches(c, readable) : cal' = [cal EXCEPT ![c] = cals[c][i]]
  BY DEF Resolve
<1> PICK i \in Matches(c, readable) : cal' = [cal EXCEPT ![c] = cals[c][i]]
  BY <1>2
<1>3. cal'[c] = cals[c][i] /\ cal'[c] \in Calendars
  BY <1>1, <1>2 DEF TypeOK
<1>4. QED BY <1>2, <1>3 DEF Fits, Matches, Named

(* How an attempt comes to its calendar and its object. *)
LEMMA ResolvePicks ==
    ASSUME TypeOK, NEW c \in Calls, Resolve(c), cals[c] = listing,
           "unreadable" \notin faults
    PROVE  Picked(req[c], cal'[c])
<1>1. PICK i \in Matches(c, Calendars) :
        /\ \A j \in Matches(c, Calendars) : i <= j
        /\ cal' = [cal EXCEPT ![c] = cals[c][i]]
  BY DEF Resolve, Readable
<1>2. \A j : j \in Matches(c, Calendars) <=> j \in DOMAIN listing /\ Wanted(req[c], j)
  <2>1. \A j \in DOMAIN listing : listing[j] \in Calendars
    <3>1. listing \in [1 .. Cardinality(Calendars) -> Calendars]
      BY Orders DEF TypeOK
    <3>2. QED BY <3>1
  <2>2. req[c].calendar = NoName => \A j : Wanted(req[c], j)
    BY DEF Wanted
  <2>3. CASE req[c].calendar = NoName
    BY <2>2, <2>3 DEF Matches
  <2>4. CASE req[c].calendar # NoName
    BY <2>1, <2>4 DEF Matches, Named, Wanted
  <2>5. QED BY <2>3, <2>4
<1>3. cal'[c] = listing[i]
  BY <1>1 DEF TypeOK
<1>4. QED BY <1>1, <1>2, <1>3 DEF Picked

LEMMA OwnChoice ==
    ASSUME Flow, NEW c \in Calls, Own(c)
    PROVE  /\ \/ built' = built
              \/ /\ pc[c] = "name"
                 /\ \E o \in Objects :
                      /\ built' = built \cup {[req |-> req[c], obj |-> o]}
                      /\ o.cal = cal[c]
                      /\ "unreadable" \notin faults =>
                            Built([req |-> req[c], obj |-> o])
           /\ pc' = [pc EXCEPT ![c] = pc'[c]]
           /\ cals' = [cals EXCEPT ![c] = cals'[c]]
           /\ cal' = [cal EXCEPT ![c] = cal'[c]]
           /\ pc'[c] = "resolve" => cals'[c] = listing
           /\ pc'[c] = "name" => pc[c] = "resolve" /\ Resolve(c)
<1> USE DEF icloud, tessera, Outside, Goto
<1>1. TypeOK /\ Underway(c)
  BY DEF Flow
<1>2. CASE Begin(c) \/ Discover(c)
  BY <1>1, <1>2 DEF Begin, Discover, TypeOK
<1>3. CASE Resolve(c)
  BY <1>1, <1>3, ResolveTypes DEF TypeOK
<1>4. CASE Send(c)
  <2>1. /\ pc[c] = "name" /\ pc' = [pc EXCEPT ![c] = "wait"]
        /\ UNCHANGED <<cals, cal>>
    BY <1>1, <1>4, SendTypes
  <2>2. PICK name \in Names \cup {NoName} :
           LET o == Build(req[c], cal[c], name)
           IN  /\ "unreadable" \notin faults => name = nameOf[cal[c]]
               /\ built' = built \cup {[req |-> req[c], obj |-> o]}
               /\ o \in Objects
    BY <1>1, <1>4, SendTypes
  <2> DEFINE o == Build(req[c], cal[c], name)
  <2>3. /\ o.cal = cal[c]
        /\ "unreadable" \notin faults => Built([req |-> req[c], obj |-> o])
    BY <2>2 DEF Build, Built
  <2>4. /\ o \in Objects /\ built' = built \cup {[req |-> req[c], obj |-> o]}
    BY <2>2
  <2> HIDE DEF o
  <2>5. QED BY <1>1, <2>1, <2>3, <2>4 DEF TypeOK
<1>5. CASE Finishes(c)
  BY <1>1, <1>5, FinishTypes DEF TypeOK
<1>6. QED BY <1>2, <1>3, <1>4, <1>5 DEF Own, Attempt, Finishes

Choice == NamedRight /\ Fitting /\ Chosen

LEMMA ChoiceStep == Flow /\ Choice /\ [Next]_vars => Choice'
<1> SUFFICES ASSUME Flow, Choice, [Next]_vars PROVE Choice'
  OBVIOUS
<1>1. ASSUME NEW c \in Calls, Own(c) PROVE Choice'
  <2>1. UNCHANGED <<faults, listing, nameOf, req>>
    BY <1>1, OwnFrame
  <2>2. /\ \A b : Built(b)' <=> Built(b)
        /\ \A r, k : Picked(r, k)' <=> Picked(r, k)
        /\ \A r, k : Fits(r, k)' <=> Fits(r, k)
    BY <2>1 DEF Built, Picked, Wanted, Fits, Bears
  <2>3. \A b \in built' :
           \/ b \in built
           \/ /\ pc[c] = "name" /\ b.req = req[c] /\ b.obj.cal = cal[c]
              /\ "unreadable" \notin faults => Built(b)
    <3>1. CASE built' = built
      BY <3>1
    <3>2. ASSUME NEW o \in Objects, pc[c] = "name", o.cal = cal[c],
                 built' = built \cup {[req |-> req[c], obj |-> o]},
                 "unreadable" \notin faults => Built([req |-> req[c], obj |-> o])
          PROVE  \A b \in built' :
                    \/ b \in built
                    \/ /\ pc[c] = "name" /\ b.req = req[c] /\ b.obj.cal = cal[c]
                       /\ "unreadable" \notin faults => Built(b)
      BY <3>2
    <3>3. QED BY <1>1, <3>1, <3>2, OwnChoice
  <2>4. NamedRight'
    <3>1. Free({"unreadable", "renamed"}) => \A b \in built' : Built(b)
      BY <2>3 DEF Choice, NamedRight, Free
    <3>2. QED BY <2>1, <3>1 DEF NamedRight, Free, Built
  <2>5. Chosen'
    <3> SUFFICES ASSUME Free({"unreadable", "renamed", "reordered"})
                 PROVE  /\ \A d \in Calls :
                             /\ pc'[d] = "resolve" => cals'[d] = listing
                             /\ pc'[d] = "name" => Picked(req[d], cal'[d])
                        /\ \A b \in built' : Picked(b.req, b.obj.cal)
      BY <2>1 DEF Chosen, Free, Picked, Wanted, Bears
    <3>1. /\ \A d \in Calls : pc[d] = "resolve" => cals[d] = listing
          /\ \A d \in Calls : pc[d] = "name" => Picked(req[d], cal[d])
          /\ \A b \in built : Picked(b.req, b.obj.cal)
          /\ "unreadable" \notin faults
      BY DEF Choice, Chosen, Free
    <3>2. \A d \in Calls :
             d # c => pc'[d] = pc[d] /\ cals'[d] = cals[d] /\ cal'[d] = cal[d]
      BY <1>1, OwnChoice DEF Flow, TypeOK
    <3>3. pc'[c] = "resolve" => cals'[c] = listing
      BY <1>1, OwnChoice
    <3>4. pc'[c] = "name" => Picked(req[c], cal'[c])
      <4>1. ASSUME pc'[c] = "name" PROVE Picked(req[c], cal'[c])
        <5>1. pc[c] = "resolve" /\ Resolve(c)
          BY <1>1, <4>1, OwnChoice
        <5>2. cals[c] = listing
          BY <3>1, <5>1
        <5>3. QED BY <3>1, <5>1, <5>2, ResolvePicks DEF Flow
      <4>2. QED BY <4>1
    <3>5. \A b \in built' : Picked(b.req, b.obj.cal)
      BY <2>3, <3>1
    <3>6. \A d \in Calls : pc'[d] = "resolve" => cals'[d] = listing
      BY <3>1, <3>2, <3>3
    <3>7. \A d \in Calls : pc'[d] = "name" => Picked(req[d], cal'[d])
      BY <3>1, <3>2, <3>4
    <3>8. QED BY <3>5, <3>6, <3>7
  <2>6. Fitting'
    <3> SUFFICES ASSUME Free({"unreadable", "renamed"})
                 PROVE  /\ \A d \in Calls : pc'[d] = "name" => Fits(req[d], cal'[d])
                        /\ \A b \in built' : Fits(b.req, b.obj.cal)
      BY <2>1 DEF Fitting, Free, Fits, Bears
    <3>1. /\ \A d \in Calls : pc[d] = "name" => Fits(req[d], cal[d])
          /\ \A b \in built : Fits(b.req, b.obj.cal)
      BY DEF Choice, Fitting
    <3>2. \A d \in Calls : d # c => pc'[d] = pc[d] /\ cal'[d] = cal[d]
      BY <1>1, OwnChoice DEF Flow, TypeOK
    <3>3. pc'[c] = "name" => Fits(req[c], cal'[c])
      BY <1>1, OwnChoice, ResolveFits DEF Flow
    <3>4. \A b \in built' : Fits(b.req, b.obj.cal)
      BY <2>3, <3>1
    <3>5. QED BY <3>1, <3>2, <3>3, <3>4
  <2>7. QED BY <2>4, <2>5, <2>6 DEF Choice
<1>2. CASE \E c \in Calls : Upstream(c)
  <2>1. UNCHANGED <<faults, listing, nameOf, pc, req, cals, cal, built>>
    BY <1>2, UpstreamTypes
  <2>2. NamedRight' /\ Chosen'
    BY <2>1 DEF Choice, NamedRight, Chosen, Free, Built, Picked, Wanted, Bears
  <2>3. Fitting'
    BY <2>1 DEF Choice, Fitting, Free, Fits, Bears
  <2>4. QED BY <2>2, <2>3 DEF Choice
<1>3. CASE World
  <2>1. /\ UNCHANGED <<faults, pc, req, cals, cal, built>>
        /\ "reordered" \notin faults => listing' = listing
        /\ "renamed" \notin faults => nameOf' = nameOf
    BY <1>3, WorldTypes
  <2>2. NamedRight'
    BY <2>1 DEF Choice, NamedRight, Free, Built
  <2>3. Chosen'
    BY <2>1 DEF Choice, Chosen, Free, Picked, Wanted, Bears
  <2>4. Fitting'
    BY <2>1 DEF Choice, Fitting, Free, Fits, Bears
  <2>5. QED BY <2>2, <2>3, <2>4 DEF Choice
<1>4. CASE UNCHANGED vars
  <2>1. UNCHANGED <<faults, listing, nameOf, pc, req, cals, cal, built>>
    BY <1>4, SameVars
  <2>2. NamedRight' /\ Chosen'
    BY <2>1 DEF Choice, NamedRight, Chosen, Free, Built, Picked, Wanted, Bears
  <2>3. Fitting'
    BY <2>1 DEF Choice, Fitting, Free, Fits, Bears
  <2>4. QED BY <2>2, <2>3 DEF Choice
<1>5. QED BY <1>1, <1>2, <1>3, <1>4, NextSplits

(* iCloud keeps one object per UID, each of which some attempt has built.  *)
Events ==
    /\ \A e, f \in events : Same(e, f) => e = f
    /\ \A e \in events : \E b \in built : b.obj = e

LEMMA EventsKept == Flow /\ Events /\ [Next]_vars => Events'
<1> SUFFICES ASSUME Flow, Events, [Next]_vars PROVE Events'
  OBVIOUS
<1>1. built \subseteq built'
  <2>1. CASE \E c \in Calls : Own(c)
    BY <2>1, OwnChoice
  <2>2. CASE \E c \in Calls : Upstream(c)
    BY <2>2, UpstreamTypes
  <2>3. CASE World \/ UNCHANGED vars
    BY <2>3, WorldTypes, SameVars
  <2>4. QED BY <2>1, <2>2, <2>3, NextSplits
<1>2. CASE events' = events
  BY <1>1, <1>2 DEF Events
<1>3. ASSUME NEW c \in Calls, Store(c) PROVE Events'
  <2>1. events' = {e \in events : ~Same(e, obj[c])} \cup {obj[c]}
    BY <1>3 DEF Store
  <2>2. wire[c].at = "icloud"
    BY <1>3 DEF Store, Answer
  <2>3. \E b \in built : b.obj = obj[c]
    <3>1. [req |-> req[c], obj |-> obj[c]] \in built
      BY <2>2 DEF Flow, Underway
    <3>2. QED BY <3>1
  <2>4. \A e, f \in events' : Same(e, f) => e = f
    BY <2>1 DEF Events, Same
  <2>5. QED BY <1>1, <2>1, <2>3, <2>4 DEF Events
<1>4. QED BY <1>2, <1>3, EventsStep

LEMMA OneEvent ==
    ASSUME Flow, Choice, Events
    PROVE  NoDuplicate
<1> SUFFICES ASSUME Free({"unreadable", "renamed"}), NEW e \in events, NEW f \in events,
                    e.cal = f.cal, e.uid.content = f.uid.content
             PROVE  e = f
  BY DEF NoDuplicate
<1>1. PICK b \in built : b.obj = e
  BY DEF Events
<1>2. PICK d \in built : d.obj = f
  BY DEF Events
<1>3. Built(b) /\ Built(d)
  BY DEF Choice, NamedRight
<1>4. e.uid = [name |-> nameOf[e.cal], content |-> e.uid.content]
  BY <1>1, <1>3 DEF Built
<1>5. f.uid = [name |-> nameOf[f.cal], content |-> f.uid.content]
  BY <1>2, <1>3 DEF Built
<1>6. Same(e, f)
  BY <1>4, <1>5 DEF Same
<1>7. QED BY <1>6 DEF Events

(* An attempt begun with the write approved: the approval is there until   *)
(* the event is, so Tessera holds it only when the event is stored. *)
Steady == Free(AllFaults \ {"moved", "see_other"})

Retries ==
    Steady =>
        \A c \in retried :
            /\ \E b \in built : b.req = req[c] /\ (b.obj \in approved \/ Stored(b.obj))
            /\ wire[c].status = "409" => Stored(obj[c])

LEMMA BeginsRetry ==
    ASSUME Flow, NEW c \in Calls, Own(c)
    PROVE  /\ built \subseteq built' /\ retried' \subseteq retried \cup {c}
           /\ c \in retried' \ retried =>
                 /\ wire[c].status = "none"
                 /\ \E b \in built : b.req = req[c] /\ b.obj \in approved
<1>1. built \subseteq built'
  BY OwnChoice
<1>2. CASE Begin(c)
  <2>1. wire[c].status = "none"
    BY <1>2 DEF Begin, Goto, Flow, Underway
  <2>2. QED BY <1>1, <1>2, <2>1 DEF Begin
<1>3. CASE Discover(c) \/ Resolve(c) \/ Send(c)
  BY <1>1, <1>3 DEF Discover, Resolve, Send
<1>4. CASE Finishes(c)
  BY <1>1, <1>4, FinishTypes DEF Flow
<1>5. QED BY <1>2, <1>3, <1>4 DEF Own, Attempt, Finishes

LEMMA ApprovalStays ==
    ASSUME Flow, NEW c \in Calls, Upstream(c), NEW o \in approved
    PROVE  o \in approved' \/ \E e \in events' : Same(e, o)
<1>1. CASE Store(c)
  <2>1. approved' \in {approved, approved \ {obj[c]}} /\ obj[c] \in events'
    BY <1>1 DEF Store
  <2>2. QED BY <2>1 DEF Same
<1>2. CASE ~Store(c)
  BY <1>2 DEF Upstream, Forward, Hold, Deny, Get, Refuse, Redirect, tessera
<1>3. QED BY <1>1, <1>2

LEMMA RetriesStep == Flow /\ Choice /\ Retries /\ [Next]_vars => Retries'
<1> SUFFICES ASSUME Flow, Choice, Retries, [Next]_vars, Steady',
                    NEW d \in retried'
             PROVE  /\ \E b \in built' :
                          /\ b.req = req'[d]
                          /\ b.obj \in approved' \/ \E e \in events' : Same(e, b.obj)
                    /\ wire'[d].status = "409" => \E e \in events' : Same(e, obj'[d])
  BY DEF Retries, Stored
<1> DEFINE Goal ==
             /\ \E b \in built' :
                   /\ b.req = req'[d]
                   /\ b.obj \in approved' \/ \E e \in events' : Same(e, b.obj)
             /\ wire'[d].status = "409" => \E e \in events' : Same(e, obj'[d])
<1>1. \A o : Stored(o) => \E e \in events' : Same(e, o)
  BY StoredStays
<1>2. ASSUME faults' = faults, d \in retried
      PROVE  /\ \E b \in built :
                   b.req = req[d] /\ (b.obj \in approved \/ Stored(b.obj))
             /\ wire[d].status = "409" => Stored(obj[d])
             /\ Steady
  BY <1>2 DEF Retries, Steady, Free
<1>3. ASSUME NEW c \in Calls, Own(c) PROVE Goal
  <2>1. /\ UNCHANGED <<faults, events, approved, req>> /\ built \subseteq built'
        /\ retried' \subseteq retried \cup {c}
        /\ c \in retried' \ retried =>
              /\ wire[c].status = "none"
              /\ \E b \in built : b.req = req[c] /\ b.obj \in approved
    BY <1>3, OwnFrame, BeginsRetry
  <2>2. d \in Calls
    BY <2>1 DEF Flow, TypeOK
  <2>3. /\ wire'[d].status = wire[d].status
        /\ obj'[d] = obj[d] \/ wire[d].status = "none"
    BY <1>3, <2>2, OwnFrame
  <2>4. CASE d \in retried
    <3>1. PICK b \in built :
             b.req = req[d] /\ (b.obj \in approved \/ Stored(b.obj))
      BY <1>2, <2>1, <2>4
    <3>2. wire[d].status = "409" => Stored(obj[d])
      BY <1>2, <2>1, <2>4
    <3>3. \E a \in built' :
             /\ a.req = req'[d]
             /\ a.obj \in approved' \/ \E e \in events' : Same(e, a.obj)
      BY <1>1, <2>1, <3>1
    <3>4. wire'[d].status = "409" => \E e \in events' : Same(e, obj'[d])
      BY <1>1, <2>3, <3>2
    <3>5. QED BY <3>3, <3>4
  <2>5. CASE d \notin retried
    <3>1. d = c /\ wire[d].status = "none"
      BY <2>1, <2>5
    <3>2. PICK b \in built : b.req = req[d] /\ b.obj \in approved
      BY <2>1, <2>5, <3>1
    <3>3. QED BY <2>1, <2>3, <3>1, <3>2
  <2>6. QED BY <2>4, <2>5
<1>4. ASSUME NEW c \in Calls, Upstream(c) PROVE Goal
  <2>1. /\ UNCHANGED <<faults, req, obj, built, retried>>
        /\ d # c => wire'[d] = wire[d]
    BY <1>4, UpstreamTypes DEF OneWire, Flow, TypeOK
  <2>2. d \in retried /\ d \in Calls
    BY <2>1 DEF Flow, TypeOK
  <2>3. PICK b \in built : b.req = req[d] /\ (b.obj \in approved \/ Stored(b.obj))
    BY <1>2, <2>1, <2>2
  <2>4. (wire[d].status = "409" => Stored(obj[d])) /\ Steady
    BY <1>2, <2>1, <2>2
  <2>5. b.obj \in approved' \/ \E e \in events' : Same(e, b.obj)
    BY <1>1, <1>4, <2>3, ApprovalStays
  <2>6. wire'[d].status = "409" => Stored(obj[d])
    <3>1. CASE d # c \/ ~Hold(c)
      <4>1. "conflict" \notin faults
        BY <2>4 DEF Steady, Free
      <4>2. QED BY <1>4, <2>1, <2>4, <3>1, <4>1, Answers
    <3>2. CASE d = c /\ Hold(c)
      <4>1. obj[c] \notin approved /\ wire[c].at = "tessera"
        BY <3>2 DEF Hold, NeedsApproval, Answer
      <4>2. [req |-> req[c], obj |-> obj[c]] \in built
        BY <4>1 DEF Flow, Underway
      <4>3. SameObject
        <5>1. Free({"unreadable", "renamed", "reordered"})
          BY <2>4 DEF Steady, Free
        <5>2. Free({"unreadable", "renamed"}) /\ Free({"reordered"})
          BY <5>1 DEF Free
        <5>3. QED BY <5>2, OneObject DEF Flow, Choice, SameObjectIfStable, SameObject
      <4>4. b.obj = obj[c]
        BY <2>3, <3>2, <4>2, <4>3 DEF SameObject
      <4>5. QED BY <2>3, <3>2, <4>1, <4>4
    <3>3. QED BY <3>1, <3>2
  <2>7. QED BY <1>1, <2>1, <2>3, <2>5, <2>6
<1>5. CASE World
  <2>1. /\ UNCHANGED <<faults, req, obj, built, retried, events, wire>>
        /\ "expired" \notin faults => approved \subseteq approved'
    BY <1>5, WorldTypes
  <2>2. Steady => "expired" \notin faults
    BY DEF Steady, Free
  <2>3. QED BY <1>1, <1>2, <2>1, <2>2
<1>6. CASE UNCHANGED vars
  <2>1. UNCHANGED <<faults, req, obj, built, retried, events, wire, approved>>
    BY <1>6, SameVars
  <2>2. QED BY <1>1, <1>2, <2>1
<1>7. QED BY <1>3, <1>4, <1>5, <1>6, NextSplits

(* The inductive invariant. *)
IInv == Flow /\ Truthful /\ Choice /\ Events /\ Retries

LEMMA Invariant == Spec => []IInv
<1>1. Init => IInv
  <2> SUFFICES ASSUME Init PROVE IInv
    OBVIOUS
  <2>1. Truthful
    BY DEF Init, Truthful
  <2>2. Choice /\ Events /\ Retries
    BY DEF Init, Choice, NamedRight, Fitting, Chosen, Events, Retries
  <2>3. QED BY <2>1, <2>2, FlowInit DEF IInv
<1>2. IInv /\ [Next]_vars => IInv'
  BY FlowStep, TruthfulStep, ChoiceStep, EventsKept, RetriesStep DEF IInv
<1>3. QED BY <1>1, <1>2, PTL DEF Spec

(* Every field keeps its type, for any number of attempts (create_event,   *)
(* _interpret_write and the redirects of _brokered). *)
THEOREM TypeCorrect == Spec => []TypeOK
<1>1. IInv => TypeOK
  BY DEF IInv, Flow
<1>2. QED BY <1>1, Invariant, PTL

(* "a create is IDEMPOTENT by content" (service.py): the held attempt and  *)
(* every repetition build the same object, while iCloud's names stay       *)
(* readable and as they are, and so does its order, or one calendar only   *)
(* has the name asked for.                                                 *)
THEOREM RepetitionsBuildSameObject == Spec => []SameObjectIfStable
<1>1. IInv => SameObjectIfStable
  BY OneObject DEF IInv, Flow, Choice
<1>2. QED BY <1>1, Invariant, PTL

(* No calendar gets two events for one request, whatever is lost, late,    *)
(* repeated, redirected, reordered or expired (_deterministic_uid).        *)
THEOREM NeverTwice == Spec => []NoDuplicate
<1>1. IInv => NoDuplicate
  BY OneEvent DEF IInv
<1>2. QED BY <1>1, Invariant, PTL

(* Whoever is told "created" has the event, unless a 303 came in between   *)
(* (_interpret_write). *)
THEOREM CreatedMeansStored == Spec => []CreatedIfNoSeeOther
<1>1. IInv => CreatedIfNoSeeOther
  <2> SUFFICES ASSUME IInv, Free({"see_other"}), NEW c \in Calls,
                      result[c] = "created"
               PROVE  \E e \in events : Same(e, obj[c])
    BY DEF CreatedIfNoSeeOther, CreatedIsStored
  <2>1. wire[c].status = "2xx"
    BY DEF IInv, Flow, Underway
  <2>2. QED BY <2>1 DEF IInv, Truthful, Stored
<1>2. QED BY <1>1, Invariant, PTL

(* "the IDENTICAL re-request completes it after approval" (service.py): an *)
(* attempt begun with the write approved is held again only when the event *)
(* is already there.                                                       *)
THEOREM ApprovedRetryCompletes == Spec => []ApprovalCompletes
<1>1. IInv => ApprovalCompletes
  <2> SUFFICES ASSUME IInv, Steady, NEW c \in retried,
                      result[c] = "pending_approval"
               PROVE  \E e \in events : Same(e, obj[c])
    BY DEF ApprovalCompletes, Steady
  <2>1. c \in Calls
    BY DEF IInv, Flow, TypeOK
  <2>2. wire[c].status = "409"
    BY <2>1 DEF IInv, Flow, Underway
  <2>3. QED BY <2>2 DEF IInv, Retries, Stored
<1>2. QED BY <1>1, Invariant, PTL
=============================================================================
