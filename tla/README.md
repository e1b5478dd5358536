# Verification of apple-caldav-mcp in TLA+

This directory holds TLA+ models of apple-caldav-mcp, the TLC configurations that check
them, and TLAPS proofs of the most important results. Paths such as `service.py:225` are
below `src/src/apple_mcp/`.

## 1. The system

A FastAPI process offers five tools (`list_calendars`, `list_events`, `list_reminders`,
`find_contacts`, and, when writes are enabled, `create_event`) over two surfaces: one
OpenAPI route per tool and a stateless MCP endpoint. Each tool call builds a service with
a DAV client of its own. In brokered mode every HTTP hop of that client goes to Tessera,
which holds the iCloud credentials and forwards it; in direct mode the client talks to
iCloud itself. Nothing is persisted. All state that outlives a call is one cached OAuth
token, and what Tessera and iCloud hold.

| component | source | state | operations | what is hard |
|---|---|---|---|---|
| caller token cache | `tessera_caldav.py:165-225` | `_tok`, `_exp`, shared by all threads, no lock | `get` | threads interleave between any two field accesses; a mint fails half way; expiry passes meanwhile |
| calendar fan-out | `service.py:225-241` | the futures of one `ThreadPoolExecutor` | `_map_calendars` | completion order; one of several workers failing; workers that outlive the call |
| CalDAV transport | `tessera_caldav.py:84-163, 228-441` | the loop variables of one request | `_brokered`, the two `_tessera_request`, `request`, `brokered_dav` | chains and loops of redirects; 303; validation of targets; DNS answers; cleanup on every path |
| event creation | `service.py:99-179, 420-486` | none in the process; the UID and the body stand in for it | `create_event` | held for approval, then repeated; answers lost; late PUTs; attempts that overlap; names that cannot be read |
| list tools | `service.py:243-388, 481-574` | the rows collected | `list_calendars`, `list_events`, `list_reminders` | iCloud answering in part; one calendar failing; merging in order |
| contacts search | `contacts.py` | the matches collected, the count scanned | `find_contacts` | discovery of several steps; two caps across several address books; a server that may ignore filter and limit |
| request scope, application | `app.py`, `context.py`, `mcp_streamable.py` | a context variable per request; the global `_caller`; the pool of threads and its queue | routes, `_call_tool`, `_invoke_tool`, `_build_service`, probes | overlapping requests; unlocked first use of the global; one token per request; a pool full of slow tools |
| tool surface, settings | `tools.py`, `settings.py` | none after start | `writes_enabled`, `direct_mode`, limits | read once, a configuration of the others |
| summaries, redaction, logging | `contacts.py:118-152`, `service.py:489-574`, `app.py` | none | formatting | none for a model checker |

How they interact: the application calls a tool with a fresh service; the service's
`_calendars` discovers the calendars through the transport, on the request's thread; the
fan-out then calls `_search_events` or `_search_todos` for each calendar on worker
threads, which use the transport concurrently; every brokered hop asks the one token
cache for a token. `create_event` and the contacts search use the transport from the
request's thread alone.

What makes each component correct:

* token cache: a token returned is valid, though the pair of fields may be of two mints;
  a stampede neither overstates nor loses freshness; every `get` ends.
* fan-out: seen from outside it is the serial loop; the first error in calendar order is
  raised; no worker outlives the call.
* transport: every hop goes to a validated host; the request at each hop is the right one
  for the redirects before it; a direct hop has a pinned connection of its own, closed on
  every path; the loop ends; the label on the answer is its URL.
* event creation: equal arguments make equal objects; no event is stored twice;
  "created" means stored; an approved repetition completes.
* list tools: every event is listed, from one answer of iCloud for each calendar; reminders
  are exactly those iCloud holds, or the documented part of them; rows come in the
  documented order; or the call fails.
* contacts: both caps hold across books; the result is the first true hits, sorted; no
  full name is missed while no cap is reached.
* request scope: a call runs with its own request's on-behalf-of token, and no other; the
  modes never mix; the shared caller settles; every request is answered.

PROJECT.json lists, under `hazards`, where each of these can go wrong in the code.

## 2. Modules

| module | models | runs | proofs |
|---|---|---|---|
| `CallerToken` | `_CallerToken.get` by several threads | `caller_token`, `fast_path` | `CallerToken_proofs` |
| `SerialMap` | abstract: apply `fn` to each calendar in order | (as a property of `fan_out`) | |
| `FanOut` | `_map_calendars` over a thread pool; implements `SerialMap` | `fan_out` | `FanOut_proofs` |
| `Transport` | `_brokered` and the hop of both clients | `transport` | `Transport_proofs` |
| `WriteFlow` | attempts of `create_event`, with Tessera, iCloud and the person | `write_flow`, `held_retry`, `see_other` | `WriteFlow_proofs` |
| `ListTools` | the three list tools | `list_tools`, `lost_recurring` | `ListTools_proofs` |
| `Contacts` | `find_contacts`, from the first PROPFIND to the sort | `contacts`, `contacts_email` | `Contacts_proofs` |
| `SeqOrder` | Python's filtering and sorting of a list, for `ListTools` and `Contacts` | (with both) | `SeqOrder_proofs` |
| `IsolatedCalls` | abstract: each request served as if alone | (as a property of `request_scope`) | |
| `RequestScope` | both surfaces, the probes, the pool of threads, the service of each call; implements `IsolatedCalls` | `request_scope` | `RequestScope_proofs` |

The `MC_` modules give the constants values; `MC_ListTools` also compares the operators of
`SeqOrder` with the standard `SelectSeq` and `SortSeq` on all sequences of up to three
items. Operators after a comment that begins
with "Mutant" are altered forms of the definition that follows them; no specification
uses them, and each shows that a property would notice that change.

The modules are composed by what one assumes and another shows. `ListTools` visits the
calendars one by one, which is the abstraction `SerialMap` that `FanOut` implements.
`FanOut` takes `fn` as something that returns or raises, which is what `Transport` and
`CallerToken` show of a request (`RequestEnds`, `GetEnds`). `RequestScope` takes a tool as
something that ends, which is what `ListEnds`, `SearchEnds` and `AttemptEnds` show, and it
shows in turn what `CallerToken` starts from: that all requests come to share one token
cache (`CallerSettles`). `WriteFlow` has its own short
form of the redirects (hop count, 303, target), because a late PUT and its redirects
interleave there with other attempts; `Transport` has them in full.

### CallerToken

`tok`, `exp`: the fields `_tok`, `_exp`. `pc[t]`: where thread `t` is in `get`; `local[t]`:
the one value it has at hand (the clock it read, the token in the answer, the token
returned). The actions are the accesses in program order: `Look` (the truth test of
`_tok`, then the clock), `Compare` (`_exp`), `ReturnFast` or `Issue`, `Arrive`, `StoreToken`,
`ReadClock`, `WriteExpiry`, `ReturnMinted`; `MintFails` is every way the POST can fail,
`BadExpiresIn` the conversion that raises after `_tok` was replaced. A token is named by
the instant of its issue, so that its validity is a comparison with the clock. `Leader`
says which threads are workers of which request: a worker starts after its leader's
discovery, as `_map_calendars` does.

Time is bounded by `TimingAssumption`: a token takes at most `NetLag` from issue to arrival
and a thread at most `Stall` between adjacent accesses, and `NetLag + 4 * Stall` fits
into the margin. In the code the margin is 60 s and the opener's timeout is 30 s (of each
socket operation, so an answer that trickles in for longer is outside the assumption),
which leaves more than 7 s for each `Stall`. `Lifetime` is one number because it is the
configuration of one client at the identity provider; it must exceed the same sum.
`Stated` is the `expires_in` of the answers, or the 3600 s that line 224 takes when an answer
has none. `Stated <= Lifetime` is the one thing the code relies on and cannot check: where
a token that comes without `expires_in` lives for less than an hour, the recorded expiry
is wrong and none of the properties below is claimed.

### FanOut and SerialMap

`answer` is fixed at the start: what `fn` would do for each calendar. `task` is the state of
each future, `phase` and `k` are where the calling thread is, `out` and `failed` what it has
collected. `NoCalendars`, `CallInline` and `OpenPool` are the three branches of the code;
`Submit`, `Collect`, `CollectError`, `Cancel`, `Close` and `End` are `list(ex.map(...))`
and the end of the `with` block, as Python's library does them: all calendars are
submitted at once, results are taken in order, an error cancels what has not started,
last first, and shutdown waits for the rest. The refinement maps a call that
has not ended to a running loop with the same `out`.

### Transport

The variables are those of `_brokered`; `req` is what it was called with, `direct` which of
the clients it belongs to, `limit` its `_max_redirects` (the setting, or 0 if that is
negative), `sent` the record of hops with the kind of answer each got. A URL is reduced to
what `_require_brokerable_apple_url` tests, and a path. The network chooses status,
`Location` and DNS answers. A brokered hop is one step (`SendBrokered`); a direct hop is cut
at its calls, in program order: the URL is checked again, its host resolved and a pool made
for the preferred address (`Pin`), the request sent (`SendDirect`) or not (`ConnectFails`),
answered (`Receive`) or lost (`HopFails`), and the pool closed (`Close`, the `finally`) before
`_brokered` decides what to do with the answer (`Final`, `RefuseTarget`, `Follow`,
`FollowSeeOther`). `open` holds the connections that are open, each with the host it was made
for. The response's URL label in `request` is `url` at the end.

### WriteFlow

For each attempt: `pc`, the calendars discovered, the one resolved, the object built
(`Build`: calendar, UID, location) and the outcome. `wire[c]` is the PUT, which has a life
of its own: after `GiveUp` it may still arrive. External, as the code and its tests use
them: Tessera forwards, holds (409) or denies; iCloud stores or refuses; the person
approves an object. An approval is bound to the exact object, as `service.py:99-102`
says, and may or may not be used up by the PUT. What the environment may do beyond that
stands in `faults`, chosen once per behaviour: a display name that cannot be read, a rename,
another order of calendars, an expired approval, a redirect, a 303, a 409 of iCloud's own.
`Starts` are the situations a behaviour may begin in: these faults, iCloud's calendars with
their names, and the arguments of each attempt. Each property names the faults it does not
survive (`Free`), so one run shows several of them in all situations; it is silent only where
one of those faults may occur, and each property has situations with redirects and without
any of its own faults.

An unreadable name, a rename and another order are where the code's idempotence ends.
`SameObjectIfStable` says so: of the order it needs nothing if only one calendar has the name
asked for. A call without a calendar name gets the first calendar iCloud lists, the "stable
default" of `service.py:468-469`, which is as stable as iCloud's order.

`"2xx"` stands for 200, 201 and 204, the only ones
`_interpret_write` takes for success. `built` and `retried` are history variables.

### ListTools

`lists` is what iCloud holds, in its order. Each list has its `items`, which a plain query
finds, a recurring event being there as its master, and its `instances`, which an expanding
query finds, with one row per instance (`service.py:290-295`); both carry the `uid` of the event
(`Master`). `Expand`, `ExpandYieldsNothing`, `Plain`, `PlainFails` are `_search_events`;
`SkipUpgraded`, `Todos`, `TodosFail` the body of `list_reminders`; `Merge` the end of each tool.
`unread` and `unanswered` record which names and lists could not be read, so that a property
can say what a result owes to a failure. A start or due is an ISO string: `text` is its place
in the order of strings, which is all the code sorts by, `at` the instant it means, `form` what
it ends in. `ItemAssumption` says that strings of one form are in the order of time, and nothing
of others. So `SortedResult` claims the order of time within a form only: "Due date ascending"
(`service.py:356`) does not hold of reminders whose dues have different UTC offsets, and the
items of the run have such a pair. `SortKey` is the key of both sorts: a missing start is `""`, the
least of all, a missing due is `"~"`, the constant `Tilde`, greater than every date.

### Contacts

`phase` follows `find_contacts`: three PROPFINDs (`Discover`), then for each `book` a REPORT
(`Report`, `Receive`) and the scan of its answer (`PassOver`, `Keep`, `ScanLimit`, `Scanned`),
until `WantsMore` says no (`NextBook`, `Return`). `scanned` and `found` are the code's counter
and list, which go on from book to book. `DavFails` is every way a hop can fail, at every
hop. iCloud is external: it may heed or ignore the filter and the limit of each REPORT,
separately for each book. A text is reduced to its place in the alphabet and whether it
contains the query; a card to its full name, its name parts, which of its addresses
contain the query, and how many numbers it has. `Summary`, `Usable` and `Hit` are
`summarize_vcard` and `_matches`. `received` and `cut` are history variables.

### SeqOrder

A list comprehension with an `if` and `list.sort(key=...)`, written by places: `Selected`
takes the elements at the places that pass, from the first to the last (`Nth`); `SortedBy`
takes at each place the element whose rank by key and place is that number (`Origin`), which
is a stable sort. Both are plain functions, so that a proof can say where each element of
the result comes from. `SelectSeq` and `SortSeq` do not allow that: the provers know nothing
of the former, and the definition of the latter has no value for a list in which two
different elements have equal keys.

### RequestScope and IsolatedCalls

Each of `Slots` is one request at a time. An MCP request is received on the event loop, where
`_mcp_asgi` sets the context variable (`SetObo`), then `_call_tool` reads it and asks for a
thread (`CallTool`); an OpenAPI request or a probe asks for a thread at once (`Arrive`). `queue` is
the line for anyio's threads, which all of them share; `Enter` takes its head when fewer than
`MaxThreads` are busy. On the thread, `Probe`, `UnknownTool`, `BuildDirect`, `NoCredentials`,
`Brokered` are the branches of `_invoke_tool` and `_build_service`; `CheckCaller`, `SetCaller`,
`Bind` are the test, the assignment and the second read of the global in `_get_caller`, three
steps because nothing locks them. `Raises` maps errors as each surface does. `env` is the
process environment, which the code reads anew at each use but nothing changes while it
runs; it also decides `TOOLS`, the routes and the write tool. External, from how the code uses
them: a context belongs to one request (asyncio copies it per task), the pool serves in
order of arrival. `IsolatedCalls` has none of the threads, queue, contexts and shared caller: a
request is asked, its tool runs at most once with the one identity that is its own, and it
is replied to in the words of its surface, with success only if the tool ran. The refinement
maps every place before the call to "asked".

## 3. Runs

| run | result | what it shows |
|---|---|---|
| `caller_token` | passes | no expired token is returned, the pair is never overstated, stampedes keep freshness, every `get` ends |
| `fan_out` | passes | the pool implements the serial loop, errors and termination included, and nothing outlives the call |
| `transport` | passes | validated hops, right request per hop, right label, direct hops pinned for their own host and closed on every path, termination of redirect loops |
| `write_flow` | passes | same object, no duplicate, "created" means stored, who lost the race for an approval is held only when the event is there, each under the faults it can bear, with lost answers, late PUTs and overlaps; every attempt ends |
| `list_tools` | passes | every event is listed, from one answer per calendar; reminders are exact up to failures the result admits; both sorted, those of one form by time |
| `contacts` | passes | both caps over all books, exactly the first hits, no full name missed, every search ends, whatever iCloud ignores and whichever hop fails |
| `request_scope` | passes | each request served as if alone, own identity, modes kept, one caller in the end, every request and probe answered |
| `contacts_email` | violated | a contact is not found by its e-mail address, as iCloud is asked for full names only |
| `fast_path` | violated | workers do mint tokens, against the docstring of `_map_calendars` |
| `held_retry` | violated | an unreadable display name changes the UID of the repeated create |
| `see_other` | violated | a PUT answered by a 303 is reported created and stores nothing |
| `lost_recurring` | violated | a partial answer to the expanding query loses recurring events |

The five violated runs are the findings of PROJECT.json, each with the sentence of the
repository it contradicts. None is harmful by itself to the other properties: the run
`caller_token` shows for instance that the stampede of `fast_path` returns valid tokens.

### Bounds

* `caller_token`: three threads, two of them requests and one a worker, because a pair of
  two mints needs two writers and a reader. Lifetime 7, margin 5, lag 1, stall 1 are the
  smallest numbers with the shape of the code's (the margin equals the sum the assumption
  allows, the lifetime exceeds the margin); the clock runs to 10, past the expiry of a
  first token, so that re-minting and mixed pairs occur; expires_in is 6, less than the
  lifetime, as the default may be. One hop per thread; the proofs have no bounds.
* `fast_path`: the same threads and smaller numbers, enough for one stale token.
* `fan_out`: up to four calendars and two workers, so that zero, one, as many as and more
  calendars than workers occur, two wait in the queue, and any subset fails.
* `transport`: two Apple hosts, one other; limits of two redirects, none and a negative
  one, so three hops with a 303 at either place, a loop back to the start, and the limit at
  once. Five kinds of refused URLs (scheme, userinfo, host, port, malformed port) for the
  first hop and for targets.
* `write_flow`: two calendars with two names, one of them asked for in other letters, one
  redirect. Two attempts are what a hold and its repetition need; a third, invalid one is
  rejected. They run by name, by default, or one of each, with redirects and expiring
  approvals; redirects with 303s; another order with expiring approvals; unreadable names with
  iCloud's own 409 (both calendars having the name, or one of them); renames. Faults that act
  on different steps go together, those whose effect would hide each other's do not; all
  holds, losses, delays and overlaps occur in every situation. Three valid attempts, without
  faults, are what a race for an approval needs: the one that causes the hold ends with its
  409, and two more compete. `MCStarts` lists these nine situations and not their product,
  for the time the check of liveness takes; listing the calendars in one order first loses
  nothing, since they are alike. `held_retry` and `see_other` begin likewise, with one fault.
* `list_tools`: up to three calendars of five kinds, an empty one among them; one-off,
  undated, completed and tombstone items, two dues whose order by text is not that by time, a
  recurring event with two instances, and an upgraded list that holds a tombstone and a
  notice the tombstone filter does not know. `lost_recurring` has the same.
* `contacts`: the home collection alone, or three books out of five kinds, the empty one
  among them, so that hits lie before and after a book without any; cards found by full
  name, by name parts, by an address kept, by an address cut off, or not at all. The caps
  are 3 results (2 by default), 5 scanned cards and 2 addresses, so that each of them falls
  within a book, between two and beyond the last; limits below, at and above the range.
* `request_scope`: three requests on two threads, so that one waits while two race for the
  global; two people, both surfaces, no bearer, a probe; brokered with and without its
  settings, direct with both, one and no credentials, with broker settings left over.

Deadlock is checked in `request_scope`, whose requests keep coming. Elsewhere it is not: the
call, request or attempt ends.

### Fairness

* `CallerToken`: weak fairness of the steps a thread takes by itself, `MintFails`
  included, since the opener has a timeout. Nothing obliges the identity provider to
  answer, nor a new `get` to start.
* `FanOut`: weak fairness of the calling thread and of each worker: the operating system
  schedules threads, and each `fn` ends because each request of it does.
* `Transport`, `ListTools`, `Contacts`: weak fairness of the single thread's next step; a hop that is
  not answered ends by the request timeout (`HopFails`, `PlainFails`, `TodosFail`, `DavFails`).
* `WriteFlow`: weak fairness of each attempt's own steps, of which the timeout (`GiveUp`) is
  one; Tessera, iCloud and the person may stay silent for ever.
* `RequestScope`: weak fairness of each request's next step. It suffices because the queue
  is first in, first out, and because every tool ends; nobody has to send a request.

## 4. Proofs

All proofs are for any values of the constants that the named assumptions allow. Each
inductive invariant `IInv` stands in the proofs module, as named parts.

`CallerToken_proofs` (from `TimingAssumption`): `TypeCorrect`, `ReturnedTokenValid`,
`PairNeverOverstated`, `FreshnessKept`. Validity at return is not inductive: a thread that
has found the cache fresh returns whatever token is there later, perhaps of a slower
mint. `IInv` therefore says, for each phase of `get`, how far the clock a thread last saw
may be ahead of the token cached *now* (`Cached`), that no phase lasts longer than allowed
(`Prompt`), and what the value at hand is (`Local`). The heart of the proof is
`StoreToken`, the only step that changes the token under the other threads: a token that
arrives is at most `NetLag + Stall` old, so all their facts hold for it as well.

`FanOut_proofs` (from `PoolAssumption`, `ErrorAssumption`): `TypeCorrect`,
`NoWorkerOutlivesCall`, `FirstErrorIsRaised`, `RefinesSerialMap`. `IInv` ties the results
collected to the answers and says what each phase has settled of the futures; without
`Failing` the error raised could not be shown to be the first. The refinement proof maps
each step to a step of the serial loop or a stutter.

`Transport_proofs` (from `LimitsAssumption`, `InputAssumption`): `TypeCorrect` (with the bound
on hops), `EveryHopIsBrokerable`, `RequestIsPreserved`, `AnsweredHopIsLabelled`,
`DirectHopsArePinned`. `IInv` adds that the loop's variables always
describe the next hop or the one under way (`CurrentRequest`), that this one has been
validated and, once pinned, has one connection, to its own host (`Underway`), and that the
brokered client has none (`Unconnected`).

`FanOut_proofs` also has `NothingStartsLate`, the action property `NoStartWhenClosing`: by the
time the pool shuts down no future is queued.

`WriteFlow_proofs` (from `WriteAssumption`): `TypeCorrect`, `RepetitionsBuildSameObject`,
`NeverTwice`, `CreatedMeansStored`, `ApprovedRetryCompletes`, for any number of attempts,
calendars and redirects. None of the properties is inductive, since they speak of the end of
attempts that interleave. `Flow` says what an attempt's variables are at each of its phases and
how its PUT is related to them; `Truthful`, that an answer of success means the object was
stored, unless a 303 may happen; `Choice`, which calendar a request resolves to while what
iCloud shows does not change, hence which object it builds; `Events`, that iCloud
keeps one object per UID and that some attempt has built it; `Retries`, that for an attempt begun with the
approval given, the approval is there until the event is. `NoDuplicate` and `SameObjectIfStable` then follow
because two objects built for the same arguments are one.

`RequestScope_proofs` (from its four assumptions): `TypeCorrect`, with the queue holding each
waiting request exactly once, `EachOwnIdentity`, `EachModeKept`. `TokenKept` says that between
reception and the call the token of a request is in its own context or in its own argument;
`Tested`, that who has passed the test of the global finds a caller there, even if another
request has replaced it meanwhile; `Bound`, what a service was built from.
`RefinesIsolatedCalls` shows from these that every step is one of `IsolatedCalls` or a stutter.

`SeqOrder_proofs` (from nothing): what filtering, sorting and joining do to sequences of any
length. Places by size and places by key are both chains of initial segments, and
`RankIsBijection` shows that the size of its segment numbers such a chain without gap or
repetition. So `Nth` lists the places kept, each once (`NthIsBijection`), and `Origin` permutes
the places with keys that do not descend (`OriginSorts`). `Many(s, P)`, how many places of `s`
hold an element of `P`, is what the two components below count with: a filter keeps it for
what passes (`KeptElements`), a sort keeps it (`SortedElements`), a join adds it up
(`ManyJoined`). `CountThrough`, counting through a bijection, is under all of them.

`ListTools_proofs` (from `ListAssumption` and `ItemAssumption`): `TypeCorrect`, `NoteIsExact`,
`ErrorsAreNotSkipped`, `EventsAreListed`, `OneOffsAreListed`, `RemindersAreExact`,
`ResultIsSorted`, `AnswersAreNotMixed`. `Visited` and `Searched` say which names may be unread at each phase,
`Counted` that the note counts the lists behind `k` so far, `Answered` that a list of events has
not passed over an error. The properties of the result speak of its end only, where the sort
has mixed the rows of all calendars; `RInv` says them of each calendar while the loop
runs: the lists behind `k` have given what they give, those from `k` on nothing
(`EventsShown`: the rows of one answer; `TodosShown`), and the sort keeps these numbers and
orders the rows (`InOrder`). `EventsAreListed` assumes `~PartialExpand`: with that quirk of iCloud
`EveryEventListed` is false, as the run `lost_recurring` shows. `OneOffsAreListed` has no such
hypothesis and bounds that finding: only recurring events can be lost.

`Contacts_proofs` (from `CapsAssumption` and `CardsAssumption`): `TypeCorrect`, `CapsAlwaysHold`,
`OnlyMatchesLeave`, `FirstHitsAreReturned`, `EveryNameIsFound`. `CapsHold` is not inductive:
`RoomLeft` adds that neither cap has been reached in any phase from which a card may still
be scanned, which the test between two books keeps. For what is returned, `SInv` follows
the cards: those still to be scanned are the end of those received (`Pending`); cards are left
over only where a cap ended the scan (`Drained`); the contacts kept are the hits among the
cards looked at, each as often (`Counts`), which at the end makes them the first hits and
no other (`FirstHitsParsed`), although `received` grows behind a cap as well; while no limit was
met, a contact by its full name is in the list once its book is done, and until then in the
list or among the cards still to be scanned (`Names`), where an answer that iCloud itself
cut at the limit is one that will fill the list (`LimitPending`); and the sort keeps all
that (`Sorted`).

Every invariant above was an invariant of the runs of its module before it was proved
(`Counts` and `Sorted` with their quantified sets taken from the summaries of the run's cards,
the parts of `RInv` for both values of `PartialExpand`).

Only model-checked: liveness (`GetEnds`, `RequestEnds`, `AttemptEnds`, `ListEnds`, `SearchEnds`,
`CallerSettles`, `EveryRequestAnswered`, the liveness part of `ImplementsSerialMap`), since
fairness and ENABLED are out of the prover's reach. Every invariant and every action property
that a passing run checks is also a theorem.

## 5. Not modelled

The formatting of summaries (`summarize_vcard`, `_summarize_event`, `_summarize_todo`, of which
`Contacts` and `ListTools` have what is sorted, filtered and matched by) and of the MCP text
(`_render_result`); logging, audit lines and redaction; packaging and scripts. `_log_diagnostics`
only logs. Settings are constants or `env`; their parsing is not modelled. The caldav library
between the service and `request` is taken as what it is used for: discovery, name reads and
searches that answer or raise. The diagnostic file is written by one event loop without a
pause, so only its loss or truncation is modelled (`SetObo`), and no property is about it.

The hrefs of the CardDAV discovery, which `contacts.py` joins to the root, are not modelled;
`Contacts` takes each step of the discovery as one that answers or fails.

Hazards without a property, by choice: the location outside the UID is what the comment
promises; a 409 of iCloud's own depends on what Tessera passes on, which this repository does
not show, so `ApprovalCompletes` excludes it; the comparison of dates with and without an
offset is a matter for a unit test.

## 6. Plan

Done: `CallerToken`, `FanOut` with `SerialMap`, `Transport`, `WriteFlow`, `ListTools`, `Contacts`,
`RequestScope`, each with proofs, and `SeqOrder` with the lemmas that two of them rest on.

Left, in this order: a composition of `FanOut` with `CallerToken`, in which the workers' hops
are those of `get()` (today each assumes what the other shows); what the code guarantees of
a single attempt when a calendar is renamed during it, as a property of its own.
