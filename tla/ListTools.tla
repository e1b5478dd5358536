----------------------------- MODULE ListTools -----------------------------
(***************************************************************************)
(* list_calendars, list_events and list_reminders of apple_mcp/service.py: *)
(* what one call asks of each calendar, what it does when iCloud fails to  *)
(* answer, and what it makes of the answers.                               *)
(*                                                                         *)
(* The calendars are visited one after the other: module FanOut shows that *)
(* the concurrent map of list_events and list_reminders cannot be told     *)
(* from that.                                                              *)
(*                                                                         *)
(* A start or due is what _iso makes of it, an ISO 8601 string: text is    *)
(* its place in the order of those strings (0 when there is none), at the  *)
(* instant it means, and form what the string ends in: a UTC offset, or    *)
(* nothing in a date or a floating time.                                   *)
(***************************************************************************)
EXTENDS Naturals, Sequences, FiniteSets, SeqOrder

CONSTANTS
    Items,          \* events and reminders, recurring ones as master or instance
    Lists,          \* the contents of a calendar: [upgraded, items, instances]
    MaxLists,       \* bound: calendars of one account
    Tilde,          \* the place of "~" in the order of the strings
    PartialExpand   \* whether iCloud's expand quirk may hit single events

\* "~" > any ISO digit; and texts of one form are in the order of time.
ASSUME ItemAssumption ==
    /\ Tilde \in Nat
    /\ Items \subseteq [uid : STRING, text : Nat, at : Nat, form : STRING,
                       recurring : BOOLEAN, completed : BOOLEAN, tombstone : BOOLEAN]
    /\ \A item \in Items : item.text < Tilde
    /\ \A a, b \in Items :
         a.form = b.form /\ 0 < a.text /\ a.text <= b.text => a.at <= b.at

Master(item, instance) == item.uid = instance.uid /\ item.recurring = instance.recurring

\* items is what a plain query finds, a recurring event being there as its
\* master; instances what an expanding one finds, with a row per instance.
ASSUME ListAssumption ==
    /\ MaxLists \in Nat
    /\ Lists \subseteq [upgraded : BOOLEAN, items : Seq(Items), instances : Seq(Items)]
    /\ \A list \in Lists :
         \A i \in DOMAIN list.items :
             \E j \in DOMAIN list.instances : Master(list.items[i], list.instances[j])

VARIABLES
    tool,           \* "calendars", "events" or "reminders"
    completedToo,   \* include_completed
    lists,          \* iCloud: the calendars, in the order it lists them
    phase,
    k,              \* the calendar being visited
    unread,         \* the calendars whose display name could not be read
    rows,           \* the rows so far, then the result
    inaccessible,   \* the lists counted for the note
    unanswered      \* history: the lists whose only answer was an error

vars == <<tool, completedToo, lists, phase, k, unread, rows, inaccessible, unanswered>>

Tools == {"calendars", "events", "reminders"}

Init ==
    /\ tool \in Tools
    /\ completedToo \in BOOLEAN
    /\ \E n \in 0 .. MaxLists : lists \in [1 .. n -> Lists]
    /\ phase = "discover"
    /\ k = 1
    /\ unread = {}
    /\ rows = <<>>
    /\ inaccessible = 0
    /\ unanswered = {}

Given == UNCHANGED <<tool, completedToo, lists>>
Goto(from, to) == phase = from /\ phase' = to /\ Given

\* _parse_range refuses the range, or _calendars raises.
Refuse ==
    /\ Goto("discover", "raised")
    /\ UNCHANGED <<k, unread, rows, inaccessible, unanswered>>

Discover ==
    /\ Goto("discover", "name")
    /\ UNCHANGED <<k, unread, rows, inaccessible, unanswered>>

\* The calendar is done, with these rows; go on with the next.
NextList(from, found) ==
    /\ Goto(from, "name")
    /\ k' = k + 1
    /\ rows' = rows \o [i \in DOMAIN found |-> [list |-> k, item |-> found[i]]]

NoItem == [text |-> 0]

Visiting(ts) == k \in DOMAIN lists /\ tool \in ts

\* _display_name: None when the read fails.
MayBeUnread == unread' \in {unread, unread \cup {k}}

NameOnly ==
    /\ Visiting({"calendars"})
    /\ MayBeUnread
    /\ NextList("name", <<NoItem>>)
    /\ UNCHANGED <<inaccessible, unanswered>>

\* Mutant: the list is skipped and forgotten.
SkipUncounted ==
    /\ Visiting({"reminders"}) /\ lists[k].upgraded
    /\ NextList("name", <<>>)
    /\ UNCHANGED <<unread, inaccessible, unanswered>>

\* A reminders list whose name carries the mark is skipped and counted.
SkipUpgraded ==
    /\ Visiting({"reminders"}) /\ lists[k].upgraded
    /\ NextList("name", <<>>)
    /\ inaccessible' = inaccessible + 1
    /\ UNCHANGED <<unread, unanswered>>

ReadName ==
    /\ Visiting({"events", "reminders"})
    /\ MayBeUnread
    /\ tool = "reminders" /\ lists[k].upgraded => k \in unread'
    /\ Goto("name", IF tool = "events" THEN "expand" ELSE "todos")
    /\ UNCHANGED <<k, rows, inaccessible, unanswered>>

\* _search_events.  Asked to expand recurrences, iCloud answers in full, or
\* with nothing at all, or (PartialExpand) with the other events only.
OneOff(item) == ~item.recurring

Expanded(list) ==
    {list.instances, <<>>}
        \cup (IF PartialExpand THEN {Selected(list.instances, OneOff)} ELSE {})

\* Mutant: an empty answer is taken for the calendar's contents.
ExpandTakesEmpty ==
    /\ phase = "expand"
    /\ \E found \in Expanded(lists[k]) : NextList("expand", found)
    /\ UNCHANGED <<unread, inaccessible, unanswered>>

\* Mutant: the search without expansion is made whatever the first one found.
ExpandAndGoOn ==
    /\ Goto("expand", "plain")
    /\ \E found \in Expanded(lists[k]) :
         rows' = rows \o [i \in DOMAIN found |-> [list |-> k, item |-> found[i]]]
    /\ UNCHANGED <<k, unread, inaccessible, unanswered>>

Expand ==
    /\ phase = "expand"
    /\ \E found \in Expanded(lists[k]) :
         found # <<>> /\ NextList("expand", found)
    /\ UNCHANGED <<unread, inaccessible, unanswered>>

\* Nothing found, or an error: ask again without expansion.
ExpandYieldsNothing ==
    /\ Goto("expand", "plain")
    /\ UNCHANGED <<k, unread, rows, inaccessible, unanswered>>

Plain ==
    /\ NextList("plain", lists[k].items)
    /\ UNCHANGED <<unread, inaccessible, unanswered>>

\* Mutant: the second error starts the search again.
PlainRetries ==
    /\ Goto("plain", "expand")
    /\ UNCHANGED <<k, unread, rows, inaccessible, unanswered>>

\* The second error ends the whole call.
PlainFails ==
    /\ Goto("plain", "raised")
    /\ unanswered' = unanswered \cup {k}
    /\ UNCHANGED <<k, unread, rows, inaccessible>>

\* Mutant: the stray tombstones are kept.
WantedOrTombstone(item) == completedToo \/ ~item.completed

\* _search_todos: every VTODO is asked for; the filters are applied here.
Wanted(item) == (completedToo \/ ~item.completed) /\ ~item.tombstone

Todos ==
    /\ NextList("todos", Selected(lists[k].items, Wanted))
    /\ UNCHANGED <<unread, inaccessible, unanswered>>

\* Mutant: the error becomes a row.
TodosFailAsRow ==
    /\ unanswered' = unanswered \cup {k}
    /\ NextList("todos", <<[text |-> 9]>>)
    /\ UNCHANGED <<unread, inaccessible>>

\* An error counts as an empty list.
TodosFail ==
    /\ unanswered' = unanswered \cup {k}
    /\ NextList("todos", <<>>)
    /\ UNCHANGED <<unread, inaccessible>>

\* Mutant: the events' key for both, so that undated reminders come first.
KeyAsIs(row) == row.item.text

\* Events without a start come first (""), reminders without a due last ("~").
SortKey(row) ==
    IF tool = "reminders" /\ row.item.text = 0 THEN Tilde ELSE row.item.text

Merge ==
    /\ k \notin DOMAIN lists
    /\ Goto("name", "returned")
    /\ rows' = IF tool = "calendars" THEN rows ELSE SortedBy(rows, SortKey)
    /\ UNCHANGED <<k, unread, inaccessible, unanswered>>

Next ==
    \/ Refuse \/ Discover \/ NameOnly \/ SkipUpgraded \/ ReadName
    \/ Expand \/ ExpandYieldsNothing \/ Plain \/ PlainFails
    \/ Todos \/ TodosFail \/ Merge

Spec == Init /\ [][Next]_vars

\* The request timeout ends every question to iCloud.
FairSpec == Spec /\ WF_vars(Next)

-----------------------------------------------------------------------------
Rows == [list : 1 .. MaxLists, item : Items \cup {NoItem}]

TypeOK ==
    /\ tool \in Tools /\ completedToo \in BOOLEAN
    /\ phase \in {"discover", "name", "expand", "plain", "todos", "returned", "raised"}
    /\ k \in 1 .. MaxLists + 1
    /\ unread \subseteq DOMAIN lists
    /\ rows \in Seq(Rows)
    /\ inaccessible \in 0 .. MaxLists
    /\ unanswered \subseteq DOMAIN lists

Returned(t) == phase = "returned" /\ tool = t

\* How often an item of a list is in the result, and in an answer of iCloud.
Shown(l, item) == Cardinality({i \in DOMAIN rows : rows[i].list = l /\ rows[i].item = item})
Times(answer, item) == Cardinality({i \in DOMAIN answer : answer[i] = item})
Stored(l, item) == Times(lists[l].items, item)

Appears(l, item) == \E i \in DOMAIN rows : rows[i].list = l /\ Master(item, rows[i].item)

(* "so the event still appears" (_search_events): every event of every       *)
(* calendar is in a list of events that is returned, by an instance or by    *)
(* its master, whatever iCloud did with the expanding query; if a calendar   *)
(* cannot be read there is no list.                                          *)
EveryEventListed ==
    Returned("events") =>
        /\ unanswered = {}
        /\ \A l \in DOMAIN lists :
             \A i \in DOMAIN lists[l].items : Appears(l, lists[l].items[i])

Answers(list) == (Expanded(list) \ {<<>>}) \cup {list.items}

(* The fallback replaces what the expanding query gave: the rows of a        *)
(* calendar are the ones of one answer, and as often, so no event is there   *)
(* both by its instances and by its master, and no calendar twice.           *)
OneAnswerEach ==
    Returned("events") =>
        \A l \in DOMAIN lists : \E answer \in Answers(lists[l]) :
            \A item \in Items : Shown(l, item) = Times(answer, item)

Reminder(item) == ~item.tombstone /\ (item.completed => completedToo)

(* Every pending reminder of a list that answered is in the result once, and *)
(* nothing else is: no completed one unless asked for, no tombstone, nothing *)
(* of a list whose name marks it as upgraded, nothing twice.                 *)
RemindersExact ==
    Returned("reminders") =>
        \A l \in DOMAIN lists, item \in Items :
            /\ Shown(l, item) \in {0, Stored(l, item)}
            /\ Shown(l, item) # 0 =>
                  Reminder(item) /\ (lists[l].upgraded => l \in unread)
            /\ ~lists[l].upgraded /\ l \notin unanswered /\ Reminder(item) =>
                  Shown(l, item) = Stored(l, item)

(* "skipped and reported via note" (list_reminders): the note counts every   *)
(* upgraded list whose mark could be read, and no other.                     *)
NoteCountsUpgraded ==
    Returned("reminders") =>
        inaccessible = Cardinality({l \in DOMAIN lists \ unread : lists[l].upgraded})

Dated(i) == rows[i].item.text # 0

(* "merged and sorted by start, independent of calendar order" (test_smoke), *)
(* and "undated reminders sort last": whichever calendar a row comes from,   *)
(* those without a date are at their end, and the starts or dues that are    *)
(* written in one form come in the order of time.                            *)
SortedResult ==
    phase = "returned" /\ tool # "calendars" =>
        \A i, j \in DOMAIN rows :
            i < j =>
                /\ tool = "events" /\ Dated(i) => Dated(j)
                /\ tool = "reminders" /\ Dated(j) => Dated(i)
                /\ Dated(i) /\ Dated(j) /\ rows[i].item.form = rows[j].item.form =>
                      rows[i].item.at <= rows[j].item.at

(* Every call ends.                                                          *)
ListEnds == <>(phase \in {"returned", "raised"})
=============================================================================
