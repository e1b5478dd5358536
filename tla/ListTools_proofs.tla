-------------------------- MODULE ListTools_proofs --------------------------
(***************************************************************************)
(* What the list tools promise for any number of calendars and whatever    *)
(* iCloud answers: which rows are in the result, in which order, and what  *)
(* the note says.  Rows are counted and sorted with the lemmas of          *)
(* SeqOrder_proofs.                                                        *)
(***************************************************************************)
EXTENDS ListTools, SeqOrder_proofs, TLAPS

(* The lists visited whose name carries the mark and could be read.          *)
Skipped == {l \in 1 .. (k - 1) : lists[l].upgraded /\ l \notin unread}

(* Why the note is right: a name is read when its list is visited and never  *)
(* again, so what is unread lies behind k, or at k while that list is being  *)
(* searched; and a list is searched only if its mark was not seen.           *)
Visited ==
    /\ \E n \in 0 .. MaxLists : DOMAIN lists = 1 .. n /\ k \in 1 .. (n + 1)
    /\ unread \subseteq 1 .. k
    /\ phase \in {"discover", "name"} => k \notin unread
    /\ phase \in {"expand", "plain", "todos"} => k \in DOMAIN lists

Searched ==
    /\ phase \in {"expand", "plain"} => tool = "events"
    /\ phase = "todos" => tool = "reminders" /\ (lists[k].upgraded => k \in unread)

Counted == tool = "reminders" => inaccessible = Cardinality(Skipped)

(* An error is passed over only where reminders are listed.                  *)
Answered == tool = "events" /\ phase # "raised" => unanswered = {}

IInv == Visited /\ Searched /\ Counted /\ Answered

(* "could not search events" (service.py:306-309): a list of events that is  *)
(* returned rests on an answer from every calendar, whatever was retried.    *)
EveryCalendarAnswered == Returned("events") => unanswered = {}

-----------------------------------------------------------------------------
(* Before the first calendar nothing is unread, skipped or unanswered.       *)
LEMMA InitIInv == Init => IInv
<1> SUFFICES ASSUME Init PROVE IInv
  OBVIOUS
<1>1. PICK n \in 0 .. MaxLists : lists \in [1 .. n -> Lists]
  BY DEF Init
<1>2. Visited
  BY <1>1, ListAssumption DEF Init, Visited
<1>3. Skipped = {}
  BY DEF Init, Skipped
<1>4. Counted
  BY <1>3, FS_EmptySet DEF Init, Counted
<1> QED BY <1>2, <1>4 DEF Init, IInv, Searched, Answered

(* Steps within one calendar leave the lists behind it as they are.          *)
LEMMA SameList ==
    ASSUME IInv, UNCHANGED <<lists, tool, k, inaccessible>>,
           unread' \in {unread, unread \cup {k}}
    PROVE  Counted'
<1>1. Skipped' = Skipped
  <2>1. PICK n \in 0 .. MaxLists : DOMAIN lists = 1 .. n /\ k \in 1 .. (n + 1)
    BY DEF IInv, Visited
  <2>2. k \in Nat
    BY <2>1, ListAssumption
  <2>3. \A l \in 1 .. (k - 1) : l \in unread' <=> l \in unread
    BY <2>2
  <2> QED BY <2>3 DEF Skipped
<1> QED BY <1>1 DEF IInv, Counted

(* The step to the next calendar adds the list to those skipped just when    *)
(* its mark was seen.                                                        *)
LEMMA NextIsCounted ==
    ASSUME IInv, k \in DOMAIN lists, k' = k + 1, UNCHANGED <<lists, unread>>
    PROVE  /\ lists[k].upgraded /\ k \notin unread =>
                 Cardinality(Skipped') = Cardinality(Skipped) + 1
           /\ ~lists[k].upgraded \/ k \in unread => Skipped' = Skipped
<1>1. PICK n \in 0 .. MaxLists : DOMAIN lists = 1 .. n /\ k \in 1 .. (n + 1)
  BY DEF IInv, Visited
<1>2. k \in Nat /\ k - 1 \in Nat
  BY <1>1, ListAssumption
<1>3. Skipped' = {l \in 1 .. k : lists[l].upgraded /\ l \notin unread}
  BY <1>2 DEF Skipped
<1>4. IsFiniteSet(Skipped)
  <2>1. IsFiniteSet(1 .. (k - 1))
    BY <1>2, FS_Interval
  <2> QED BY <2>1, FS_Subset DEF Skipped
<1>5. k \notin Skipped
  BY <1>2 DEF Skipped
<1>6. CASE lists[k].upgraded /\ k \notin unread
  <2>1. Skipped' = Skipped \cup {k}
    BY <1>2, <1>3, <1>6 DEF Skipped
  <2>2. Cardinality(Skipped \cup {k}) = Cardinality(Skipped) + 1
    BY <1>4, <1>5, FS_AddElement
  <2> QED BY <2>1, <2>2, <1>6
<1>7. CASE ~lists[k].upgraded \/ k \in unread
  <2>1. Skipped' = Skipped
    BY <1>2, <1>3, <1>7 DEF Skipped
  <2> QED BY <2>1, <1>7
<1> QED BY <1>6, <1>7

(* The place among the calendars after a step to the next one.               *)
LEMMA Advance ==
    ASSUME Visited, k \in DOMAIN lists, k' = k + 1, phase' = "name", UNCHANGED lists,
           unread' \in {unread, unread \cup {k}}
    PROVE  Visited'
<1>1. PICK n \in 0 .. MaxLists : DOMAIN lists = 1 .. n /\ k \in 1 .. (n + 1)
  BY DEF Visited
<1>2. k' \in 1 .. (n + 1) /\ DOMAIN lists' = 1 .. n
  BY <1>1, ListAssumption
<1>3. unread' \subseteq 1 .. k' /\ k' \notin unread'
  BY <1>1, ListAssumption DEF Visited
<1> QED BY <1>2, <1>3 DEF Visited

(* Every step keeps the count of the skipped lists.                          *)
LEMMA NextIInv == IInv /\ [Next]_vars => IInv'
<1> SUFFICES ASSUME IInv, [Next]_vars PROVE IInv'
  OBVIOUS
<1> USE DEF Goto, Given, Visiting, MayBeUnread
<1>1. CASE Refuse \/ Discover \/ ExpandYieldsNothing \/ PlainFails
  <2>1. UNCHANGED <<lists, tool, k, inaccessible, unread>>
    BY <1>1 DEF Refuse, Discover, ExpandYieldsNothing, PlainFails
  <2>2. Visited'
    BY <1>1, <2>1 DEF Refuse, Discover, ExpandYieldsNothing, PlainFails, IInv, Visited
  <2>3. Searched' /\ Answered'
    BY <1>1, <2>1
    DEF Refuse, Discover, ExpandYieldsNothing, PlainFails, IInv, Searched, Answered
  <2> QED BY <2>1, <2>2, <2>3, SameList DEF IInv
<1>2. CASE NameOnly
  <2>1. Visited'
    BY <1>2, Advance DEF NameOnly, NextList, IInv
  <2>2. Searched' /\ Counted' /\ Answered'
    BY <1>2 DEF NameOnly, NextList, IInv, Searched, Counted, Answered
  <2> QED BY <2>1, <2>2 DEF IInv
<1>3. CASE SkipUpgraded
  <2>1. Visited'
    BY <1>3, Advance DEF SkipUpgraded, NextList, IInv
  <2>2. k \notin unread /\ lists[k].upgraded /\ k \in DOMAIN lists
    BY <1>3 DEF SkipUpgraded, NextList, IInv, Visited
  <2>3. Cardinality(Skipped') = Cardinality(Skipped) + 1
    BY <1>3, <2>2, NextIsCounted DEF SkipUpgraded, NextList
  <2>4. Counted'
    BY <1>3, <2>3 DEF SkipUpgraded, NextList, IInv, Counted
  <2>5. Searched' /\ Answered'
    BY <1>3 DEF SkipUpgraded, NextList, IInv, Searched, Answered
  <2> QED BY <2>1, <2>4, <2>5 DEF IInv
<1>4. CASE ReadName
  <2>1. UNCHANGED <<lists, tool, k, inaccessible, unanswered>> /\ phase = "name"
    BY <1>4 DEF ReadName
  <2>2. Counted'
    BY <1>4, <2>1, SameList DEF ReadName
  <2>3. Visited'
    <3>1. PICK n \in 0 .. MaxLists : DOMAIN lists = 1 .. n /\ k \in 1 .. (n + 1)
      BY DEF IInv, Visited
    <3>2. unread' \subseteq 1 .. k
      BY <1>4, <3>1, ListAssumption DEF ReadName, IInv, Visited
    <3> QED BY <1>4, <2>1, <3>1, <3>2 DEF ReadName, Visited
  <2>4. Searched'
    BY <1>4, <2>1 DEF ReadName, Searched
  <2>5. Answered'
    BY <2>1 DEF IInv, Answered
  <2> QED BY <2>2, <2>3, <2>4, <2>5 DEF IInv
<1>5. CASE Expand \/ Plain
  <2>1. /\ UNCHANGED <<lists, tool, unread, unanswered>> /\ tool = "events"
        /\ k' = k + 1 /\ phase' = "name" /\ phase # "raised" /\ k \in DOMAIN lists
    BY <1>5 DEF Expand, Plain, NextList, IInv, Searched, Visited
  <2>2. Visited'
    BY <2>1, Advance DEF IInv
  <2> QED BY <2>1, <2>2 DEF IInv, Searched, Counted, Answered
<1>6. CASE Todos \/ TodosFail
  <2>1. /\ UNCHANGED <<lists, tool, unread, inaccessible>> /\ tool = "reminders"
        /\ k' = k + 1 /\ phase' = "name" /\ k \in DOMAIN lists
        /\ lists[k].upgraded => k \in unread
    BY <1>6 DEF Todos, TodosFail, NextList, IInv, Searched, Visited
  <2>2. Visited'
    BY <2>1, Advance DEF IInv
  <2>3. ~lists[k].upgraded \/ k \in unread
    BY <2>1
  <2>4. Skipped' = Skipped
    BY <2>1, <2>3, NextIsCounted
  <2> QED BY <2>1, <2>2, <2>4 DEF IInv, Searched, Counted, Answered
<1>7. CASE Merge
  <2>1. UNCHANGED <<lists, tool, k, inaccessible, unread, unanswered>> /\ phase' = "returned"
    BY <1>7 DEF Merge
  <2>2. Visited' /\ Searched'
    BY <2>1 DEF IInv, Visited, Searched
  <2>3. Answered'
    BY <1>7, <2>1 DEF IInv, Answered, Merge
  <2> QED BY <2>1, <2>2, <2>3, SameList DEF IInv
<1>8. CASE UNCHANGED vars
  BY <1>8, SameList DEF vars, IInv, Visited, Searched, Answered
<1> QED BY <1>1, <1>2, <1>3, <1>4, <1>5, <1>6, <1>7, <1>8 DEF Next

(* All calendars are behind the loop when a list is returned.                *)
Complete == phase = "returned" => k \notin DOMAIN lists

(* A call does not start as returned.                                        *)
LEMMA InitComplete == Init => Complete
BY DEF Init, Complete

(* Merge, which alone returns, comes after the last calendar.                *)
LEMMA NextComplete == Complete /\ [Next]_vars => Complete'
BY DEF Complete, Next, vars, Goto, Given, NextList, Refuse, Discover, NameOnly,
       SkipUpgraded, ReadName, Expand, ExpandYieldsNothing, Plain, PlainFails,
       Todos, TodosFail, Merge

(* The count and the place of the loop hold throughout every call.           *)
LEMMA Inductive == Spec => [](IInv /\ Complete)
<1>1. Init => IInv /\ Complete
  BY InitIInv, InitComplete
<1>2. IInv /\ Complete /\ [Next]_vars => (IInv /\ Complete)'
  BY NextIInv, NextComplete
<1> QED BY <1>1, <1>2, PTL DEF Spec

-----------------------------------------------------------------------------
(* The note of list_reminders counts every upgraded list whose mark could   *)
(* be read and no other, for any number of lists and any failures.          *)
THEOREM NoteIsExact == Spec => []NoteCountsUpgraded
<1>1. IInv /\ Complete => NoteCountsUpgraded
  <2> SUFFICES ASSUME IInv, Complete, Returned("reminders") PROVE
          inaccessible = Cardinality({l \in DOMAIN lists \ unread : lists[l].upgraded})
    BY DEF NoteCountsUpgraded
  <2>1. PICK n \in 0 .. MaxLists : DOMAIN lists = 1 .. n /\ k \in 1 .. (n + 1)
    BY DEF IInv, Visited
  <2>2. k - 1 = n
    BY <2>1, ListAssumption DEF Complete, Returned
  <2>3. Skipped = {l \in DOMAIN lists \ unread : lists[l].upgraded}
    BY <2>1, <2>2 DEF Skipped
  <2> QED BY <2>3 DEF IInv, Counted, Returned
<1> QED BY <1>1, Inductive, PTL

(* No list of events is returned that passes over a calendar's error.       *)
THEOREM ErrorsAreNotSkipped == Spec => []EveryCalendarAnswered
<1>1. IInv => EveryCalendarAnswered
  BY DEF IInv, Answered, EveryCalendarAnswered, Returned
<1> QED BY <1>1, Inductive, PTL

-----------------------------------------------------------------------------
(* The rows that are an item of a list.                                      *)
Of(l, item) == {row \in Rows : row.list = l /\ row.item = item}

Contents == Items \cup {NoItem}

RowsOf(l, found) == [i \in DOMAIN found |-> [list |-> l, item |-> found[i]]]

Phases == {"discover", "name", "expand", "plain", "todos", "returned", "raised"}

(* A list that did not answer is behind k, or it is the one at k and the     *)
(* call has ended with its error.                                            *)
Typed ==
    /\ tool \in Tools /\ completedToo \in BOOLEAN /\ phase \in Phases
    /\ \A l \in DOMAIN lists : lists[l] \in Lists
    /\ unread \subseteq DOMAIN lists /\ unanswered \subseteq DOMAIN lists
    /\ phase # "raised" => k \notin unanswered
    /\ \A l \in unanswered : l <= k
    /\ rows \in Seq(Rows)
    /\ tool # "reminders" => inaccessible = 0

(* The lists behind k have given what they give, those from k on nothing: so *)
(* no list is merged twice, and none is passed over.                         *)
HasGiven(l, answer) == \A item \in Items : Shown(l, item) = Times(answer, item)

EventsShown ==
    tool = "events" =>
        \A l \in DOMAIN lists :
            /\ l >= k => \A item \in Items : Shown(l, item) = 0
            /\ l < k => \E answer \in Answers(lists[l]) : HasGiven(l, answer)

Gives(l, item) ==
    /\ l < k /\ l \notin unanswered
    /\ lists[l].upgraded => l \in unread
    /\ Reminder(item)

TodosShown ==
    tool = "reminders" =>
        \A l \in DOMAIN lists, item \in Items :
            Shown(l, item) = IF Gives(l, item) THEN Stored(l, item) ELSE 0

InOrder ==
    phase = "returned" /\ tool # "calendars" =>
        \A i, j \in DOMAIN rows : i < j => SortKey(rows[i]) <= SortKey(rows[j])

RInv == Typed /\ EventsShown /\ TodosShown /\ InOrder

(* A one-off event is in a list of events that is returned whatever iCloud   *)
(* makes of the expanding query.                                             *)
OneOffsListed ==
    Returned("events") =>
        \A l \in DOMAIN lists :
            \A i \in DOMAIN lists[l].items :
                ~lists[l].items[i].recurring => Appears(l, lists[l].items[i])

-----------------------------------------------------------------------------
(* Shown, as a number of occurrences.                                        *)
LEMMA RowsCounted ==
    ASSUME NEW r \in Seq(Rows), NEW l, NEW item
    PROVE  Cardinality({i \in DOMAIN r : r[i].list = l /\ r[i].item = item}) = Many(r, Of(l, item))
<1>1. \A i \in DOMAIN r : r[i] \in Rows
  BY LenProperties, ElementOfSeq
<1>2. {i \in DOMAIN r : r[i].list = l /\ r[i].item = item}
         = {i \in DOMAIN r : r[i] \in Of(l, item)}
  BY <1>1 DEF Of
<1> QED BY <1>2 DEF Many, ManyAt

(* Times, as a number of occurrences.                                        *)
LEMMA ItemsCounted ==
    ASSUME NEW s, NEW item
    PROVE  Times(s, item) = Many(s, {item})
<1>1. {i \in DOMAIN s : s[i] = item} = {i \in DOMAIN s : s[i] \in {item}}
  OBVIOUS
<1> QED BY <1>1 DEF Many, ManyAt, Times

(* The rows made of what a list gives are rows of that list only.            *)
LEMMA RowsMade ==
    ASSUME NEW m \in 1 .. MaxLists, NEW found \in Seq(Contents)
    PROVE  /\ RowsOf(m, found) \in Seq(Rows)
           /\ \A item : Many(RowsOf(m, found), Of(m, item)) = Many(found, {item})
           /\ \A l, item : l # m => Many(RowsOf(m, found), Of(l, item)) = 0
<1> DEFINE r == RowsOf(m, found)
<1>1. /\ DOMAIN found = 1 .. Len(found) /\ Len(found) \in Nat
      /\ \A i \in DOMAIN found : found[i] \in Contents
  BY LenProperties, ElementOfSeq
<1>2. DOMAIN r = DOMAIN found
  BY DEF RowsOf
<1>3. \A i \in DOMAIN found :
         r[i] \in Rows /\ r[i].list = m /\ r[i].item = found[i]
  BY <1>1 DEF RowsOf, Rows, Contents
<1>4. r \in [1 .. Len(found) -> Rows]
  BY <1>1, <1>3 DEF RowsOf
<1>5. r \in Seq(Rows)
  BY <1>1, <1>4, SeqOfLength
<1> HIDE DEF r
<1>6. ASSUME NEW item PROVE Many(r, Of(m, item)) = Many(found, {item})
  <2>1. {i \in DOMAIN r : r[i] \in Of(m, item)} = {i \in DOMAIN found : found[i] \in {item}}
    BY <1>2, <1>3 DEF Of
  <2> QED BY <2>1 DEF Many, ManyAt
<1>7. ASSUME NEW l, NEW item, l # m PROVE Many(r, Of(l, item)) = 0
  <2>1. {i \in DOMAIN r : r[i] \in Of(l, item)} = {}
    BY <1>2, <1>3, <1>7 DEF Of
  <2> QED BY <2>1, FS_EmptySet DEF Many, ManyAt
<1> QED BY <1>5, <1>6, <1>7 DEF r

(* A step to the next calendar changes the numbers of the list at k only.    *)
LEMMA FoundAdded ==
    ASSUME rows \in Seq(Rows), NEW m \in 1 .. MaxLists, NEW found \in Seq(Contents),
           rows' = rows \o RowsOf(m, found)
    PROVE  /\ rows' \in Seq(Rows)
           /\ \A item : Shown(m, item)' = Shown(m, item) + Many(found, {item})
           /\ \A l, item : l # m => Shown(l, item)' = Shown(l, item)
<1>1. /\ RowsOf(m, found) \in Seq(Rows)
      /\ \A item : Many(RowsOf(m, found), Of(m, item)) = Many(found, {item})
      /\ \A l, item : l # m => Many(RowsOf(m, found), Of(l, item)) = 0
  BY RowsMade
<1>2. rows' \in Seq(Rows)
  BY <1>1, ConcatProperties
<1>3. ASSUME NEW P PROVE Many(rows', P) = Many(rows, P) + Many(RowsOf(m, found), P)
  BY <1>1, ManyJoined
<1>4. ASSUME NEW l, NEW item
      PROVE  /\ Shown(l, item) = Many(rows, Of(l, item))
             /\ Shown(l, item)' = Many(rows', Of(l, item))
             /\ Shown(l, item) \in Nat
  <2>1. Shown(l, item) = Many(rows, Of(l, item))
    BY RowsCounted DEF Shown
  <2>2. Shown(l, item)' = Many(rows', Of(l, item))
    BY <1>2, RowsCounted DEF Shown
  <2>3. Many(rows, Of(l, item)) \in Nat
    <3>1. Len(rows) \in Nat /\ DOMAIN rows = 1 .. Len(rows)
      BY LenProperties
    <3>2. Many(rows, Of(l, item)) \in 0 .. Len(rows)
      BY <3>1, ManyIsNat
    <3> QED BY <3>1, <3>2
  <2> QED BY <2>1, <2>2, <2>3
<1>5. ASSUME NEW item PROVE Shown(m, item)' = Shown(m, item) + Many(found, {item})
  BY <1>1, <1>3, <1>4
<1>6. ASSUME NEW l, NEW item, l # m PROVE Shown(l, item)' = Shown(l, item)
  BY <1>1, <1>3, <1>4, <1>6
<1> QED BY <1>2, <1>5, <1>6

(* The loop is at a calendar, or behind the last.                            *)
LEMMA PlaceOfK ==
    ASSUME Visited
    PROVE  /\ k \in Nat /\ k >= 1 /\ DOMAIN lists \subseteq 1 .. MaxLists
           /\ \A l \in DOMAIN lists : l \in Nat
           /\ k \in 1 .. (MaxLists + 1)
<1>1. PICK n \in 0 .. MaxLists : DOMAIN lists = 1 .. n /\ k \in 1 .. (n + 1)
  BY DEF Visited
<1> QED BY <1>1, ListAssumption

(* What a list holds, and how often.                                        *)
LEMMA StoredIsMany ==
    ASSUME Typed, NEW l \in DOMAIN lists, NEW item
    PROVE  /\ lists[l].items \in Seq(Items)
           /\ Stored(l, item) = Many(lists[l].items, {item})
           /\ Stored(l, item) \in Nat
<1>1. lists[l].items \in Seq(Items)
  BY ListAssumption DEF Typed
<1>2. Stored(l, item) = Many(lists[l].items, {item})
  BY ItemsCounted DEF Stored
<1>3. Len(lists[l].items) \in Nat /\ DOMAIN lists[l].items = 1 .. Len(lists[l].items)
  BY <1>1, LenProperties
<1>4. Many(lists[l].items, {item}) \in 0 .. Len(lists[l].items)
  BY <1>3, ManyIsNat
<1> QED BY <1>1, <1>2, <1>3, <1>4

(* The places where s has what passes the filter.                            *)
Passes(s, kept, pass) == kept = {i \in DOMAIN s : s[i] \in pass}

(* In f an item is as often as in s, or not at all.                          *)
KeepsPassing(f, s, pass) ==
    \A item : Many(f, {item}) = IF item \in pass THEN Many(s, {item}) ELSE 0

(* A filter that asks the item alone passes all its occurrences or none.     *)
LEMMA KeptTimes ==
    ASSUME NEW s \in Seq(Items), NEW kept, NEW pass, Passes(s, kept, pass),
           NEW f, Filters(f, s, kept)
    PROVE  f \in Seq(Items) /\ KeepsPassing(f, s, pass)
<1>1. DOMAIN s = 1 .. Len(s) /\ Len(s) \in Nat
  BY LenProperties
<1>2. kept \in SUBSET DOMAIN s
  BY DEF Passes
<1>3. f \in Seq(Items)
  BY <1>2, KeptIsSeq
<1>4. \A P : Many(f, P) = ManyAt(s, kept, P)
  <2>1. \E n \in Nat : DOMAIN s = 1 .. n
    BY <1>1
  <2> QED BY <1>2, <2>1, KeptElements
<1>5. ASSUME NEW item
      PROVE  Many(f, {item}) = IF item \in pass THEN Many(s, {item}) ELSE 0
  <2>1. CASE item \in pass
    <3>1. {i \in kept : s[i] \in {item}} = {i \in DOMAIN s : s[i] \in {item}}
      BY <2>1 DEF Passes
    <3> QED BY <1>4, <2>1, <3>1 DEF Many, ManyAt
  <2>2. CASE item \notin pass
    <3>1. {i \in kept : s[i] \in {item}} = {}
      BY <2>2 DEF Passes
    <3> QED BY <1>4, <2>2, <3>1, FS_EmptySet DEF ManyAt
  <2> QED BY <2>1, <2>2
<1> QED BY <1>3, <1>5 DEF KeepsPassing

-----------------------------------------------------------------------------
(* Before the first calendar there are no rows.                              *)
LEMMA InitRInv == Init => RInv
<1> SUFFICES ASSUME Init PROVE RInv
  OBVIOUS
<1>1. PICK n \in 0 .. MaxLists : lists \in [1 .. n -> Lists]
  BY DEF Init
<1>2. rows \in Seq(Rows) /\ DOMAIN rows = {}
  BY EmptySeq DEF Init
<1>3. Typed
  BY <1>1, <1>2 DEF Init, Typed, Phases
<1>4. \A l, item : Shown(l, item) = 0
  <2>1. \A l, item : {i \in DOMAIN rows : rows[i].list = l /\ rows[i].item = item} = {}
    BY <1>2
  <2> QED BY <2>1, FS_EmptySet DEF Shown
<1>5. \A l \in DOMAIN lists : l >= k
  BY <1>1, ListAssumption DEF Init
<1>6. EventsShown /\ TodosShown
  BY <1>1, <1>4, <1>5, ListAssumption DEF EventsShown, TodosShown, Gives, Init
<1>7. InOrder
  BY DEF Init, InOrder
<1> QED BY <1>3, <1>6, <1>7 DEF RInv

(* Steps within one calendar, and the errors that end the call.              *)
LEMMA RowsUntouched ==
    ASSUME IInv, RInv, UNCHANGED <<tool, completedToo, lists, k, rows, inaccessible>>,
           unread' \in {unread, unread \cup {k}}, unread' \subseteq DOMAIN lists,
           phase' \in Phases, phase' # "returned",
           \/ UNCHANGED unanswered /\ phase # "raised"
           \/ /\ unanswered' = unanswered \cup {k} /\ k \in DOMAIN lists
              /\ phase' = "raised" /\ tool = "events"
    PROVE  RInv'
<1>1. k \in Nat /\ \A l \in DOMAIN lists : l \in Nat
  BY PlaceOfK DEF IInv
<1>2. Typed'
  BY <1>1 DEF RInv, Typed
<1>3. \A l, item : Shown(l, item)' = Shown(l, item) /\ Stored(l, item)' = Stored(l, item)
  BY DEF Shown, Stored
<1>4. EventsShown'
  BY <1>3 DEF RInv, EventsShown, HasGiven
<1>5. TodosShown'
  <2>1. tool = "reminders" => \A l \in DOMAIN lists, item \in Items : Gives(l, item)' = Gives(l, item)
    BY <1>1 DEF Gives, Reminder
  <2> QED BY <1>3, <2>1 DEF RInv, TodosShown
<1>6. InOrder'
  BY DEF InOrder
<1> QED BY <1>2, <1>4, <1>5, <1>6 DEF RInv

(* A calendar's rows join the others.                                        *)
LEMMA TypedNext ==
    ASSUME IInv, RInv, UNCHANGED <<tool, completedToo, lists>>, k \in DOMAIN lists,
           k' = k + 1, phase \notin {"raised"}, phase' = "name",
           NEW found \in Seq(Contents), rows' = rows \o RowsOf(k, found),
           unread' \in {unread, unread \cup {k}},
           unanswered' \in {unanswered, unanswered \cup {k}},
           tool # "reminders" => UNCHANGED inaccessible
    PROVE  Typed' /\ InOrder'
<1>1. k \in Nat /\ k \in 1 .. MaxLists
  BY PlaceOfK DEF IInv
<1>2. rows' \in Seq(Rows)
  BY <1>1, FoundAdded DEF RInv, Typed
<1>3. k' \notin unanswered' /\ \A l \in unanswered' : l <= k'
  <2>1. \A l \in unanswered' : l \in Nat /\ l <= k
    BY <1>1, PlaceOfK DEF RInv, Typed, IInv
  <2> QED BY <1>1, <2>1
<1>4. unread' \subseteq DOMAIN lists' /\ unanswered' \subseteq DOMAIN lists'
  BY DEF RInv, Typed
<1> QED BY <1>2, <1>3, <1>4 DEF RInv, Typed, Phases, InOrder

(* A calendar that was searched for events has all of them among the rows.   *)
LEMMA EventsNext ==
    ASSUME IInv, RInv, UNCHANGED <<tool, lists>>, k \in DOMAIN lists,
           k' = k + 1, tool = "events",
           NEW found \in Answers(lists[k]), found \in Seq(Contents),
           rows' = rows \o RowsOf(k, found)
    PROVE  EventsShown' /\ TodosShown'
<1>1. k \in Nat /\ k \in 1 .. MaxLists
  BY PlaceOfK DEF IInv
<1>2. ASSUME NEW l \in DOMAIN lists
      PROVE  /\ l >= k' => \A item \in Items : Shown(l, item)' = 0
             /\ l < k' => \E answer \in Answers(lists[l]) : HasGiven(l, answer)'
  <2>1. l \in Nat
    BY PlaceOfK DEF IInv
  <2>2. /\ l >= k => \A item \in Items : Shown(l, item) = 0
        /\ l < k => \E answer \in Answers(lists[l]) : HasGiven(l, answer)
    BY DEF RInv, EventsShown
  <2>3. CASE l = k
    <3>1. ASSUME NEW item \in Items PROVE Shown(l, item)' = Times(found, item)
      <4>1. Shown(l, item)' = Shown(l, item) + Many(found, {item})
        BY <1>1, <2>3, FoundAdded DEF RInv, Typed
      <4>2. Shown(l, item) = 0
        BY <1>1, <2>2, <2>3
      <4>3. Many(found, {item}) \in Nat
        <5>1. Len(found) \in Nat /\ DOMAIN found = 1 .. Len(found)
          BY LenProperties
        <5>2. Many(found, {item}) \in 0 .. Len(found)
          BY <5>1, ManyIsNat
        <5> QED BY <5>1, <5>2
      <4> QED BY <4>1, <4>2, <4>3, ItemsCounted
    <3>2. HasGiven(l, found)'
      BY <3>1 DEF HasGiven
    <3> QED BY <1>1, <2>3, <3>2
  <2>4. CASE l # k
    <3>1. \A item \in Items : Shown(l, item)' = Shown(l, item)
      BY <1>1, <2>4, FoundAdded DEF RInv, Typed
    <3> QED BY <1>1, <2>1, <2>2, <2>4, <3>1 DEF HasGiven
  <2> QED BY <2>3, <2>4
<1>3. EventsShown'
  BY <1>2 DEF EventsShown
<1> QED BY <1>3 DEF TodosShown

(* A list that was searched for reminders has the pending ones among the     *)
(* rows.                                                                     *)
LEMMA TodosNext ==
    ASSUME IInv, RInv, UNCHANGED <<tool, completedToo, lists, unread>>, k \in DOMAIN lists,
           k' = k + 1, tool = "reminders",
           NEW found \in Seq(Contents), rows' = rows \o RowsOf(k, found),
           unanswered' \in {unanswered, unanswered \cup {k}},
           \A item \in Items :
               Many(found, {item}) =
                   IF k \notin unanswered' /\ (lists[k].upgraded => k \in unread) /\ Reminder(item)
                   THEN Stored(k, item) ELSE 0
    PROVE  EventsShown' /\ TodosShown'
<1>1. k \in Nat /\ k \in 1 .. MaxLists
  BY PlaceOfK DEF IInv
<1>2. ASSUME NEW l \in DOMAIN lists, NEW item \in Items
      PROVE  Shown(l, item)' = IF Gives(l, item)' THEN Stored(l, item)' ELSE 0
  <2>1. l \in Nat /\ Stored(l, item)' = Stored(l, item) /\ Stored(l, item) \in Nat
    BY PlaceOfK, StoredIsMany DEF IInv, RInv, Stored
  <2>2. Shown(l, item) = IF Gives(l, item) THEN Stored(l, item) ELSE 0
    BY DEF RInv, TodosShown
  <2>3. CASE l = k
    <3>1. Shown(l, item)' = Shown(l, item) + Many(found, {item})
      BY <1>1, <2>3, FoundAdded DEF RInv, Typed
    <3>2. Shown(l, item) = 0
      BY <1>1, <2>2, <2>3 DEF Gives
    <3>3. Gives(l, item)' <=>
              l \notin unanswered' /\ (lists[l].upgraded => l \in unread) /\ Reminder(item)
      BY <1>1, <2>3 DEF Gives, Reminder
    <3>4. Many(found, {item}) = IF Gives(l, item)' THEN Stored(l, item) ELSE 0
      BY <2>3, <3>3
    <3> QED BY <2>1, <3>1, <3>2, <3>4
  <2>4. CASE l # k
    <3>1. Shown(l, item)' = Shown(l, item)
      BY <1>1, <2>4, FoundAdded DEF RInv, Typed
    <3>2. Gives(l, item)' <=> Gives(l, item)
      BY <1>1, <2>1, <2>4 DEF Gives, Reminder
    <3> QED BY <2>1, <2>2, <3>1, <3>2
  <2> QED BY <2>3, <2>4
<1>3. TodosShown'
  BY <1>2 DEF TodosShown
<1> QED BY <1>3 DEF EventsShown

(* The sort neither loses nor repeats a row, and orders them.                *)
LEMMA MergeRInv == IInv /\ RInv /\ Merge => RInv'
<1> SUFFICES ASSUME IInv, RInv, Merge PROVE RInv'
  OBVIOUS
<1> DEFINE keys == [i \in DOMAIN rows |-> SortKey(rows[i])]
<1>1. /\ UNCHANGED <<tool, completedToo, lists, k, unread, inaccessible, unanswered>>
      /\ phase = "name" /\ phase' = "returned"
      /\ tool = "calendars" => rows' = rows
      /\ tool # "calendars" => rows' = SortedBy(rows, SortKey)
  BY DEF Merge, Goto, Given
<1>2. rows \in Seq(Rows) /\ \A i \in DOMAIN rows : rows[i] \in Rows
  BY LenProperties, ElementOfSeq DEF RInv, Typed
<1>3. \A row \in Rows : SortKey(row) \in Nat
  BY ItemAssumption DEF Rows, SortKey, NoItem
<1>4. tool # "calendars" => Sorts(rows', rows, keys)
  BY <1>1, <1>2, <1>3 DEF SortedBy, Sorts
<1>5. \A i \in DOMAIN rows : keys[i] = SortKey(rows[i])
  OBVIOUS
<1> HIDE DEF keys
<1>6. \E n \in Nat : DOMAIN rows = 1 .. n
  BY <1>2, LenProperties
<1>7. rows' \in Seq(Rows)
  <2>1. CASE tool = "calendars"
    BY <1>1, <1>2, <2>1
  <2>2. CASE tool # "calendars"
    BY <1>2, <1>4, <2>2, SortedIsSeq
  <2> QED BY <2>1, <2>2
<1>8. \A P : Many(rows', P) = Many(rows, P)
  <2>1. CASE tool = "calendars"
    BY <1>1, <2>1
  <2>2. CASE tool # "calendars"
    BY <1>4, <1>6, <2>2, SortedElements
  <2> QED BY <2>1, <2>2
<1>9. ASSUME NEW l, NEW item
      PROVE  Shown(l, item)' = Shown(l, item) /\ Stored(l, item)' = Stored(l, item)
  <2>1. Shown(l, item) = Many(rows, Of(l, item))
    BY <1>2, RowsCounted DEF Shown
  <2>2. Shown(l, item)' = Many(rows', Of(l, item))
    BY <1>7, RowsCounted DEF Shown
  <2>3. Stored(l, item)' = Stored(l, item)
    BY <1>1 DEF Stored
  <2> QED BY <1>8, <2>1, <2>2, <2>3
<1>10. Typed'
  BY <1>1, <1>7 DEF RInv, Typed, Phases
<1>11. EventsShown' /\ TodosShown'
  BY <1>1, <1>9 DEF RInv, EventsShown, HasGiven, TodosShown, Gives, Reminder
<1>12. InOrder'
  <2> SUFFICES ASSUME tool # "calendars"
               PROVE  \A a, b \in DOMAIN rows' : a < b => (SortKey(rows[a]) <= SortKey(rows[b]))'
    BY <1>1 DEF InOrder
  <2>1. Sorts(rows', rows, keys) /\ DOMAIN rows' = DOMAIN rows
    BY <1>4 DEF Sorts
  <2>2. ASSUME NEW a \in DOMAIN rows, NEW b \in DOMAIN rows, a < b
        PROVE  SortKey(rows'[a]) <= SortKey(rows'[b])
    <3>1. PICK i, j \in DOMAIN rows : rows'[a] = rows[i] /\ rows'[b] = rows[j] /\ NotAfter(keys, i, j)
      <4>1. InKeyOrder(rows', rows, keys)
        BY <1>6, <2>1, KeysDoNotDescend
      <4> QED BY <2>2, <4>1 DEF InKeyOrder
    <3> QED BY <1>5, <3>1 DEF NotAfter
  <2> QED BY <1>1, <2>1, <2>2 DEF SortKey
<1> QED BY <1>10, <1>11, <1>12 DEF RInv

(* What a list that is skipped or not answered adds.                         *)
LEMMA NothingFound == <<>> \in Seq(Contents) /\ \A P : Many(<<>>, P) = 0
BY EmptySeq, ManyOfNone

(* What a calendar holds may be found in it.                                 *)
LEMMA ItemsFound == ASSUME NEW s \in Seq(Items) PROVE s \in Seq(Contents)
BY SeqMonotonic DEF Contents

(* What passes a filter on single items.                                     *)
LEMMA SelectedTimes ==
    ASSUME NEW s \in Seq(Items), NEW found, found = Selected(s, OneOff)
    PROVE  /\ found \in Seq(Items)
           /\ \A item \in Items : ~item.recurring => Many(found, {item}) = Many(s, {item})
<1> DEFINE kept == {i \in DOMAIN s : OneOff(s[i])}
           pass == {item \in Items : OneOff(item)}
<1>1. Filters(found, s, kept)
  BY DEF Filters, Selected
<1>2. Passes(s, kept, pass)
  BY ElementOfSeq, LenProperties DEF Passes
<1>3. \A item \in Items : item \in pass <=> ~item.recurring
  BY DEF OneOff
<1> HIDE DEF kept, pass
<1>4. found \in Seq(Items) /\ KeepsPassing(found, s, pass)
  BY <1>1, <1>2, KeptTimes
<1> QED BY <1>3, <1>4 DEF KeepsPassing

(* What iCloud makes of either query is a sequence of items.                 *)
LEMMA AnswerIsItems ==
    ASSUME Typed, NEW l \in DOMAIN lists, NEW answer \in Answers(lists[l])
    PROVE  answer \in Seq(Items)
<1>1. lists[l].items \in Seq(Items) /\ lists[l].instances \in Seq(Items)
  BY ListAssumption DEF Typed
<1>2. CASE answer = Selected(lists[l].instances, OneOff)
  BY <1>1, <1>2, SelectedTimes
<1> QED BY <1>1, <1>2 DEF Answers, Expanded

(* An item that is in a sequence is in it once or more, and the other way    *)
(* round.                                                                    *)
LEMMA IsThere ==
    ASSUME NEW s, NEW n \in Nat, DOMAIN s = 1 .. n, NEW P
    PROVE  Many(s, P) # 0 <=> \E i \in DOMAIN s : s[i] \in P
<1> DEFINE places == {i \in DOMAIN s : s[i] \in P}
<1>1. IsFiniteSet(places)
  <2>1. IsFiniteSet(1 .. n)
    BY FS_Interval
  <2> QED BY <2>1, FS_Subset
<1>2. Cardinality(places) = 0 <=> places = {}
  BY <1>1, FS_EmptySet
<1>3. Many(s, P) = Cardinality(places)
  BY DEF Many, ManyAt
<1> QED BY <1>2, <1>3

(* What is in the answer a list has given appears in the result.             *)
LEMMA GivenAppears ==
    ASSUME Typed, NEW l \in DOMAIN lists, NEW answer \in Seq(Items), HasGiven(l, answer),
           NEW j \in DOMAIN answer, NEW item, Master(item, answer[j])
    PROVE  Appears(l, item)
<1>1. answer[j] \in Items /\ DOMAIN answer = 1 .. Len(answer) /\ Len(answer) \in Nat
  BY LenProperties, ElementOfSeq
<1>2. Many(answer, {answer[j]}) # 0
  BY <1>1, IsThere
<1>3. Shown(l, answer[j]) # 0
  BY <1>1, <1>2, ItemsCounted DEF HasGiven
<1>4. {i \in DOMAIN rows : rows[i].list = l /\ rows[i].item = answer[j]} # {}
  BY <1>3, FS_EmptySet DEF Shown
<1> QED BY <1>4 DEF Appears

(* What the filters of _search_todos leave.                                  *)
LEMMA WantedTimes ==
    ASSUME Typed, NEW l \in DOMAIN lists, NEW found, found = Selected(lists[l].items, Wanted)
    PROVE  /\ found \in Seq(Items)
           /\ \A item \in Items :
                 Many(found, {item}) = IF Reminder(item) THEN Stored(l, item) ELSE 0
<1> DEFINE s == lists[l].items
           kept == {i \in DOMAIN s : Wanted(s[i])}
           pass == {item \in Items : Wanted(item)}
<1>1. s \in Seq(Items) /\ \A item : Stored(l, item) = Many(s, {item})
  BY StoredIsMany
<1>2. Filters(found, s, kept)
  BY DEF Filters, Selected
<1>3. Passes(s, kept, pass)
  BY <1>1, ElementOfSeq, LenProperties DEF Passes
<1>4. \A item \in Items : item \in pass <=> Reminder(item)
  BY ItemAssumption DEF Wanted, Reminder, Typed
<1> HIDE DEF kept, s, pass
<1>5. s \in Seq(Items)
  BY <1>1
<1>6. found \in Seq(Items) /\ KeepsPassing(found, s, pass)
  BY <1>2, <1>3, <1>5, KeptTimes
<1> QED BY <1>1, <1>4, <1>6 DEF KeepsPassing

(* Every step keeps the numbers of the rows, whichever way the list was      *)
(* searched.                                                                 *)
LEMMA NextRInv == IInv /\ RInv /\ [Next]_vars => RInv'
<1> SUFFICES ASSUME IInv, RInv, [Next]_vars PROVE RInv'
  OBVIOUS
<1> USE DEF Goto, Given, Visiting, MayBeUnread
<1>1. CASE Refuse \/ Discover \/ ExpandYieldsNothing
  BY <1>1, RowsUntouched
  DEF Refuse, Discover, ExpandYieldsNothing, Phases, RInv, Typed
<1>2. CASE PlainFails
  <2>1. /\ UNCHANGED <<tool, completedToo, lists, k, rows, inaccessible, unread>>
        /\ unanswered' = unanswered \cup {k} /\ phase' = "raised"
        /\ k \in DOMAIN lists /\ tool = "events"
    BY <1>2 DEF PlainFails, IInv, Visited, Searched
  <2> QED BY <2>1, RowsUntouched DEF Phases, RInv, Typed
<1>3. CASE ReadName
  <2>1. /\ UNCHANGED <<tool, completedToo, lists, k, rows, inaccessible, unanswered>>
        /\ phase = "name" /\ phase' \in {"expand", "todos"}
        /\ unread' \in {unread, unread \cup {k}} /\ k \in DOMAIN lists
    BY <1>3 DEF ReadName
  <2> QED BY <2>1, RowsUntouched DEF Phases, RInv, Typed
<1>4. CASE NameOnly
  <2>1. <<NoItem>> \in Seq(Contents)
    BY DEF Contents
  <2>2. rows' = rows \o RowsOf(k, <<NoItem>>)
    BY <1>4 DEF NameOnly, NextList, RowsOf
  <2>3. Typed' /\ InOrder'
    BY <1>4, <2>1, <2>2, TypedNext DEF NameOnly, NextList
  <2>4. EventsShown' /\ TodosShown'
    BY <1>4 DEF NameOnly, NextList, EventsShown, TodosShown
  <2> QED BY <2>3, <2>4 DEF RInv
<1>5. CASE SkipUpgraded
  <2>1. /\ UNCHANGED <<tool, completedToo, lists, unread, unanswered>>
        /\ k \in DOMAIN lists /\ k' = k + 1 /\ phase = "name" /\ phase' = "name"
        /\ tool = "reminders" /\ lists[k].upgraded /\ rows' = rows \o RowsOf(k, <<>>)
    BY <1>5 DEF SkipUpgraded, NextList, RowsOf
  <2>2. k \notin unread
    BY <2>1 DEF IInv, Visited
  <2>3. Typed' /\ InOrder'
    BY <2>1, NothingFound, TypedNext
  <2>4. EventsShown' /\ TodosShown'
    BY <2>1, <2>2, NothingFound, TodosNext
  <2> QED BY <2>3, <2>4 DEF RInv
<1>6. CASE Expand \/ Plain
  <2>1. /\ UNCHANGED <<tool, completedToo, lists, unread, unanswered, inaccessible>>
        /\ k \in DOMAIN lists /\ k' = k + 1 /\ phase # "raised" /\ phase' = "name"
        /\ tool = "events"
    BY <1>6 DEF Expand, Plain, NextList, IInv, Visited, Searched
  <2>2. PICK found \in Answers(lists[k]) : rows' = rows \o RowsOf(k, found)
    BY <1>6 DEF Expand, Plain, NextList, RowsOf, Answers
  <2>3. found \in Seq(Items)
    BY <2>1, AnswerIsItems DEF RInv
  <2>4. found \in Seq(Contents)
    BY <2>3, ItemsFound
  <2>5. Typed' /\ InOrder'
    BY <2>1, <2>2, <2>4, TypedNext
  <2>6. EventsShown' /\ TodosShown'
    BY <2>1, <2>2, <2>4, EventsNext
  <2> QED BY <2>5, <2>6 DEF RInv
<1>7. CASE Todos
  <2> DEFINE found == Selected(lists[k].items, Wanted)
  <2>1. /\ UNCHANGED <<tool, completedToo, lists, unread, unanswered, inaccessible>>
        /\ k \in DOMAIN lists /\ k' = k + 1 /\ phase = "todos" /\ phase' = "name"
        /\ tool = "reminders" /\ (lists[k].upgraded => k \in unread)
        /\ rows' = rows \o RowsOf(k, found)
    BY <1>7 DEF Todos, NextList, IInv, Visited, Searched, RowsOf
  <2>2. found = Selected(lists[k].items, Wanted)
    OBVIOUS
  <2> HIDE DEF found
  <2>3. /\ found \in Seq(Items)
        /\ \A item \in Items :
              Many(found, {item}) = IF Reminder(item) THEN Stored(k, item) ELSE 0
    BY <2>1, <2>2, WantedTimes DEF RInv
  <2>4. found \in Seq(Contents)
    BY <2>3, ItemsFound
  <2>5. Typed' /\ InOrder'
    BY <2>1, <2>4, TypedNext
  <2>6. k \notin unanswered'
    BY <2>1 DEF RInv, Typed
  <2>7. EventsShown' /\ TodosShown'
    BY <2>1, <2>3, <2>4, <2>6, TodosNext
  <2> QED BY <2>5, <2>7 DEF RInv
<1>8. CASE TodosFail
  <2>1. /\ UNCHANGED <<tool, completedToo, lists, unread, inaccessible>>
        /\ k \in DOMAIN lists /\ k' = k + 1 /\ phase = "todos" /\ phase' = "name"
        /\ tool = "reminders" /\ rows' = rows \o RowsOf(k, <<>>)
        /\ unanswered' = unanswered \cup {k}
    BY <1>8 DEF TodosFail, NextList, IInv, Visited, Searched, RowsOf
  <2>2. Typed' /\ InOrder'
    BY <2>1, NothingFound, TypedNext
  <2>3. EventsShown' /\ TodosShown'
    BY <2>1, NothingFound, TodosNext
  <2> QED BY <2>2, <2>3 DEF RInv
<1>9. CASE Merge
  BY <1>9, MergeRInv
<1>10. CASE UNCHANGED vars
  <2>1. \A l, item : Shown(l, item)' = Shown(l, item) /\ Stored(l, item)' = Stored(l, item)
    BY <1>10 DEF vars, Shown, Stored
  <2>2. Typed' /\ InOrder'
    BY <1>10 DEF vars, RInv, Typed, InOrder, SortKey
  <2>3. EventsShown' /\ TodosShown'
    BY <1>10, <2>1 DEF vars, RInv, EventsShown, HasGiven, TodosShown, Gives, Reminder
  <2> QED BY <2>2, <2>3 DEF RInv
<1> QED BY <1>1, <1>2, <1>3, <1>4, <1>5, <1>6, <1>7, <1>8, <1>9, <1>10 DEF Next

(* All parts of the invariant hold throughout every call.                    *)
LEMMA RowsInductive == Spec => [](IInv /\ Complete /\ RInv)
<1>1. Init => RInv
  BY InitRInv
<1>2. IInv /\ RInv /\ [Next]_vars => RInv'
  BY NextRInv
<1> QED BY <1>1, <1>2, Inductive, PTL DEF Spec

-----------------------------------------------------------------------------
(* All lists are behind k when a list of rows is returned.                   *)
LEMMA AllBehind ==
    ASSUME IInv, Complete, phase = "returned", NEW l \in DOMAIN lists
    PROVE  l < k
<1>1. PICK n \in 0 .. MaxLists : DOMAIN lists = 1 .. n /\ k \in 1 .. (n + 1)
  BY DEF IInv, Visited
<1> QED BY <1>1, ListAssumption DEF Complete

(* Every variable keeps its type: what the loop adds are rows of the visited *)
(* calendar, and the note never counts more lists than there are.           *)
THEOREM TypeCorrect == Spec => []TypeOK
<1>1. IInv /\ RInv => TypeOK
  <2> SUFFICES ASSUME IInv, RInv PROVE TypeOK
    OBVIOUS
  <2>1. k \in 1 .. MaxLists + 1
    BY PlaceOfK DEF IInv
  <2>2. inaccessible \in 0 .. MaxLists
    <3>1. CASE tool = "reminders"
      <4>1. PICK n \in 0 .. MaxLists : DOMAIN lists = 1 .. n /\ k \in 1 .. (n + 1)
        BY DEF IInv, Visited
      <4>2. n \in Nat /\ n <= MaxLists /\ MaxLists \in Nat
        BY ListAssumption
      <4>3. Skipped \in SUBSET (1 .. n)
        BY <4>1, <4>2 DEF Skipped
      <4>4. IsFiniteSet(1 .. n) /\ Cardinality(1 .. n) = n
        BY <4>2, FS_Interval
      <4>5. IsFiniteSet(Skipped) /\ Cardinality(Skipped) <= n
        BY <4>3, <4>4, FS_Subset
      <4>6. Cardinality(Skipped) \in Nat
        BY <4>5, FS_CardinalityType
      <4> QED BY <3>1, <4>2, <4>5, <4>6 DEF IInv, Counted
    <3>2. CASE tool # "reminders"
      BY <3>2, ListAssumption DEF RInv, Typed
    <3> QED BY <3>1, <3>2
  <2> QED BY <2>1, <2>2 DEF RInv, Typed, TypeOK, Phases
<1> QED BY <1>1, RowsInductive, PTL

(* The rows of a calendar are those of one answer of iCloud, for any number  *)
(* of calendars and whatever is found, refused or asked for again.           *)
THEOREM AnswersAreNotMixed == Spec => []OneAnswerEach
<1>1. IInv /\ Complete /\ RInv => OneAnswerEach
  BY AllBehind DEF OneAnswerEach, Returned, RInv, EventsShown, HasGiven
<1> QED BY <1>1, RowsInductive, PTL

(* An event of a calendar appears if iCloud's answer has an instance of it,  *)
(* or its master.                                                            *)
LEMMA EventAppears ==
    ASSUME IInv, Complete, RInv, Returned("events"),
           NEW l \in DOMAIN lists, NEW i \in DOMAIN lists[l].items,
           PartialExpand => ~lists[l].items[i].recurring
    PROVE  Appears(l, lists[l].items[i])
<1> DEFINE item == lists[l].items[i]
<1>1. PICK answer \in Answers(lists[l]) : HasGiven(l, answer)
  BY AllBehind DEF RInv, EventsShown, Returned
<1>2. answer \in Seq(Items)
  BY AnswerIsItems DEF RInv
<1>3. PICK j \in DOMAIN lists[l].instances : Master(item, lists[l].instances[j])
  BY ListAssumption DEF RInv, Typed
<1>4. lists[l].instances \in Seq(Items)
  BY ListAssumption DEF RInv, Typed
<1>5. \E n \in DOMAIN answer : Master(item, answer[n])
  <2>1. CASE answer = lists[l].items
    BY <2>1 DEF Master
  <2>2. CASE answer = lists[l].instances
    BY <1>3, <2>2
  <2>3. CASE PartialExpand /\ answer = Selected(lists[l].instances, OneOff)
    <3> DEFINE instance == lists[l].instances[j]
    <3>1. /\ DOMAIN lists[l].instances = 1 .. Len(lists[l].instances)
          /\ Len(lists[l].instances) \in Nat /\ instance \in Items
      BY <1>3, <1>4, LenProperties, ElementOfSeq
    <3>2. ~instance.recurring
      BY <1>3, <2>3 DEF Master
    <3>3. Many(answer, {instance}) = Many(lists[l].instances, {instance})
      BY <1>4, <2>3, <3>1, <3>2, SelectedTimes
    <3>4. Many(lists[l].instances, {instance}) # 0
      BY <3>1, IsThere
    <3>5. DOMAIN answer = 1 .. Len(answer) /\ Len(answer) \in Nat
      BY <1>2, LenProperties
    <3> HIDE DEF instance
    <3>6. \E n \in DOMAIN answer : answer[n] \in {instance}
      BY <3>3, <3>4, <3>5, IsThere
    <3> QED BY <1>3, <3>6 DEF instance
  <2> QED BY <1>1, <2>1, <2>2, <2>3 DEF Answers, Expanded
<1> QED BY <1>1, <1>2, <1>5, GivenAppears DEF RInv

(* Where iCloud's expand quirk hits whole calendars only, every event of     *)
(* every calendar is in a list of events that is returned, by an instance or *)
(* by its master, and the list rests on an answer from each calendar.        *)
THEOREM EventsAreListed ==
    ASSUME ~PartialExpand
    PROVE  Spec => []EveryEventListed
<1>1. IInv /\ Complete /\ RInv => EveryEventListed
  BY EventAppears DEF EveryEventListed, Returned, IInv, Answered
<1> QED BY <1>1, RowsInductive, PTL

(* Where it hits single events, too, those that do not recur are there all   *)
(* the same: what is lost is recurring.                                      *)
THEOREM OneOffsAreListed == Spec => []OneOffsListed
<1>1. IInv /\ Complete /\ RInv => OneOffsListed
  BY EventAppears DEF OneOffsListed
<1> QED BY <1>1, RowsInductive, PTL

(* Every pending reminder of a list that answered is in the result, and      *)
(* nothing else is, for any number of lists and any failures.                *)
THEOREM RemindersAreExact == Spec => []RemindersExact
<1>1. IInv /\ Complete /\ RInv => RemindersExact
  <2> SUFFICES ASSUME IInv, Complete, RInv, Returned("reminders"),
                      NEW l \in DOMAIN lists, NEW item \in Items
               PROVE  /\ Shown(l, item) \in {0, Stored(l, item)}
                      /\ Shown(l, item) # 0 =>
                            Reminder(item) /\ (lists[l].upgraded => l \in unread)
                      /\ ~lists[l].upgraded /\ l \notin unanswered /\ Reminder(item) =>
                            Shown(l, item) = Stored(l, item)
    BY DEF RemindersExact
  <2>1. l < k
    BY AllBehind DEF Returned
  <2> QED BY <2>1 DEF Returned, RInv, TodosShown, Gives
<1> QED BY <1>1, RowsInductive, PTL

(* Starts and dues of one form come in the order of time, whichever calendar *)
(* a row is from, and the undated first (events) or last (reminders).        *)
THEOREM ResultIsSorted == Spec => []SortedResult
<1>1. RInv => SortedResult
  <2> SUFFICES ASSUME RInv, phase = "returned", tool # "calendars",
                      NEW i \in DOMAIN rows, NEW j \in DOMAIN rows, i < j
               PROVE  /\ tool = "events" /\ Dated(i) => Dated(j)
                      /\ tool = "reminders" /\ Dated(j) => Dated(i)
                      /\ Dated(i) /\ Dated(j) /\ rows[i].item.form = rows[j].item.form =>
                            rows[i].item.at <= rows[j].item.at
    BY DEF SortedResult
  <2>1. rows[i] \in Rows /\ rows[j] \in Rows
    BY LenProperties, ElementOfSeq DEF RInv, Typed
  <2>2. /\ rows[i].item.text \in Nat /\ rows[j].item.text \in Nat
        /\ rows[i].item.text # 0 => rows[i].item \in Items /\ rows[i].item.text < Tilde
        /\ rows[j].item.text # 0 => rows[j].item \in Items /\ rows[j].item.text < Tilde
    BY <2>1, ItemAssumption DEF Rows, NoItem
  <2>3. SortKey(rows[i]) <= SortKey(rows[j])
    BY DEF RInv, InOrder
  <2>4. /\ tool = "events" /\ Dated(i) => Dated(j)
        /\ tool = "reminders" /\ Dated(j) => Dated(i)
        /\ Dated(i) /\ Dated(j) => 0 < rows[i].item.text /\ rows[i].item.text <= rows[j].item.text
    BY <2>2, <2>3, ItemAssumption DEF SortKey, Dated, RInv, Typed, Tools
  <2>5. ASSUME Dated(i), Dated(j), rows[i].item.form = rows[j].item.form
        PROVE  rows[i].item.at <= rows[j].item.at
    BY <2>2, <2>4, <2>5, ItemAssumption DEF Dated
  <2> QED BY <2>4, <2>5
<1> QED BY <1>1, RowsInductive, PTL
=============================================================================
