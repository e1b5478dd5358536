--------------------------- MODULE MC_ListTools ---------------------------
(* One-off, recurring, undated, completed and placeholder items; a due with *)
(* another offset from UTC than the others.                                 *)
EXTENDS ListTools, TLC

Item(uid, text, at, form) ==
    [uid |-> uid, text |-> text, at |-> at, form |-> form,
     recurring |-> FALSE, completed |-> FALSE, tombstone |-> FALSE]

\* "...T08:00:00+00:00", and "...T09:30:00+02:00", which is half an hour before.
early == Item("early", 3, 2, "+00:00")
abroad == Item("abroad", 4, 1, "+02:00")
undated == Item("undated", 0, 0, "none")
finished == [Item("finished", 3, 2, "+00:00") EXCEPT !.completed = TRUE]

\* What is left in an upgraded list: an item that _is_tombstone_todo knows, and
\* one that it does not.
stub == [Item("stub", 0, 0, "none") EXCEPT !.tombstone = TRUE]
notice == Item("notice", 0, 0, "none")

\* A recurring event, and two instances of it in the range, in UTC.
weekly == [Item("weekly", 2, 0, "+02:00") EXCEPT !.recurring = TRUE]
first == [Item("weekly", 1, 0, "+00:00") EXCEPT !.recurring = TRUE]
second == [Item("weekly", 5, 3, "+00:00") EXCEPT !.recurring = TRUE]

MCItems == {early, abroad, undated, finished, stub, notice, weekly, first, second}

List(upgraded, items, instances) ==
    [upgraded |-> upgraded, items |-> items, instances |-> instances]

MCLists ==
    {List(FALSE, items, items) :
        items \in {<<>>, <<abroad, undated>>, <<finished, stub, early>>}}
    \cup {List(FALSE, <<weekly, early>>, <<first, second, early>>),
          List(TRUE, <<stub, notice>>, <<stub, notice>>)}

\* SeqOrder against the standard modules, with the places as the last key so
\* that no two elements are equal to SortSeq.
ShortSeqs == UNION {[1 .. n -> MCItems] : n \in 0 .. 3}

ASSUME SelectedIsSelectSeq ==
    \A s \in ShortSeqs : Selected(s, OneOff) = SelectSeq(s, OneOff)

ASSUME SortedByIsSortSeq ==
    \A s \in ShortSeqs :
        LET placed == [i \in DOMAIN s |-> <<s[i].text, i>>]
            Key(p) == p[1]
            Before(p, q) == p[1] < q[1] \/ (p[1] = q[1] /\ p[2] < q[2])
        IN  SortedBy(placed, Key) = SortSeq(placed, Before)
=============================================================================
