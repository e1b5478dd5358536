------------------------------ MODULE SeqOrder ------------------------------
(***************************************************************************)
(* Filtering and sorting a sequence as Python's list comprehensions and    *)
(* list.sort(key=...) do, each by the places of the elements: what is kept *)
(* stays in its order, and what has equal keys stays in its order, too.    *)
(*                                                                         *)
(* SelectSeq and SortSeq would not do.  The provers know nothing of the    *)
(* first, and the definition of the second names no sequence at all when   *)
(* two different elements have the same key.                               *)
(***************************************************************************)
EXTENDS Naturals, Sequences, FiniteSets

\* The n-th smallest of a set of places.
Nth(S, n) == CHOOSE i \in S : Cardinality({j \in S : j <= i}) = n

\* [x for x in s if Test(x)]
Selected(s, Test(_)) ==
    LET kept == {i \in DOMAIN s : Test(s[i])}
    IN  [n \in 1 .. Cardinality(kept) |-> s[Nth(kept, n)]]

\* The places from which the elements up to that of place i come in the order
\* of the keys.
UpTo(keys, i) ==
    {j \in DOMAIN keys : keys[j] < keys[i] \/ (keys[j] = keys[i] /\ j <= i)}

\* The place that the n-th element in the order of the keys comes from.
Origin(keys, n) == CHOOSE i \in DOMAIN keys : Cardinality(UpTo(keys, i)) = n

\* s.sort(key=Key)
SortedBy(s, Key(_)) ==
    LET keys == [i \in DOMAIN s |-> Key(s[i])]
    IN  [n \in DOMAIN s |-> s[Origin(keys, n)]]
=============================================================================
