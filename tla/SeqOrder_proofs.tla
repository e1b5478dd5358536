--------------------------- MODULE SeqOrder_proofs ---------------------------
(***************************************************************************)
(* Nth and Origin number what they order without a gap and without a       *)
(* repetition, for sequences of any length.  Both orders are chains of      *)
(* initial segments, which RankIsBijection numbers by their size.  Hence    *)
(* what filtering, sorting and joining make of the number of times that an   *)
(* element occurs.                                                          *)
(***************************************************************************)
EXTENDS SeqOrder, Integers, FiniteSetTheorems, FunctionTheorems, SequenceTheorems, TLAPS

(* Finite sets between which there is a bijection: the elements that it      *)
(* takes into B are as many as those of B.                                   *)
LEMMA CountThrough ==
    ASSUME NEW S, NEW T, NEW f \in Bijection(S, T), NEW B \in SUBSET T, IsFiniteSet(B),
           NEW A \in SUBSET S, \A x \in S : x \in A <=> f[x] \in B
    PROVE  IsFiniteSet(A) /\ Cardinality(A) = Cardinality(B)
<1> DEFINE g == [y \in B |-> CHOOSE x \in S : f[x] = y]
<1>1. /\ f \in [S -> T]
      /\ \A a, b \in S : f[a] = f[b] => a = b
      /\ \A t \in T : \E s \in S : f[s] = t
  BY Fun_BijectionProperties
<1>2. ASSUME NEW y \in B PROVE g[y] \in A /\ f[g[y]] = y
  BY <1>1, <1>2
<1>3. g \in [B -> A]
  <2>1. \A y \in B : (CHOOSE x \in S : f[x] = y) \in A
    BY <1>2
  <2> QED BY <2>1
<1>4. \A a, b \in B : g[a] = g[b] => a = b
  BY <1>2
<1>5. \A x \in A : \E y \in B : g[y] = x
  BY <1>1, <1>2
<1> HIDE DEF g
<1>6. g \in Bijection(B, A)
  BY <1>3, <1>4, <1>5, Fun_IsBij
<1>7. ExistsBijection(B, A)
  BY <1>6 DEF ExistsBijection
<1> QED BY <1>7, FS_Bijection

(* The size of its initial segment numbers the elements of a finite chain.   *)
LEMMA RankIsBijection ==
    ASSUME NEW S, IsFiniteSet(S), NEW upto \in [S -> SUBSET S],
           \A i \in S : i \in upto[i],
           \A i, j \in S : i \in upto[j] \/ j \in upto[i],
           \A i, j \in S : i \in upto[j] /\ j \in upto[i] => i = j,
           \A i, j \in S : i \in upto[j] => upto[i] \subseteq upto[j]
    PROVE  /\ [i \in S |-> Cardinality(upto[i])] \in Bijection(S, 1 .. Cardinality(S))
           /\ \A i, j \in S : Cardinality(upto[i]) <= Cardinality(upto[j]) => i \in upto[j]
<1> DEFINE rank == [i \in S |-> Cardinality(upto[i])]
<1>1. Cardinality(S) \in Nat
  BY FS_CardinalityType
<1>2. ASSUME NEW i \in S
      PROVE  IsFiniteSet(upto[i]) /\ Cardinality(upto[i]) \in 1 .. Cardinality(S)
  <2>1. IsFiniteSet(upto[i]) /\ Cardinality(upto[i]) <= Cardinality(S)
    BY FS_Subset
  <2>2. Cardinality(upto[i]) \in Nat /\ Cardinality(upto[i]) # 0
    BY <2>1, FS_CardinalityType, FS_EmptySet
  <2> QED BY <2>1, <2>2, <1>1
<1>3. ASSUME NEW i \in S, NEW j \in S, i \notin upto[j]
      PROVE  Cardinality(upto[j]) < Cardinality(upto[i])
  <2>1. upto[j] \subseteq upto[i] /\ upto[j] # upto[i]
    BY <1>3
  <2>2. /\ Cardinality(upto[j]) <= Cardinality(upto[i])
        /\ Cardinality(upto[i]) # Cardinality(upto[j])
    BY <1>2, <2>1, FS_Subset
  <2> QED BY <1>2, <2>2
<1>4. \A i, j \in S : Cardinality(upto[i]) <= Cardinality(upto[j]) => i \in upto[j]
  BY <1>2, <1>3
<1>5. rank \in Injection(S, 1 .. Cardinality(S))
  <2>1. rank \in [S -> 1 .. Cardinality(S)]
    BY <1>2
  <2>2. \A i, j \in S : rank[i] = rank[j] => i = j
    BY <1>2, <1>4
  <2> QED BY <2>1, <2>2, Fun_IsInj
<1>6. IsFiniteSet(1 .. Cardinality(S)) /\ Cardinality(1 .. Cardinality(S)) = Cardinality(S)
  BY <1>1, FS_Interval
<1>7. rank \in Surjection(S, 1 .. Cardinality(S))
  BY <1>5, <1>6, FS_Injection
<1>8. rank \in Bijection(S, 1 .. Cardinality(S))
  BY <1>5, <1>7, Fun_IsBij
<1> QED BY <1>4, <1>8

(* A numbering, read backwards.                                              *)
LEMMA ReadBackwards ==
    ASSUME NEW S, NEW T, NEW rank \in Bijection(S, T), NEW back \in [T -> S],
           \A k \in T : rank[back[k]] = k
    PROVE  back \in Bijection(T, S)
<1>1. /\ rank \in [S -> T]
      /\ \A a, b \in S : rank[a] = rank[b] => a = b
  BY Fun_BijectionProperties
<1>2. \A a, b \in T : back[a] = back[b] => a = b
  OBVIOUS
<1>3. \A i \in S : \E k \in T : back[k] = i
  BY <1>1
<1> QED BY <1>2, <1>3, Fun_IsBij

(* Nth lists a set of places, each once.                                     *)
LEMMA NthIsBijection ==
    ASSUME NEW n \in Nat, NEW S \in SUBSET (1 .. n)
    PROVE  /\ Cardinality(S) \in Nat
           /\ [k \in 1 .. Cardinality(S) |-> Nth(S, k)] \in Bijection(1 .. Cardinality(S), S)
<1> DEFINE upto == [i \in S |-> {j \in S : j <= i}]
           rank == [i \in S |-> Cardinality(upto[i])]
           nth == [k \in 1 .. Cardinality(S) |-> Nth(S, k)]
<1>1. IsFiniteSet(S)
  <2>1. IsFiniteSet(1 .. n)
    BY FS_Interval
  <2> QED BY <2>1, FS_Subset
<1>2. Cardinality(S) \in Nat
  BY <1>1, FS_CardinalityType
<1>3. rank \in Bijection(S, 1 .. Cardinality(S))
  <2>1. upto \in [S -> SUBSET S]
    OBVIOUS
  <2>2. \A i, j \in S : i \in Nat /\ (i \in upto[j] <=> i <= j)
    OBVIOUS
  <2> HIDE DEF upto
  <2>3. /\ \A i \in S : i \in upto[i]
        /\ \A i, j \in S : i \in upto[j] \/ j \in upto[i]
        /\ \A i, j \in S : i \in upto[j] /\ j \in upto[i] => i = j
    BY <2>2
  <2>4. \A i, j \in S : i \in upto[j] => upto[i] \subseteq upto[j]
    <3>1. ASSUME NEW i \in S, NEW j \in S, i \in upto[j], NEW h \in S, h \in upto[i]
          PROVE  h \in upto[j]
      <4>1. i \in Nat /\ j \in Nat /\ h \in Nat /\ h <= i /\ i <= j
        BY <2>2, <3>1
      <4>2. h <= j
        BY <4>1
      <4> QED BY <2>2, <4>2
    <3> QED BY <2>1, <3>1
  <2> QED BY <1>1, <2>1, <2>3, <2>4, RankIsBijection
<1>4. \A k \in 1 .. Cardinality(S) : Nth(S, k) = CHOOSE i \in S : rank[i] = k
  BY DEF Nth
<1> HIDE DEF rank
<1>5. \A k \in 1 .. Cardinality(S) : \E i \in S : rank[i] = k
  <2>1. \A U, T : rank \in Bijection(U, T) => \A k \in T : \E i \in U : rank[i] = k
    BY Fun_BijectionProperties
  <2> QED BY <1>3, <2>1
<1>6. \A k \in 1 .. Cardinality(S) : nth[k] \in S /\ rank[nth[k]] = k
  BY <1>4, <1>5
<1>7. nth \in [1 .. Cardinality(S) -> S]
  BY <1>6
<1> HIDE DEF nth
<1>8. nth \in Bijection(1 .. Cardinality(S), S)
  BY <1>3, <1>6, <1>7, ReadBackwards
<1> QED BY <1>2, <1>8 DEF nth

(* Origin permutes the places, and the keys at the places it gives do not    *)
(* descend.                                                                  *)
LEMMA OriginSorts ==
    ASSUME NEW n \in Nat, NEW keys \in [1 .. n -> Nat]
    PROVE  /\ [k \in 1 .. n |-> Origin(keys, k)] \in Bijection(1 .. n, 1 .. n)
           /\ \A a, b \in 1 .. n : a < b => keys[Origin(keys, a)] <= keys[Origin(keys, b)]
<1> DEFINE upto == [i \in 1 .. n |-> UpTo(keys, i)]
           rank == [i \in 1 .. n |-> Cardinality(upto[i])]
           orig == [k \in 1 .. n |-> Origin(keys, k)]
<1>1. IsFiniteSet(1 .. n) /\ Cardinality(1 .. n) = n
  BY FS_Interval
<1>2. \A i, j \in 1 .. n :
          i \in upto[j] <=> keys[i] < keys[j] \/ (keys[i] = keys[j] /\ i <= j)
  BY DEF UpTo
<1>3. /\ rank \in Bijection(1 .. n, 1 .. n)
      /\ \A i, j \in 1 .. n : rank[i] <= rank[j] => i \in upto[j]
  <2>1. upto \in [1 .. n -> SUBSET (1 .. n)]
    BY DEF UpTo
  <2> HIDE DEF upto
  <2>2. /\ \A i \in 1 .. n : i \in upto[i]
        /\ \A i, j \in 1 .. n : i \in upto[j] \/ j \in upto[i]
        /\ \A i, j \in 1 .. n : i \in upto[j] /\ j \in upto[i] => i = j
    BY <1>2
  <2>3. \A i, j \in 1 .. n : i \in upto[j] => upto[i] \subseteq upto[j]
    <3>1. ASSUME NEW i \in 1 .. n, NEW j \in 1 .. n, i \in upto[j],
                 NEW h \in 1 .. n, h \in upto[i]
          PROVE  h \in upto[j]
      BY <1>2, <3>1
    <3> QED BY <2>1, <3>1
  <2>4. [i \in 1 .. n |-> Cardinality(upto[i])] \in Bijection(1 .. n, 1 .. n)
    BY <1>1, <2>1, <2>2, <2>3, RankIsBijection
  <2>5. \A i, j \in 1 .. n : Cardinality(upto[i]) <= Cardinality(upto[j]) => i \in upto[j]
    BY <1>1, <2>1, <2>2, <2>3, RankIsBijection
  <2> QED BY <2>4, <2>5
<1>4. \A k \in 1 .. n : Origin(keys, k) = CHOOSE i \in 1 .. n : rank[i] = k
  BY DEF Origin
<1> HIDE DEF rank, upto
<1>5. \A k \in 1 .. n : \E i \in 1 .. n : rank[i] = k
  <2>1. \A S, T : rank \in Bijection(S, T) => \A k \in T : \E i \in S : rank[i] = k
    BY Fun_BijectionProperties
  <2> QED BY <1>3, <2>1
<1>6. \A k \in 1 .. n : orig[k] \in 1 .. n /\ rank[orig[k]] = k
  BY <1>4, <1>5
<1>7. orig \in [1 .. n -> 1 .. n]
  BY <1>6
<1> HIDE DEF orig
<1>8. orig \in Bijection(1 .. n, 1 .. n)
  BY <1>3, <1>6, <1>7, ReadBackwards
<1>9. ASSUME NEW a \in 1 .. n, NEW b \in 1 .. n, a < b
      PROVE  keys[orig[a]] <= keys[orig[b]]
  <2>1. orig[a] \in 1 .. n /\ orig[b] \in 1 .. n /\ rank[orig[a]] <= rank[orig[b]]
    BY <1>6, <1>9
  <2>2. orig[a] \in upto[orig[b]]
    BY <1>3, <2>1
  <2>3. keys[orig[a]] \in Nat /\ keys[orig[b]] \in Nat
    BY <2>1
  <2> QED BY <1>2, <2>1, <2>2, <2>3
<1> QED BY <1>8, <1>9 DEF orig

-----------------------------------------------------------------------------
(* How many of the elements of a sequence, or of those at some places, are   *)
(* in P.                                                                     *)
ManyAt(s, places, P) == Cardinality({i \in places : s[i] \in P})

Many(s, P) == ManyAt(s, DOMAIN s, P)

(* A function on 1 .. n is a sequence of length n.                           *)
LEMMA SeqOfLength ==
    ASSUME NEW S, NEW n \in Nat, NEW f \in [1 .. n -> S]
    PROVE  f \in Seq(S) /\ Len(f) = n
<1>1. f \in Seq(S)
  BY SeqDef
<1>2. Len(f) \in Nat /\ 1 .. Len(f) = 1 .. n
  BY <1>1, LenProperties
<1> QED BY <1>1, <1>2

(* A sequence has an element no more often than it has elements.             *)
LEMMA ManyIsNat ==
    ASSUME NEW s, NEW n \in Nat, DOMAIN s = 1 .. n, NEW P
    PROVE  /\ IsFiniteSet({i \in DOMAIN s : s[i] \in P})
           /\ Many(s, P) \in 0 .. n
<1>1. IsFiniteSet(1 .. n) /\ Cardinality(1 .. n) = n
  BY FS_Interval
<1>2. {i \in DOMAIN s : s[i] \in P} \in SUBSET (1 .. n)
  OBVIOUS
<1>3. /\ IsFiniteSet({i \in DOMAIN s : s[i] \in P})
      /\ Cardinality({i \in DOMAIN s : s[i] \in P}) <= n
  BY <1>1, <1>2, FS_Subset
<1>4. Many(s, P) \in Nat
  BY <1>3, FS_CardinalityType DEF Many, ManyAt
<1> QED BY <1>3, <1>4 DEF Many, ManyAt

(* A sequence that takes its elements, each once, from some places of s.     *)
LEMMA ManyThrough ==
    ASSUME NEW s, NEW D \in SUBSET DOMAIN s, IsFiniteSet(D),
           NEW r, NEW q \in Bijection(DOMAIN r, D), \A k \in DOMAIN r : r[k] = s[q[k]],
           NEW P
    PROVE  Many(r, P) = ManyAt(s, D, P)
<1> DEFINE A == {k \in DOMAIN r : r[k] \in P}
           B == {i \in D : s[i] \in P}
<1>1. B \in SUBSET D /\ IsFiniteSet(B)
  BY FS_Subset
<1>2. q \in [DOMAIN r -> D]
  BY Fun_BijectionProperties
<1>3. A \in SUBSET DOMAIN r /\ \A k \in DOMAIN r : k \in A <=> q[k] \in B
  BY <1>2
<1> HIDE DEF A, B
<1>4. Cardinality(A) = Cardinality(B)
  BY <1>1, <1>3, CountThrough
<1> QED BY <1>4 DEF Many, ManyAt, A, B

(* A permutation leaves the numbers as they are.                             *)
LEMMA ManyPermuted ==
    ASSUME NEW s, NEW r, DOMAIN r = DOMAIN s, IsFiniteSet(DOMAIN s),
           NEW q \in Bijection(DOMAIN s, DOMAIN s), \A k \in DOMAIN s : r[k] = s[q[k]],
           NEW P
    PROVE  Many(r, P) = Many(s, P)
<1> DEFINE D == DOMAIN s
<1>1. /\ D \in SUBSET DOMAIN s /\ IsFiniteSet(D) /\ q \in Bijection(DOMAIN r, D)
      /\ \A k \in DOMAIN r : r[k] = s[q[k]]
  OBVIOUS
<1>2. Many(s, P) = ManyAt(s, D, P)
  BY DEF Many
<1> HIDE DEF D
<1> QED BY <1>1, <1>2, ManyThrough

(* f is what filtering leaves of s when the places kept are those.           *)
Filters(f, s, kept) == f = [k \in 1 .. Cardinality(kept) |-> s[Nth(kept, k)]]

(* f has what s has at the places kept, and nothing else.                    *)
Takes(f, s, kept) ==
    /\ \A k \in DOMAIN f : \E i \in kept : f[k] = s[i]
    /\ \A i \in kept : \E k \in DOMAIN f : f[k] = s[i]

(* Filtering keeps the number of what passes, and drops the rest: what is    *)
(* left comes from the sequence, and what passes is in there.                *)
LEMMA KeptElements ==
    ASSUME NEW s, \E n \in Nat : DOMAIN s = 1 .. n, NEW kept \in SUBSET DOMAIN s,
           NEW f, Filters(f, s, kept)
    PROVE  /\ Cardinality(kept) \in Nat /\ DOMAIN f = 1 .. Cardinality(kept)
           /\ Takes(f, s, kept)
           /\ \A P : Many(f, P) = ManyAt(s, kept, P)
<1>1. PICK n \in Nat : DOMAIN s = 1 .. n
  OBVIOUS
<1>2. IsFiniteSet(kept)
  <2>1. IsFiniteSet(DOMAIN s)
    BY <1>1, FS_Interval
  <2> QED BY <2>1, FS_Subset
<1>3. /\ Cardinality(kept) \in Nat
      /\ [k \in DOMAIN f |-> Nth(kept, k)] \in Bijection(DOMAIN f, kept)
  BY <1>1, NthIsBijection DEF Filters
<1>4. PICK q \in Bijection(DOMAIN f, kept) : \A k \in DOMAIN f : f[k] = s[q[k]]
  BY <1>3 DEF Filters
<1>5. /\ \A k \in DOMAIN f : \E i \in kept : f[k] = s[i]
      /\ \A i \in kept : \E k \in DOMAIN f : f[k] = s[i]
  <2>1. q \in [DOMAIN f -> kept] /\ \A i \in kept : \E k \in DOMAIN f : q[k] = i
    BY Fun_BijectionProperties
  <2> QED BY <1>4, <2>1
<1>6. ASSUME NEW P PROVE Many(f, P) = ManyAt(s, kept, P)
  BY <1>2, <1>4, ManyThrough
<1> QED BY <1>3, <1>5, <1>6 DEF Filters, Takes

(* A filtered sequence is a sequence of the same elements.                   *)
LEMMA KeptIsSeq ==
    ASSUME NEW S, NEW s \in Seq(S), NEW kept \in SUBSET DOMAIN s,
           NEW f, Filters(f, s, kept)
    PROVE  f \in Seq(S) /\ Len(f) = Cardinality(kept)
<1>1. DOMAIN s = 1 .. Len(s) /\ Len(s) \in Nat /\ \A i \in DOMAIN s : s[i] \in S
  BY LenProperties, ElementOfSeq
<1>2. \E n \in Nat : DOMAIN s = 1 .. n
  BY <1>1
<1>3. Cardinality(kept) \in Nat /\ DOMAIN f = 1 .. Cardinality(kept) /\ Takes(f, s, kept)
  BY <1>2, KeptElements
<1>4. f = [k \in 1 .. Cardinality(kept) |-> f[k]]
  BY DEF Filters
<1>5. f \in [1 .. Cardinality(kept) -> S]
  BY <1>1, <1>3, <1>4 DEF Takes
<1> QED BY <1>3, <1>5, SeqOfLength

(* f is s in the order of the keys.                                          *)
Sorts(f, s, keys) ==
    /\ keys \in [DOMAIN s -> Nat]
    /\ f = [k \in DOMAIN s |-> s[Origin(keys, k)]]

(* The keys do not descend along q.                                          *)
Ascends(keys, q) == \A a, b \in DOMAIN keys : a < b => keys[q[a]] <= keys[q[b]]

NotAfter(keys, i, j) == keys[i] <= keys[j]

(* Sorting permutes the elements, so that none is added or lost, and the     *)
(* keys do not descend.                                                      *)
LEMMA SortingPermutes ==
    ASSUME NEW s, \E n \in Nat : DOMAIN s = 1 .. n, NEW keys, NEW f, Sorts(f, s, keys)
    PROVE  \E q \in Bijection(DOMAIN s, DOMAIN s) :
               (\A k \in DOMAIN s : f[k] = s[q[k]]) /\ Ascends(keys, q)
<1>1. PICK n \in Nat : DOMAIN s = 1 .. n
  OBVIOUS
<1> DEFINE q == [k \in DOMAIN s |-> Origin(keys, k)]
<1>2. /\ q \in Bijection(DOMAIN s, DOMAIN s)
      /\ \A a, b \in DOMAIN s : a < b => keys[q[a]] <= keys[q[b]]
  BY <1>1, OriginSorts DEF Sorts
<1>3. Ascends(keys, q)
  BY <1>2 DEF Ascends, Sorts
<1>4. \A k \in DOMAIN s : f[k] = s[q[k]]
  BY DEF Sorts
<1> HIDE DEF q
<1> QED BY <1>2, <1>3, <1>4

(* Sorting keeps every number of occurrences.                                *)
LEMMA SortedElements ==
    ASSUME NEW s, \E n \in Nat : DOMAIN s = 1 .. n, NEW keys, NEW f, Sorts(f, s, keys)
    PROVE  Takes(f, s, DOMAIN s) /\ \A P : Many(f, P) = Many(s, P)
<1>1. IsFiniteSet(DOMAIN s)
  BY FS_Interval
<1>2. DOMAIN f = DOMAIN s
  BY DEF Sorts
<1>3. PICK q \in Bijection(DOMAIN s, DOMAIN s) : \A k \in DOMAIN s : f[k] = s[q[k]]
  BY SortingPermutes
<1>4. q \in [DOMAIN s -> DOMAIN s] /\ \A i \in DOMAIN s : \E k \in DOMAIN s : q[k] = i
  <2>1. \A U, T : q \in Bijection(U, T) =>
            q \in [U -> T] /\ \A i \in T : \E k \in U : q[k] = i
    BY Fun_BijectionProperties
  <2> QED BY <1>3, <2>1
<1>5. ASSUME NEW P PROVE Many(f, P) = Many(s, P)
  BY <1>1, <1>2, <1>3, ManyPermuted
<1>6. ASSUME NEW k \in DOMAIN s PROVE \E i \in DOMAIN s : f[k] = s[i]
  <2>1. q[k] \in DOMAIN s /\ f[k] = s[q[k]]
    BY <1>3, <1>4
  <2> QED BY <2>1
<1>7. ASSUME NEW i \in DOMAIN s PROVE \E k \in DOMAIN s : f[k] = s[i]
  <2>1. PICK k \in DOMAIN s : q[k] = i
    BY <1>4
  <2> QED BY <1>3, <2>1
<1> QED BY <1>2, <1>5, <1>6, <1>7 DEF Takes

(* Two elements of f come from places of s whose keys are in order.          *)
InKeyOrder(f, s, keys) ==
    \A a, b \in DOMAIN s : a < b =>
        \E i, j \in DOMAIN s : f[a] = s[i] /\ f[b] = s[j] /\ NotAfter(keys, i, j)

(* An element does not come before another with a smaller key.               *)
LEMMA KeysDoNotDescend ==
    ASSUME NEW s, \E n \in Nat : DOMAIN s = 1 .. n, NEW keys, NEW f, Sorts(f, s, keys)
    PROVE  InKeyOrder(f, s, keys)
<1> SUFFICES ASSUME NEW a \in DOMAIN s, NEW b \in DOMAIN s, a < b
             PROVE  \E i, j \in DOMAIN s : f[a] = s[i] /\ f[b] = s[j] /\ NotAfter(keys, i, j)
  BY DEF InKeyOrder
<1>1. PICK q \in Bijection(DOMAIN s, DOMAIN s) :
          (\A k \in DOMAIN s : f[k] = s[q[k]]) /\ Ascends(keys, q)
  BY SortingPermutes
<1>2. \A U, T : q \in Bijection(U, T) => q \in [U -> T]
  BY Fun_BijectionProperties
<1>3. q[a] \in DOMAIN s /\ q[b] \in DOMAIN s
  BY <1>2
<1>4. NotAfter(keys, q[a], q[b])
  BY <1>1 DEF Ascends, NotAfter, Sorts
<1> QED BY <1>1, <1>3, <1>4

(* A sorted sequence is one of the same elements and the same length.        *)
LEMMA SortedIsSeq ==
    ASSUME NEW S, NEW s \in Seq(S), NEW keys, NEW f, Sorts(f, s, keys)
    PROVE  f \in Seq(S) /\ Len(f) = Len(s)
<1>1. DOMAIN s = 1 .. Len(s) /\ Len(s) \in Nat /\ \A i \in DOMAIN s : s[i] \in S
  BY LenProperties, ElementOfSeq
<1>2. \E n \in Nat : DOMAIN s = 1 .. n
  BY <1>1
<1>3. \A k \in DOMAIN s : \E i \in DOMAIN s : f[k] = s[i]
  <2>1. Takes(f, s, DOMAIN s)
    BY <1>2, SortedElements
  <2> QED BY <2>1 DEF Takes, Sorts
<1>4. f = [k \in DOMAIN s |-> f[k]]
  BY DEF Sorts
<1>5. f \in [1 .. Len(s) -> S]
  BY <1>1, <1>3, <1>4
<1> QED BY <1>1, <1>5, SeqOfLength

(* The numbers of two sequences add up in the joined one.                    *)
LEMMA ManyJoined ==
    ASSUME NEW S, NEW s \in Seq(S), NEW t \in Seq(S), NEW P
    PROVE  Many(s \o t, P) = Many(s, P) + Many(t, P)
<1> DEFINE n == Len(s)
           m == Len(t)
           A == {i \in 1 .. n : s[i] \in P}
           B == {j \in 1 .. m : t[j] \in P}
           C == {i \in (n + 1) .. (n + m) : t[i - n] \in P}
           shift == [i \in (n + 1) .. (n + m) |-> i - n]
<1>1. n \in Nat /\ m \in Nat /\ DOMAIN s = 1 .. n /\ DOMAIN t = 1 .. m
  BY LenProperties
<1>2. /\ DOMAIN (s \o t) = 1 .. (n + m)
      /\ \A i \in 1 .. (n + m) : (s \o t)[i] = IF i <= n THEN s[i] ELSE t[i - n]
  BY ConcatProperties, LenProperties
<1>3. /\ IsFiniteSet(A) /\ Many(s, P) = Cardinality(A)
      /\ IsFiniteSet(B) /\ Many(t, P) = Cardinality(B)
  BY <1>1, ManyIsNat DEF Many, ManyAt
<1>4. IsFiniteSet(C) /\ Cardinality(C) = Cardinality(B)
  <2>1. shift \in [(n + 1) .. (n + m) -> 1 .. m]
    BY <1>1
  <2>2. \A a, b \in (n + 1) .. (n + m) : shift[a] = shift[b] => a = b
    BY <1>1
  <2>3. \A j \in 1 .. m : \E i \in (n + 1) .. (n + m) : shift[i] = j
    <3>1. \A j \in 1 .. m : j + n \in (n + 1) .. (n + m) /\ shift[j + n] = j
      BY <1>1
    <3> QED BY <3>1
  <2>4. shift \in Bijection((n + 1) .. (n + m), 1 .. m)
    BY <2>1, <2>2, <2>3, Fun_IsBij
  <2>5. \A i \in (n + 1) .. (n + m) : i \in C <=> shift[i] \in B
    BY <2>1
  <2> DEFINE I == (n + 1) .. (n + m)
             J == 1 .. m
  <2>6. /\ B \in SUBSET J /\ C \in SUBSET I /\ shift \in Bijection(I, J)
        /\ \A i \in I : i \in C <=> shift[i] \in B
    BY <2>4, <2>5
  <2> HIDE DEF shift, B, C, n, m, I, J
  <2> QED BY <1>3, <2>6, CountThrough
<1>5. {i \in DOMAIN (s \o t) : (s \o t)[i] \in P} = A \cup C
  BY <1>1, <1>2
<1>6. A \cap C = {}
  BY <1>1
<1> HIDE DEF A, B, C
<1>7. Cardinality(A \cup C) = Cardinality(A) + Cardinality(C)
  <2>1. Cardinality(A) \in Nat /\ Cardinality(C) \in Nat
    BY <1>3, <1>4, FS_CardinalityType
  <2>2. Cardinality(A \cup C) = Cardinality(A) + Cardinality(C) - Cardinality(A \cap C)
    BY <1>3, <1>4, FS_Union
  <2>3. Cardinality(A \cap C) = 0
    BY <1>6, FS_EmptySet
  <2> QED BY <2>1, <2>2, <2>3
<1> QED BY <1>3, <1>4, <1>5, <1>7 DEF Many, ManyAt

(* A single element occurs once.                                             *)
LEMMA ManyOfOne ==
    ASSUME NEW e, NEW P
    PROVE  Many(<<e>>, P) = IF e \in P THEN 1 ELSE 0
<1>1. DOMAIN <<e>> = 1 .. 1 /\ <<e>>[1] = e
  OBVIOUS
<1>2. CASE e \in P
  <2>1. {i \in DOMAIN <<e>> : <<e>>[i] \in P} = {1}
    BY <1>1, <1>2
  <2>2. Cardinality({1}) = 1
    BY FS_Singleton
  <2> QED BY <1>2, <2>1, <2>2 DEF Many, ManyAt
<1>3. CASE e \notin P
  <2>1. {i \in DOMAIN <<e>> : <<e>>[i] \in P} = {}
    BY <1>1, <1>3
  <2> QED BY <1>3, <2>1, FS_EmptySet DEF Many, ManyAt
<1> QED BY <1>2, <1>3

(* An element that is appended occurs once more.                             *)
LEMMA ManyAppended ==
    ASSUME NEW S, NEW s \in Seq(S), NEW e \in S, NEW P
    PROVE  Many(Append(s, e), P) = Many(s, P) + (IF e \in P THEN 1 ELSE 0)
<1>1. <<e>> \in Seq(S) /\ Append(s, e) = s \o <<e>>
  BY AppendIsConcat
<1>2. Many(s \o <<e>>, P) = Many(s, P) + Many(<<e>>, P)
  BY <1>1, ManyJoined
<1> QED BY <1>1, <1>2, ManyOfOne

(* Nothing is in the empty sequence.                                         *)
LEMMA ManyOfNone == \A P : Many(<<>>, P) = 0
<1> SUFFICES ASSUME NEW P PROVE Many(<<>>, P) = 0
  OBVIOUS
<1>1. {i \in DOMAIN <<>> : <<>>[i] \in P} = {}
  OBVIOUS
<1> QED BY <1>1, FS_EmptySet DEF Many, ManyAt

(* All elements together are as many as the sequence is long.                *)
LEMMA ManyOfAll ==
    ASSUME NEW S, NEW s \in Seq(S)
    PROVE  Many(s, S) = Len(s)
<1>1. DOMAIN s = 1 .. Len(s) /\ Len(s) \in Nat /\ \A i \in DOMAIN s : s[i] \in S
  BY LenProperties, ElementOfSeq
<1>2. {i \in DOMAIN s : s[i] \in S} = 1 .. Len(s)
  BY <1>1
<1>3. Cardinality(1 .. Len(s)) = Len(s)
  <2>1. \A n \in Nat : Cardinality(1 .. n) = n
    BY FS_Interval
  <2> QED BY <1>1, <2>1
<1>4. Many(s, S) = Cardinality({i \in DOMAIN s : s[i] \in S})
  BY DEF Many, ManyAt
<1> QED BY <1>2, <1>3, <1>4
=============================================================================
