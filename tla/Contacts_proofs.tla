--------------------------- MODULE Contacts_proofs ---------------------------
(***************************************************************************)
(* What find_contacts promises however many cards and books iCloud sends   *)
(* and whatever it ignores: the caps, which contacts are returned, how     *)
(* often and in which order, and that the search does not end early.       *)
(***************************************************************************)
EXTENDS Contacts, SeqOrder_proofs, TLAPS

Searching == {"start", "principal", "home", "books", "ask", "report", "scan"}

Phases == Searching \cup {"next", "returned", "raised"}

(* Both caps have one place where they are overstepped by one and seen: the  *)
(* scan leaves for "next" at once. In every phase from which a card can still *)
(* be scanned neither has been reached, which only the test before the next  *)
(* book (contacts.py:262) keeps true from one book to another.               *)
RoomLeft ==
    phase \in Searching => Len(found) < Cap /\ scanned <= MaxScan

Within == Len(found) <= Cap /\ scanned <= MaxScan + 1

TooShort == ~valid => phase \in {"start", "raised"} /\ received = <<>>

OnlyHits == \A i \in DOMAIN found : Hit(found[i])

ResultFromFound ==
    /\ DOMAIN result \subseteq DOMAIN found
    /\ \A i \in DOMAIN result : \E j \in DOMAIN found : result[i] = found[j]

IInv == RoomLeft /\ Within /\ TooShort /\ OnlyHits /\ ResultFromFound

(* What summarize_vcard makes of a card.                                     *)
Kepts == {s \in Summaries : Len(s.emails) <= MaxMethods}

(* The book at which the search stands exists once it has been asked.        *)
Typed ==
    /\ valid \in BOOLEAN /\ limit \in Limits /\ account \in Accounts
    /\ phase \in Phases
    /\ book \in 1 .. (Len(Books) + 1)
    /\ phase \in {"report", "scan", "next"} => book <= Len(Books)
    /\ answer \in Seq(Cards) /\ received \in Seq(Cards)
    /\ scanned \in Nat /\ cut \in BOOLEAN
    /\ found \in Seq(Kepts) /\ result \in Seq(Kepts)

(* What is still to be scanned is the end of what came back.                 *)
Pending ==
    /\ Len(received) = scanned + Len(answer)
    /\ \A i \in 1 .. Len(answer) : received[scanned + i] = answer[i]

(* Cards are left over only where a cap ended the scan.                      *)
Drained ==
    /\ phase \in Searching \ {"scan"} => answer = <<>>
    /\ phase \in {"next", "returned"} => answer = <<>> \/ ~WantsMore
    /\ phase = "returned" => book > Len(Books) \/ ~WantsMore

(* The cards up to the n-th that show the query in a summary of S.           *)
HitsOf(n, S) == {j \in 1 .. n : ShowsQuery(received[j]) /\ Summary(received[j]) \in S}

(* The cards looked at: the one beyond _MAX_SCAN is counted, not parsed.     *)
Parsed == Smaller(scanned, MaxScan)

(* The contacts are the hits among the cards looked at, each as often.       *)
Counts == \A S : Many(found, S) = Cardinality(HitsOf(Parsed, S))

(* Nothing has been cut off so far.                                          *)
Room == ~cut /\ Len(found) < Cap /\ scanned <= MaxScan

Holds(s, e) == \E j \in DOMAIN s : s[j] = e

(* iCloud has cut its own answer at the limit: then those hits fill it.      *)
LimitPending ==
    /\ \A j \in DOMAIN answer : FilterHit(answer[j])
    /\ Len(found) + Len(answer) >= Cap

(* A contact whose full name contains the query is in the list once its book *)
(* is done, and until then in the list or still to be scanned.               *)
BooksFound ==
    \A b \in 1 .. (book - 1) : \A i \in DOMAIN Books[b] :
        FilterHit(Books[b][i]) => Holds(found, Summary(Books[b][i]))

BookFound ==
    \A i \in DOMAIN Books[book] :
        FilterHit(Books[book][i]) =>
            Holds(found, Summary(Books[book][i])) \/ Holds(answer, Books[book][i])

Names ==
    Room => BooksFound /\ (phase \in {"scan", "next"} => LimitPending \/ BookFound)

(* The result is the list, sorted.                                           *)
Sorted ==
    phase = "returned" =>
        /\ Len(result) = Len(found) /\ \A S : Many(result, S) = Many(found, S)
        /\ \A i, j \in DOMAIN result : i < j => SortKey(result[i]) <= SortKey(result[j])

SInv == Pending /\ Drained /\ Counts /\ Names /\ Sorted

(* "keep only true hits even if iCloud ignored the filter" (contacts.py:156): *)
(* every contact returned shows the query, and there are at most Cap of them. *)
OnlyMatchesReturned ==
    /\ \A i \in DOMAIN result : Hit(result[i])
    /\ DOMAIN result \subseteq 1 .. Cap

-----------------------------------------------------------------------------
(* max(1, min(limit or 10, 25)) is between one and the maximum.             *)
LEMMA CapInRange ==
    ASSUME limit \in Limits
    PROVE  Cap \in 1 .. MaxResults
BY CapsAssumption DEF Cap, Smaller

(* Keeping a contact makes the list one longer, and of hits still.          *)
LEMMA KeepOne ==
    ASSUME NEW S, NEW list \in Seq(S), NEW e
    PROVE  /\ \E T : Append(list, e) \in Seq(T)
           /\ Len(Append(list, e)) = Len(list) + 1
           /\ DOMAIN list = 1 .. Len(list)
           /\ DOMAIN Append(list, e) = 1 .. (Len(list) + 1)
           /\ \A i \in 1 .. Len(list) : Append(list, e)[i] = list[i]
           /\ Append(list, e)[Len(list) + 1] = e
<1> DEFINE T == S \cup {e}
<1>1. list \in Seq(T)
  BY SeqMonotonic DEF T
<1>2. e \in T
  OBVIOUS
<1> HIDE DEF T
<1>3. Append(list, e) \in Seq(T)
  BY <1>1, <1>2
<1>4. /\ Len(Append(list, e)) = Len(list) + 1
      /\ \A i \in 1 .. Len(list) : Append(list, e)[i] = list[i]
      /\ Append(list, e)[Len(list) + 1] = e
  BY <1>1, <1>2, AppendProperties
<1>5. DOMAIN list = 1 .. Len(list)
  BY <1>1, LenProperties
<1>6. DOMAIN Append(list, e) = 1 .. (Len(list) + 1)
  BY <1>3, <1>4, LenProperties
<1> QED BY <1>3, <1>4, <1>5, <1>6

(* x[:n], which cuts the answer at the limit and a card at its first         *)
(* addresses.                                                                *)
LEMMA TakesFirst ==
    ASSUME NEW S, NEW s \in Seq(S), NEW n \in Nat
    PROVE  /\ SubSeq(s, 1, Smaller(Len(s), n)) \in Seq(S)
           /\ Len(SubSeq(s, 1, Smaller(Len(s), n))) = Smaller(Len(s), n)
           /\ \A i \in 1 .. Smaller(Len(s), n) : SubSeq(s, 1, Smaller(Len(s), n))[i] = s[i]
           /\ Smaller(Len(s), n) \in 0 .. n /\ Smaller(Len(s), n) <= Len(s)
<1> DEFINE m == Smaller(Len(s), n)
<1>1. Len(s) \in Nat
  BY LenProperties
<1>2. m \in Nat /\ m <= Len(s) /\ m <= n
  BY <1>1 DEF Smaller
<1> HIDE DEF m
<1>3. \A i \in 1 .. m : s[i] \in S
  BY <1>1, <1>2, ElementOfSeq
<1>4. /\ SubSeq(s, 1, m) \in Seq(S)
      /\ Len(SubSeq(s, 1, m)) = IF 1 <= m THEN m - 1 + 1 ELSE 0
      /\ \A i \in 1 .. (m - 1 + 1) : SubSeq(s, 1, m)[i] = s[1 + i - 1]
  BY <1>2, <1>3, SubSeqProperties
<1>5. /\ SubSeq(s, 1, m) \in Seq(S) /\ Len(SubSeq(s, 1, m)) = m
      /\ \A i \in 1 .. m : SubSeq(s, 1, m)[i] = s[i]
  BY <1>2, <1>4
<1> QED BY <1>2, <1>5 DEF m

(* A summary names at most MaxMethods addresses and numbers.                *)
LEMMA SummaryIsKept ==
    ASSUME NEW card \in Cards
    PROVE  Summary(card) \in Kepts
<1>1. /\ card.fn \in Texts /\ card.n \in Texts
      /\ card.emails \in Seq(BOOLEAN) /\ card.phones \in Nat
  BY CardsAssumption
<1>2. MaxMethods \in Nat
  BY CapsAssumption
<1> DEFINE all == card.emails
           mails == SubSeq(all, 1, Smaller(Len(all), MaxMethods))
<1>3. mails \in Seq(BOOLEAN) /\ Len(mails) <= MaxMethods
  <2>1. all \in Seq(BOOLEAN)
    BY <1>1
  <2> HIDE DEF all
  <2>2. /\ mails \in Seq(BOOLEAN) /\ Len(mails) = Smaller(Len(all), MaxMethods)
        /\ Smaller(Len(all), MaxMethods) \in 0 .. MaxMethods
    BY <1>2, <2>1, TakesFirst
  <2> QED BY <1>2, <2>2
<1>4. Smaller(card.phones, MaxMethods) \in 0 .. MaxMethods
  BY <1>1, <1>2 DEF Smaller
<1>5. Summary(card) = [name |-> IF card.fn # NoText THEN card.fn ELSE card.n,
                       emails |-> mails, phones |-> Smaller(card.phones, MaxMethods)]
  BY DEF Summary
<1> HIDE DEF mails
<1> QED BY <1>1, <1>3, <1>4, <1>5 DEF Kepts, Summaries

(* What passes the test of find_contacts is what shows the query; and a card *)
(* whose full name iCloud's filter takes does.                               *)
LEMMA KeptShowsQuery ==
    ASSUME NEW card \in Cards
    PROVE  /\ Kept(card) <=> ShowsQuery(card)
           /\ FilterHit(card) => Kept(card)
<1>1. /\ card.fn \in Texts /\ card.n \in Texts
      /\ Summary(card).name = IF card.fn # NoText THEN card.fn ELSE card.n
      /\ Summary(card).emails \in Seq(BOOLEAN)
  BY CardsAssumption, SummaryIsKept DEF Summary, Kepts, Summaries
<1>2. Hit(Summary(card)) => Usable(Summary(card))
  <2>1. Summary(card).name.hit => Summary(card).name # NoText
    BY DEF NoText
  <2>2. Summary(card).emails = <<>> => Len(Summary(card).emails) = 0
    BY EmptySeq
  <2> QED BY <1>1, <2>1, <2>2 DEF Hit, Usable
<1>3. FilterHit(card) => Hit(Summary(card))
  BY <1>1 DEF FilterHit, Hit, NoText
<1> QED BY <1>2, <1>3 DEF Kept, ShowsQuery

(* The books to ask, the home collection in their place included.            *)
LEMMA BooksType ==
    ASSUME account \in Accounts
    PROVE  Books \in Seq(Seq(Cards)) /\ Len(Books) \in Nat /\ DOMAIN Books = 1 .. Len(Books)
<1>1. account.books \in Seq(Seq(Cards)) /\ account.home \in Seq(Cards)
  BY CardsAssumption
<1>2. <<account.home>> \in Seq(Seq(Cards))
  BY <1>1
<1>3. Books \in Seq(Seq(Cards))
  BY <1>1, <1>2 DEF Books
<1> QED BY <1>3, LenProperties

(* The answer to a REPORT: cards of the book.  Unless iCloud ignores the     *)
(* filter, it has every hit by full name, or is full of them.                *)
HasHits(a, cards) ==
    \A i \in DOMAIN cards : FilterHit(cards[i]) => \E j \in DOMAIN a : a[j] = cards[i]

FullOfHits(a) == Len(a) >= Cap /\ \A j \in DOMAIN a : FilterHit(a[j])

(* A book without the hits by full name is one whose answer was cut at the   *)
(* limit.                                                                    *)
LEMMA AnswerHasHits ==
    ASSUME limit \in Limits, NEW cards \in Seq(Cards), NEW ignored, NEW a,
           a = Answer(ignored, cards)
    PROVE  /\ a \in Seq(Cards)
           /\ "filter" \notin ignored => HasHits(a, cards) \/ FullOfHits(a)
<1> DEFINE hits == Filtered(ignored, cards)
           kept == {i \in DOMAIN cards : FilterHit(cards[i])}
<1>1. DOMAIN cards = 1 .. Len(cards) /\ Len(cards) \in Nat
  BY LenProperties
<1>2. \E n \in Nat : DOMAIN cards = 1 .. n
  BY <1>1
<1>3. "filter" \notin ignored => Filters(hits, cards, kept)
  BY DEF Filters, Filtered, Selected
<1>4. "filter" \in ignored => hits = cards
  BY DEF Filtered
<1>5. kept \in SUBSET DOMAIN cards /\ \A i \in DOMAIN cards : i \in kept <=> FilterHit(cards[i])
  OBVIOUS
<1>6. /\ "limit" \in ignored => a = hits
      /\ "limit" \notin ignored => a = SubSeq(hits, 1, Smaller(Len(hits), Cap))
  BY DEF Answer
<1> HIDE DEF hits, kept
<1>7. hits \in Seq(Cards)
  BY <1>3, <1>4, <1>5, KeptIsSeq
<1>8. Len(hits) \in Nat /\ DOMAIN hits = 1 .. Len(hits)
  BY <1>7, LenProperties
<1>9. Cap \in Nat
  BY CapInRange, CapsAssumption
<1>10. "limit" \notin ignored =>
           /\ a \in Seq(Cards) /\ Len(a) = Smaller(Len(hits), Cap)
           /\ \A i \in 1 .. Smaller(Len(hits), Cap) : a[i] = hits[i]
           /\ Smaller(Len(hits), Cap) \in 0 .. Cap /\ Smaller(Len(hits), Cap) <= Len(hits)
  BY <1>6, <1>7, <1>9, TakesFirst
<1>11. a \in Seq(Cards)
  BY <1>6, <1>7, <1>10
<1>12. Len(a) \in Nat /\ DOMAIN a = 1 .. Len(a)
  BY <1>11, LenProperties
<1>13. ASSUME "filter" \notin ignored PROVE HasHits(a, cards) \/ FullOfHits(a)
  <2>1. Takes(hits, cards, kept)
    BY <1>2, <1>3, <1>5, <1>13, KeptElements
  <2>2. CASE a = hits
    BY <1>5, <2>1, <2>2 DEF HasHits, Takes
  <2>3. CASE "limit" \notin ignored /\ Len(hits) <= Cap
    <3>1. Len(a) = Len(hits) /\ \A i \in 1 .. Len(hits) : a[i] = hits[i]
      BY <1>8, <1>9, <1>10, <2>3 DEF Smaller
    <3>2. a = hits
      BY <1>7, <1>11, <3>1, SeqEqual
    <3> QED BY <2>2, <3>2
  <2>4. CASE "limit" \notin ignored /\ ~(Len(hits) <= Cap)
    <3>1. Len(a) = Cap /\ \A i \in 1 .. Cap : a[i] = hits[i]
      BY <1>8, <1>9, <1>10, <2>4 DEF Smaller
    <3>2. \A j \in DOMAIN a : FilterHit(a[j])
      BY <1>5, <1>8, <1>9, <1>12, <2>1, <2>4, <3>1 DEF Takes
    <3> QED BY <1>9, <3>1, <3>2 DEF FullOfHits
  <2> QED BY <1>6, <2>2, <2>3, <2>4
<1> QED BY <1>11, <1>13

-----------------------------------------------------------------------------
KeysOf(s) == [i \in DOMAIN s |-> SortKey(s[i])]

(* The sort of find_contacts (contacts.py:263) is one that SeqOrder_proofs   *)
(* speaks of.                                                                *)
LEMMA ReturnSorts ==
    ASSUME Typed, result' = SortedBy(found, SortKey)
    PROVE  /\ Sorts(result', found, KeysOf(found))
           /\ \E n \in Nat : DOMAIN found = 1 .. n
           /\ result' \in Seq(Kepts) /\ Len(result') = Len(found)
<1>1. found \in Seq(Kepts) /\ \A i \in DOMAIN found : found[i] \in Kepts
  BY LenProperties, ElementOfSeq DEF Typed
<1>2. \A s \in Kepts : SortKey(s) \in Nat
  BY CapsAssumption DEF Kepts, Summaries, Texts, SortKey
<1>3. Sorts(result', found, KeysOf(found))
  BY <1>1, <1>2 DEF SortedBy, Sorts, KeysOf
<1>4. \E n \in Nat : DOMAIN found = 1 .. n
  BY <1>1, LenProperties
<1> QED BY <1>1, <1>3, <1>4, SortedIsSeq

(* A search starts with nothing received, kept or returned.                  *)
LEMMA InitTyped == Init => Typed
<1> SUFFICES ASSUME Init PROVE Typed
  OBVIOUS
<1>1. book \in 1 .. (Len(Books) + 1)
  BY BooksType DEF Init
<1>2. <<>> \in Seq(Cards) /\ <<>> \in Seq(Kepts)
  BY EmptySeq
<1> QED BY <1>1, <1>2 DEF Init, Typed, Phases, Searching

(* Every step of the search keeps the types, the one from book to book       *)
(* included.                                                                 *)
LEMMA NextTyped == Typed /\ [Next]_vars => Typed'
<1> SUFFICES ASSUME Typed, [Next]_vars PROVE Typed'
  OBVIOUS
<1> USE DEF Go, inputs, scan, history
<1>1. /\ Books \in Seq(Seq(Cards)) /\ Len(Books) \in Nat
      /\ UNCHANGED account => Books' = Books
  BY BooksType DEF Typed, Books
<1>2. CASE Reject \/ Discover \/ DavFails \/ Report \/ Scanned
  BY <1>1, <1>2
  DEF Reject, Discover, DavFails, Report, Scanned, Typed, Phases, Searching
<1>3. ASSUME NEW ignored \in Quirks, Receive(ignored) PROVE Typed'
  <2>1. book \in 1 .. Len(Books) /\ Books[book] \in Seq(Cards)
    BY <1>1, <1>3, ElementOfSeq DEF Receive, Typed
  <2>2. answer' \in Seq(Cards)
    BY <1>3, <2>1, AnswerHasHits DEF Receive, Typed
  <2>3. received' \in Seq(Cards)
    BY <1>3, <2>2, ConcatProperties DEF Receive, Typed
  <2>4. cut' \in BOOLEAN
    BY <1>3 DEF Receive, Typed
  <2> QED BY <1>1, <1>3, <2>1, <2>2, <2>3, <2>4 DEF Receive, Typed, Phases, Searching
<1>4. CASE ScanLimit \/ PassOver \/ Keep
  <2>1. /\ phase = "scan" /\ phase' \in {"scan", "next"}
        /\ UNCHANGED <<inputs, book, result, received, cut>>
        /\ scanned' = scanned + 1
        /\ answer # <<>> /\ answer' = Tail(answer)
        /\ \/ UNCHANGED found
           \/ found' = Append(found, Summary(Head(answer)))
    BY <1>4 DEF ScanLimit, PassOver, Keep, NextCard
  <2>2. Head(answer) \in Cards /\ answer' \in Seq(Cards)
    BY <2>1, HeadTailProperties DEF Typed
  <2>3. Summary(Head(answer)) \in Kepts
    BY <2>2, SummaryIsKept
  <2>4. found' \in Seq(Kepts)
    <3>1. found \in Seq(Kepts)
      BY DEF Typed
    <3>2. \A e \in Kepts : Append(found, e) \in Seq(Kepts)
      BY <3>1, AppendProperties
    <3> QED BY <2>1, <2>3, <3>1, <3>2
  <2> QED BY <1>1, <2>1, <2>2, <2>4 DEF Typed, Phases, Searching
<1>5. CASE NextBook
  BY <1>1, <1>5 DEF NextBook, Typed, Phases, Searching
<1>6. CASE Return
  <2>1. result' \in Seq(Kepts)
    BY <1>6, ReturnSorts DEF Return
  <2> QED BY <1>1, <1>6, <2>1 DEF Return, Typed, Phases, Searching
<1>7. CASE UNCHANGED vars
  BY <1>1, <1>7 DEF vars, Typed
<1> QED BY <1>2, <1>3, <1>4, <1>5, <1>6, <1>7 DEF Next

-----------------------------------------------------------------------------
(* Neither cap is reached before anything has been scanned.                  *)
LEMMA InitIInv == Init => IInv
<1> SUFFICES ASSUME Init PROVE IInv
  OBVIOUS
<1>1. found \in Seq({}) /\ Len(found) = 0 /\ DOMAIN found = {} /\ DOMAIN result = {}
  BY EmptySeq DEF Init
<1>2. RoomLeft /\ Within
  BY <1>1, CapInRange, CapsAssumption DEF RoomLeft, Within, Init
<1>3. TooShort /\ OnlyHits /\ ResultFromFound
  BY <1>1 DEF TooShort, OnlyHits, ResultFromFound, Init
<1> QED BY <1>2, <1>3 DEF IInv

(* A step that leaves the contacts, the result and the count as they are,   *)
(* and comes to "next" from the scan or stays in the search, disturbs only  *)
(* the phase.                                                               *)
LEMMA PhaseOnly ==
    ASSUME IInv, UNCHANGED <<valid, limit, scanned, found, result>>,
           phase' \in Phases,
           phase' \in Searching => phase \in Searching \/ WantsMore,
           ~valid => phase' \in {"start", "raised"} /\ UNCHANGED received
    PROVE  IInv'
<1> USE DEF IInv
<1>1. Cap' = Cap
  BY DEF Cap, Smaller
<1>2. RoomLeft' /\ Within'
  BY <1>1 DEF RoomLeft, Within, WantsMore
<1>3. TooShort' /\ OnlyHits' /\ ResultFromFound'
  BY DEF TooShort, OnlyHits, ResultFromFound
<1> QED BY <1>2, <1>3

(* One card is scanned; the list keeps its hits.                            *)
LEMMA CardScanned ==
    ASSUME Typed, IInv, phase = "scan", UNCHANGED <<valid, limit, result>>,
           scanned' = scanned + 1,
           phase' \in {"scan", "next"},
           phase' = "scan" => scanned < MaxScan /\ Len(found') < Cap,
           \/ UNCHANGED found
           \/ \E e : found' = Append(found, e) /\ Hit(e)
    PROVE  IInv'
<1>1. PICK S : found \in Seq(S)
  BY DEF Typed
<1>2. limit \in Limits /\ scanned \in Nat /\ Len(found) \in Nat /\ Cap \in Nat /\ MaxScan \in Nat
  BY <1>1, LenProperties, CapInRange, CapsAssumption DEF Typed
<1>3. Cap' = Cap
  BY DEF Cap, Smaller
<1>4. Len(found) < Cap /\ scanned <= MaxScan
  BY DEF IInv, RoomLeft, Searching
<1>5. /\ \E T : found' \in Seq(T)
      /\ Len(found') <= Cap
      /\ DOMAIN found \subseteq DOMAIN found'
      /\ \A i \in DOMAIN found : found'[i] = found[i]
      /\ OnlyHits'
  <2>1. CASE UNCHANGED found
    BY <2>1, <1>1, <1>2, <1>4 DEF IInv, OnlyHits
  <2>2. CASE \E e : found' = Append(found, e) /\ Hit(e)
    <3>1. PICK e : found' = Append(found, e) /\ Hit(e)
      BY <2>2
    <3>2. /\ \E T : found' \in Seq(T)
          /\ Len(found') = Len(found) + 1
          /\ DOMAIN found = 1 .. Len(found)
          /\ DOMAIN found' = 1 .. (Len(found) + 1)
          /\ \A i \in 1 .. Len(found) : found'[i] = found[i]
          /\ found'[Len(found) + 1] = e
      <4>1. /\ \E T : Append(found, e) \in Seq(T)
            /\ Len(Append(found, e)) = Len(found) + 1
            /\ DOMAIN found = 1 .. Len(found)
            /\ DOMAIN Append(found, e) = 1 .. (Len(found) + 1)
            /\ \A i \in 1 .. Len(found) : Append(found, e)[i] = found[i]
            /\ Append(found, e)[Len(found) + 1] = e
        BY <1>1, KeepOne
      <4> QED BY <3>1, <4>1
    <3>3. ASSUME NEW i \in DOMAIN found' PROVE Hit(found'[i])
      <4>1. CASE i \in 1 .. Len(found)
        BY <4>1, <3>2 DEF IInv, OnlyHits
      <4>2. CASE i = Len(found) + 1
        BY <4>2, <3>1, <3>2
      <4> QED BY <4>1, <4>2, <3>2, <1>2
    <3>4. OnlyHits'
      BY <3>3 DEF OnlyHits
    <3>5. Len(found') <= Cap /\ 1 .. Len(found) \subseteq 1 .. (Len(found) + 1)
      BY <3>2, <1>2, <1>4
    <3> QED BY <3>2, <3>4, <3>5
  <2> QED BY <2>1, <2>2
<1>6. RoomLeft' /\ Within'
  BY <1>2, <1>3, <1>4, <1>5 DEF RoomLeft, Within, Searching
<1>7. TooShort'
  BY DEF IInv, TooShort
<1>8. ResultFromFound'
  BY <1>5 DEF IInv, ResultFromFound
<1> QED BY <1>5, <1>6, <1>7, <1>8 DEF IInv

(* No step oversteps a cap by more than the card that shows it.              *)
LEMMA NextIInv == Typed /\ IInv /\ [Next]_vars => IInv'
<1> SUFFICES ASSUME Typed, IInv, [Next]_vars PROVE IInv'
  OBVIOUS
<1> USE DEF Go, inputs, scan, history
<1>1. CASE Reject
  BY <1>1, PhaseOnly DEF Reject, Phases, Searching, IInv
<1>2. CASE Discover
  BY <1>2, PhaseOnly DEF Discover, Phases, Searching, IInv, TooShort
<1>3. CASE DavFails
  BY <1>3, PhaseOnly DEF DavFails, Phases, Searching
<1>4. CASE Report
  BY <1>4, PhaseOnly DEF Report, Phases, Searching, IInv, TooShort
<1>5. ASSUME NEW ignored \in Quirks, Receive(ignored) PROVE IInv'
  BY <1>5, PhaseOnly DEF Receive, Phases, Searching, IInv, TooShort
<1>6. CASE ScanLimit
  BY <1>6, CardScanned DEF ScanLimit, NextCard
<1>7. CASE PassOver
  <2>1. Len(found) < Cap
    BY <1>7 DEF PassOver, IInv, RoomLeft, Searching
  <2> QED BY <1>7, <2>1, CardScanned DEF PassOver, NextCard
<1>8. CASE Keep
  <2> DEFINE e == Summary(Head(answer))
  <2>1. Hit(e) /\ found' = Append(found, e)
    BY <1>8 DEF Keep, Kept
  <2> HIDE DEF e
  <2>2. PICK S : found \in Seq(S)
    BY DEF Typed
  <2>3. Len(found') \in Nat /\ Cap \in Nat
    <3>1. \E T : found' \in Seq(T)
      BY <2>1, <2>2, KeepOne
    <3> QED BY <3>1, LenProperties, CapInRange, CapsAssumption DEF Typed
  <2>4. phase' \in {"scan", "next"} /\ (phase' = "scan" => Len(found') < Cap)
    BY <1>8, <2>3 DEF Keep
  <2>5. UNCHANGED <<valid, limit, result>> /\ scanned' = scanned + 1 /\ scanned < MaxScan
    BY <1>8 DEF Keep, NextCard
  <2>6. phase = "scan"
    BY <1>8 DEF Keep
  <2> QED BY <2>1, <2>4, <2>5, <2>6, CardScanned
<1>9. CASE Scanned
  BY <1>9, PhaseOnly DEF Scanned, Phases, Searching, IInv, TooShort
<1>10. CASE NextBook
  BY <1>10, PhaseOnly DEF NextBook, Phases, Searching, IInv, TooShort
<1>11. CASE Return
  <2>1. UNCHANGED <<valid, limit, found, scanned, received>> /\ phase' = "returned"
    BY <1>11 DEF Return
  <2>2. phase \in {"next", "ask"}
    BY <1>11 DEF Return
  <2>3. Takes(result', found, DOMAIN found) /\ DOMAIN result' = DOMAIN found
    <3>1. Sorts(result', found, KeysOf(found)) /\ \E n \in Nat : DOMAIN found = 1 .. n
      BY <1>11, ReturnSorts DEF Return
    <3> QED BY <3>1, SortedElements DEF Sorts
  <2>4. ResultFromFound'
    BY <2>1, <2>3 DEF ResultFromFound, Takes
  <2>5. Cap' = Cap
    BY <2>1 DEF Cap, Smaller
  <2>6. RoomLeft' /\ Within' /\ OnlyHits'
    BY <2>1, <2>5 DEF IInv, RoomLeft, Within, OnlyHits, Searching
  <2>7. TooShort'
    BY <2>1, <2>2 DEF IInv, TooShort
  <2> QED BY <2>1, <2>4, <2>6, <2>7 DEF IInv, Phases
<1>12. CASE UNCHANGED vars
  BY <1>12, PhaseOnly DEF vars, Typed, IInv, TooShort
<1> QED BY <1>1, <1>2, <1>3, <1>4, <1>5, <1>6, <1>7, <1>8, <1>9, <1>10, <1>11, <1>12 DEF Next

(* The types and the caps hold throughout every search.                      *)
LEMMA Inductive == Spec => [](Typed /\ IInv)
<1>1. Init => Typed /\ IInv
  BY InitTyped, InitIInv
<1>2. Typed /\ IInv /\ [Next]_vars => (Typed /\ IInv)'
  BY NextTyped, NextIInv
<1> QED BY <1>1, <1>2, PTL DEF Spec

-----------------------------------------------------------------------------
(* One card leaves the answer; what is left is still the end of what came.   *)
CardSteps == ScanLimit \/ PassOver \/ Keep

(* What is not a step of the scan, of a REPORT or of the return.             *)
OtherSteps == Reject \/ Discover \/ DavFails \/ Report \/ Scanned \/ NextBook

(* The limit is clamped once.                                                *)
LEMMA CapStays == UNCHANGED limit => Cap' = Cap
BY DEF Cap, Smaller

(* What each of the steps that take a card does with the answer.             *)
LEMMA TailOf ==
    ASSUME Typed, Pending, CardSteps
    PROVE  /\ answer # <<>> /\ answer' = Tail(answer) /\ scanned' = scanned + 1
           /\ UNCHANGED <<received, limit, account, book, cut, result>>
           /\ Len(answer) \in Nat /\ Len(answer') = Len(answer) - 1
           /\ \A i \in 1 .. Len(answer') : answer'[i] = answer[i + 1]
           /\ Head(answer) \in Cards /\ Head(answer) = received[scanned + 1]
           /\ phase = "scan"
<1>1. /\ answer # <<>> /\ answer' = Tail(answer) /\ scanned' = scanned + 1
      /\ UNCHANGED <<received, limit, account, book, cut, result>> /\ phase = "scan"
  BY DEF CardSteps, ScanLimit, PassOver, Keep, NextCard, Go, inputs, history
<1>2. /\ Head(answer) \in Cards /\ Len(Tail(answer)) = Len(answer) - 1
      /\ \A i \in 1 .. Len(Tail(answer)) : Tail(answer)[i] = answer[i + 1]
      /\ Len(answer) \in Nat \ {0}
  BY <1>1, HeadTailProperties, EmptySeq DEF Typed
<1>3. Head(answer) = received[scanned + 1]
  <2>1. Head(answer) = answer[1]
    BY <1>1 DEF Typed
  <2> QED BY <1>2, <2>1 DEF Pending
<1> QED BY <1>1, <1>2, <1>3

(* At the start nothing has come back, so nothing is to be scanned.          *)
LEMMA InitPending == Init => Pending /\ Drained
<1> SUFFICES ASSUME Init PROVE Pending /\ Drained
  OBVIOUS
<1>1. Len(<<>>) = 0
  OBVIOUS
<1> QED BY <1>1 DEF Init, Pending, Drained, Searching

(* Cards are scanned in the order in which they came, none twice.            *)
LEMMA NextPending == Typed /\ Pending /\ Drained /\ [Next]_vars => Pending'
<1> SUFFICES ASSUME Typed, Pending, Drained, [Next]_vars PROVE Pending'
  OBVIOUS
<1>1. CASE UNCHANGED <<received, scanned, answer>>
  BY <1>1 DEF Pending
<1>2. ASSUME NEW ignored \in Quirks, Receive(ignored), Typed' PROVE Pending'
  <2>1. answer = <<>> /\ received' = received \o answer' /\ scanned' = scanned
    BY <1>2 DEF Receive, Go, Drained, Searching
  <2>2. received \in Seq(Cards) /\ answer' \in Seq(Cards) /\ scanned \in Nat
    BY <1>2 DEF Typed
  <2>3. Len(received) = scanned
    BY <2>1, <2>2 DEF Pending
  <2>4. Len(answer') \in Nat
    BY <2>2, LenProperties
  <2>5. /\ Len(received') = scanned + Len(answer')
        /\ \A i \in 1 .. (scanned + Len(answer')) :
              received'[i] = IF i <= scanned THEN received[i] ELSE answer'[i - scanned]
    BY <2>1, <2>2, <2>3, ConcatProperties
  <2>6. ASSUME NEW i \in 1 .. Len(answer') PROVE received'[scanned + i] = answer'[i]
    BY <2>2, <2>4, <2>5
  <2> QED BY <2>1, <2>5, <2>6 DEF Pending
<1>3. CASE CardSteps
  <2>1. /\ scanned' = scanned + 1 /\ UNCHANGED received
        /\ Len(answer) \in Nat /\ Len(answer') = Len(answer) - 1
        /\ \A i \in 1 .. Len(answer') : answer'[i] = answer[i + 1]
    BY <1>3, TailOf
  <2>2. scanned \in Nat
    BY DEF Typed
  <2>3. ASSUME NEW i \in 1 .. Len(answer') PROVE received'[scanned' + i] = answer'[i]
    <3>1. i + 1 \in 1 .. Len(answer) /\ scanned' + i = scanned + (i + 1)
      BY <2>1, <2>2
    <3>2. received[scanned + (i + 1)] = answer[i + 1]
      BY <3>1 DEF Pending
    <3> QED BY <2>1, <3>1, <3>2
  <2> QED BY <2>1, <2>2, <2>3 DEF Pending
<1>4. CASE OtherSteps \/ Return \/ UNCHANGED vars
  <2>1. UNCHANGED <<received, scanned, answer>>
    BY <1>4
    DEF OtherSteps, Reject, Discover, DavFails, Report, Scanned, NextBook, Return,
        scan, history, vars
  <2> QED BY <1>1, <2>1
<1> QED BY <1>2, <1>3, <1>4, NextTyped DEF Next, CardSteps, OtherSteps

(* A scan that leaves cards unscanned has met a cap.                         *)
LEMMA NextDrained == Typed /\ IInv /\ Drained /\ [Next]_vars => Drained'
<1> SUFFICES ASSUME Typed, IInv, Drained, [Next]_vars PROVE Drained'
  OBVIOUS
<1> USE DEF Go, inputs, scan, history
<1>1. UNCHANGED <<limit, found, scanned>> => (WantsMore <=> WantsMore')
  BY CapStays DEF WantsMore
<1>2. CASE Reject \/ Discover \/ DavFails \/ Report \/ Scanned
  BY <1>2 DEF Reject, Discover, DavFails, Report, Scanned, Drained, Searching
<1>3. ASSUME NEW ignored \in Quirks, Receive(ignored) PROVE Drained'
  BY <1>3 DEF Receive, Drained, Searching
<1>4. CASE ScanLimit
  <2>1. scanned \in Nat /\ MaxScan \in Nat /\ scanned' = scanned + 1 /\ scanned >= MaxScan
    BY <1>4, CapsAssumption DEF ScanLimit, NextCard, Typed
  <2>2. ~WantsMore'
    BY <2>1 DEF WantsMore
  <2> QED BY <1>4, <2>2 DEF ScanLimit, Drained, Searching
<1>5. CASE PassOver
  BY <1>5 DEF PassOver, Drained, Searching
<1>6. CASE Keep
  <2>1. found' \in Seq(Kepts) /\ limit' \in Limits
    BY NextTyped DEF Typed
  <2>2. Len(found') \in Nat /\ Cap' \in Nat /\ Cap' = Cap
    <3>1. Len(found') \in Nat
      BY <2>1, LenProperties
    <3>2. Cap \in Nat /\ Cap' = Cap
      BY <1>6, CapStays, CapInRange, CapsAssumption DEF Keep, Typed
    <3> QED BY <3>1, <3>2
  <2>3. phase' = "next" => ~WantsMore'
    BY <1>6, <2>2 DEF Keep, WantsMore
  <2>4. phase' \in {"next", "scan"}
    BY <1>6 DEF Keep
  <2> QED BY <2>3, <2>4 DEF Drained, Searching
<1>7. CASE NextBook
  BY <1>7 DEF NextBook, Drained, Searching
<1>8. CASE Return
  <2>1. /\ UNCHANGED <<limit, found, scanned, answer, book, account>> /\ phase' = "returned"
        /\ \/ phase = "next" /\ ~WantsMore
           \/ phase = "ask" /\ book > Len(Books)
    BY <1>8 DEF Return
  <2>2. Books' = Books
    BY <2>1 DEF Books
  <2> QED BY <1>1, <2>1, <2>2 DEF Drained, Searching
<1>9. CASE UNCHANGED vars
  <2>1. Books' = Books
    BY <1>9 DEF vars, Books
  <2> QED BY <1>1, <1>9, <2>1 DEF vars, Drained
<1> QED BY <1>2, <1>3, <1>4, <1>5, <1>6, <1>7, <1>8, <1>9 DEF Next

-----------------------------------------------------------------------------
(* The hits up to a card, and what one card more adds to them.               *)
LEMMA HitsFinite ==
    ASSUME NEW n \in Nat, NEW S
    PROVE  IsFiniteSet(HitsOf(n, S)) /\ Cardinality(HitsOf(n, S)) \in Nat
<1>1. IsFiniteSet(1 .. n)
  BY FS_Interval
<1>2. HitsOf(n, S) \in SUBSET (1 .. n)
  BY DEF HitsOf
<1> QED BY <1>1, <1>2, FS_Subset, FS_CardinalityType

(* One card more adds itself to the hits, if it is one.                      *)
LEMMA OneHitMore ==
    ASSUME NEW n \in Nat, NEW S
    PROVE  Cardinality(HitsOf(n + 1, S)) =
               Cardinality(HitsOf(n, S))
                 + (IF ShowsQuery(received[n + 1]) /\ Summary(received[n + 1]) \in S THEN 1 ELSE 0)
<1> DEFINE more == ShowsQuery(received[n + 1]) /\ Summary(received[n + 1]) \in S
<1>1. IsFiniteSet(HitsOf(n, S)) /\ Cardinality(HitsOf(n, S)) \in Nat
  BY HitsFinite
<1>2. n + 1 \notin HitsOf(n, S)
  BY DEF HitsOf
<1>3. CASE more
  <2>1. HitsOf(n + 1, S) = HitsOf(n, S) \cup {n + 1}
    BY <1>3 DEF HitsOf
  <2>2. Cardinality(HitsOf(n, S) \cup {n + 1}) = Cardinality(HitsOf(n, S)) + 1
    BY <1>1, <1>2, FS_AddElement
  <2> QED BY <1>3, <2>1, <2>2
<1>4. CASE ~more
  <2>1. HitsOf(n + 1, S) = HitsOf(n, S)
    BY <1>4 DEF HitsOf
  <2> QED BY <1>1, <1>4, <2>1
<1> QED BY <1>3, <1>4

(* No card has been looked at, and no contact kept.                          *)
LEMMA InitCounts == Init => Counts
<1> SUFFICES ASSUME Init, NEW S PROVE Many(found, S) = Cardinality(HitsOf(Parsed, S))
  BY DEF Counts
<1>1. Many(found, S) = 0
  BY ManyOfNone DEF Init
<1>2. Parsed = 0
  BY CapsAssumption DEF Init, Parsed, Smaller
<1>3. HitsOf(Parsed, S) = {}
  BY <1>2 DEF HitsOf
<1> QED BY <1>1, <1>3, FS_EmptySet

(* A hit is kept once, when it is looked at, and nothing else is.            *)
LEMMA NextCounts == Typed /\ Pending /\ Drained /\ Counts /\ [Next]_vars => Counts'
<1> SUFFICES ASSUME Typed, Pending, Drained, Counts, [Next]_vars, NEW S
             PROVE  Many(found', S) = Cardinality(HitsOf(Parsed, S)')
  BY DEF Counts
<1>1. scanned \in Nat /\ MaxScan \in Nat /\ Parsed \in Nat /\ Parsed <= scanned
  BY CapsAssumption DEF Typed, Parsed, Smaller
<1>2. Many(found, S) = Cardinality(HitsOf(Parsed, S))
  BY DEF Counts
<1>3. CASE UNCHANGED <<received, scanned, found>>
  <2>1. HitsOf(Parsed, S)' = HitsOf(Parsed, S)
    BY <1>3 DEF HitsOf, Parsed, Smaller
  <2> QED BY <1>2, <1>3, <2>1
<1>4. ASSUME NEW ignored \in Quirks, Receive(ignored)
      PROVE  Many(found', S) = Cardinality(HitsOf(Parsed, S)')
  <2>1. /\ answer = <<>> /\ received' = received \o answer' /\ UNCHANGED <<scanned, found>>
        /\ received \in Seq(Cards) /\ answer' \in Seq(Cards)
    BY <1>4, NextTyped DEF Receive, Go, Drained, Searching, Typed
  <2>2. Len(received) = scanned /\ Parsed' = Parsed
    BY <2>1, <1>1 DEF Pending, Parsed, Smaller
  <2>3. \A j \in 1 .. Parsed : received'[j] = received[j]
    BY <1>1, <2>1, <2>2, ConcatProperties, LenProperties
  <2>4. HitsOf(Parsed, S)' = HitsOf(Parsed, S)
    BY <2>2, <2>3 DEF HitsOf
  <2> QED BY <1>2, <2>1, <2>4
<1>5. CASE CardSteps
  <2> DEFINE card == Head(answer)
  <2>1. /\ scanned' = scanned + 1 /\ UNCHANGED received
        /\ card \in Cards /\ card = received[scanned + 1]
    BY <1>5, TailOf
  <2>2. found \in Seq(Kepts) /\ Summary(card) \in Kepts /\ (Kept(card) <=> ShowsQuery(card))
    BY <2>1, SummaryIsKept, KeptShowsQuery DEF Typed
  <2>3. CASE scanned >= MaxScan
    <3>1. UNCHANGED found
      BY <1>1, <1>5, <2>3 DEF CardSteps, ScanLimit, PassOver, Keep
    <3>2. Parsed = MaxScan /\ Parsed' = MaxScan
      BY <1>1, <2>1, <2>3 DEF Parsed, Smaller
    <3>3. HitsOf(Parsed, S)' = HitsOf(Parsed, S)
      BY <2>1, <3>2 DEF HitsOf
    <3> QED BY <1>2, <3>1, <3>3
  <2>4. CASE scanned < MaxScan
    <3>1. Parsed = scanned /\ Parsed' = scanned + 1
      BY <1>1, <2>1, <2>4 DEF Parsed, Smaller
    <3>2. HitsOf(Parsed, S)' = HitsOf(scanned + 1, S)
      BY <2>1, <3>1 DEF HitsOf
    <3>3. Cardinality(HitsOf(scanned + 1, S)) =
              Many(found, S) + (IF ShowsQuery(card) /\ Summary(card) \in S THEN 1 ELSE 0)
      BY <1>1, <1>2, <2>1, <3>1, OneHitMore
    <3>4. CASE ShowsQuery(card)
      <4>1. found' = Append(found, Summary(card))
        BY <1>1, <1>5, <2>2, <2>4, <3>4 DEF CardSteps, ScanLimit, PassOver, Keep
      <4>2. \A e \in Kepts : Many(Append(found, e), S) = Many(found, S) + (IF e \in S THEN 1 ELSE 0)
        BY <2>2, ManyAppended
      <4> QED BY <2>2, <3>2, <3>3, <3>4, <4>1, <4>2
    <3>5. CASE ~ShowsQuery(card)
      <4>1. UNCHANGED found
        BY <1>1, <1>5, <2>2, <2>4, <3>5 DEF CardSteps, ScanLimit, PassOver, Keep
      <4>2. Many(found, S) \in Nat
        BY <1>1, <1>2, HitsFinite
      <4> QED BY <3>2, <3>3, <3>5, <4>1, <4>2
    <3> QED BY <3>4, <3>5
  <2> QED BY <1>1, <2>3, <2>4
<1>6. CASE OtherSteps \/ Return \/ UNCHANGED vars
  <2>1. UNCHANGED <<received, scanned, found>>
    BY <1>6
    DEF OtherSteps, Reject, Discover, DavFails, Report, Scanned, NextBook, Return,
        scan, history, vars
  <2> QED BY <1>3, <2>1
<1> QED BY <1>4, <1>5, <1>6 DEF Next, CardSteps, OtherSteps

-----------------------------------------------------------------------------
(* The list only grows, and so does what may have been cut off.              *)
LEMMA FoundGrows ==
    ASSUME Typed, Pending, CardSteps
    PROVE  /\ \A e : Holds(found, e) => Holds(found', e)
           /\ Room' => Room
           /\ Len(found) \in Nat /\ Len(found') \in Nat /\ Cap \in Nat /\ Cap' = Cap
           /\ Keep => /\ Kept(Head(answer)) /\ Len(found') = Len(found) + 1
                      /\ Holds(found', Summary(Head(answer)))
<1>1. /\ scanned' = scanned + 1 /\ UNCHANGED <<limit, cut>> /\ Head(answer) \in Cards
  BY TailOf
<1>2. Cap' = Cap /\ Cap \in Nat /\ scanned \in Nat /\ MaxScan \in Nat
  BY <1>1, CapStays, CapInRange, CapsAssumption DEF Typed
<1>3. found \in Seq(Kepts) /\ Len(found) \in Nat /\ DOMAIN found = 1 .. Len(found)
  BY LenProperties DEF Typed
<1>4. CASE Keep
  <2> DEFINE e == Summary(Head(answer))
  <2>1. found' = Append(found, e) /\ Kept(Head(answer))
    BY <1>4 DEF Keep
  <2>2. /\ Len(Append(found, e)) = Len(found) + 1
        /\ DOMAIN Append(found, e) = 1 .. (Len(found) + 1)
        /\ \A i \in 1 .. Len(found) : Append(found, e)[i] = found[i]
        /\ Append(found, e)[Len(found) + 1] = e
    <3> HIDE DEF e
    <3> QED BY <1>3, KeepOne
  <2>3. \A x : Holds(found, x) => Holds(found', x)
    BY <1>3, <2>1, <2>2 DEF Holds
  <2>4. Holds(found', e)
    <3>1. Len(found) + 1 \in DOMAIN found' /\ found'[Len(found) + 1] = e
      BY <1>3, <2>1, <2>2
    <3> QED BY <3>1 DEF Holds
  <2>5. Len(found') = Len(found) + 1
    BY <2>1, <2>2
  <2>6. Room' => Room
    BY <1>1, <1>2, <1>3, <2>5 DEF Room
  <2> QED BY <1>2, <1>3, <2>1, <2>3, <2>4, <2>5, <2>6
<1>5. CASE ~Keep
  <2>1. UNCHANGED found
    BY <1>5 DEF CardSteps, ScanLimit, PassOver
  <2>2. Room' => Room
    BY <1>1, <1>2, <2>1 DEF Room
  <2> QED BY <1>2, <1>3, <1>5, <2>1, <2>2
<1> QED BY <1>4, <1>5

(* All cards but the one scanned are still to be scanned.                    *)
LEMMA TailHolds ==
    ASSUME Typed, Pending, CardSteps
    PROVE  /\ \A c : Holds(answer, c) => c = Head(answer) \/ Holds(answer', c)
           /\ (\A j \in DOMAIN answer : FilterHit(answer[j])) =>
                  FilterHit(Head(answer)) /\ \A j \in DOMAIN answer' : FilterHit(answer'[j])
<1>1. /\ answer # <<>> /\ answer' = Tail(answer) /\ Len(answer) \in Nat
      /\ Len(answer') = Len(answer) - 1
      /\ \A i \in 1 .. Len(answer') : answer'[i] = answer[i + 1]
  BY TailOf
<1>2. DOMAIN answer = 1 .. Len(answer) /\ Head(answer) = answer[1]
  BY <1>1, LenProperties DEF Typed
<1>3. answer' \in Seq(Cards) /\ DOMAIN answer' = 1 .. Len(answer')
  <2>1. answer' \in Seq(Cards)
    BY <1>1, HeadTailProperties DEF Typed
  <2> QED BY <2>1, LenProperties
<1>4. ASSUME NEW j \in DOMAIN answer, j # 1
      PROVE  j - 1 \in DOMAIN answer' /\ answer'[j - 1] = answer[j]
  BY <1>1, <1>2, <1>3, <1>4
<1>5. \A c : Holds(answer, c) => c = Head(answer) \/ Holds(answer', c)
  BY <1>2, <1>4 DEF Holds
<1>6. \A j \in DOMAIN answer' : j + 1 \in DOMAIN answer /\ answer'[j] = answer[j + 1]
  BY <1>1, <1>2, <1>3
<1>7. 1 \in DOMAIN answer
  <2>1. Len(answer) # 0
    BY <1>1, EmptySeq DEF Typed
  <2> QED BY <1>1, <1>2, <2>1
<1> QED BY <1>2, <1>5, <1>6, <1>7

(* What a book holds are cards.                                              *)
LEMMA BooksCards ==
    ASSUME Typed, NEW b \in 1 .. Len(Books)
    PROVE  Books[b] \in Seq(Cards) /\ \A i \in DOMAIN Books[b] : Books[b][i] \in Cards
<1>1. Books[b] \in Seq(Cards)
  BY BooksType, ElementOfSeq DEF Typed
<1> QED BY <1>1, LenProperties, ElementOfSeq

(* There is no book behind the first.                                        *)
LEMMA InitNames == Init => Names /\ Sorted
BY DEF Init, Names, BooksFound, Sorted

(* No step loses a contact by its full name, unless a cap is reached.        *)
LEMMA NextNames == Typed /\ Pending /\ Drained /\ Names /\ [Next]_vars => Names'
<1> SUFFICES ASSUME Typed, Pending, Drained, Names, [Next]_vars, Room'
             PROVE  (BooksFound /\ (phase \in {"scan", "next"} => LimitPending \/ BookFound))'
  BY DEF Names
<1> USE DEF Go, inputs, scan, history
<1>1. UNCHANGED account => Books' = Books
  BY DEF Books
<1>2. UNCHANGED <<limit, found, scanned, cut>> => (Room' => Room)
  BY CapStays DEF Room
<1>3. CASE Reject \/ Discover \/ DavFails \/ Report \/ Return
  <2>1. UNCHANGED <<account, limit, found, scanned, cut, book>> /\ phase' \notin {"scan", "next"}
    BY <1>3 DEF Reject, Discover, DavFails, Report, Return
  <2> QED BY <1>1, <1>2, <2>1 DEF Names, BooksFound
<1>4. CASE Scanned \/ UNCHANGED vars
  <2>1. /\ UNCHANGED <<account, limit, found, answer, scanned, cut, book>>
        /\ phase' \in {"scan", "next"} => phase \in {"scan", "next"}
    BY <1>4 DEF Scanned, vars
  <2>2. Cap' = Cap
    BY <2>1, CapStays
  <2> QED BY <1>1, <1>2, <2>1, <2>2 DEF Names, BooksFound, BookFound, LimitPending
<1>5. ASSUME NEW ignored \in Quirks, Receive(ignored)
      PROVE  (BooksFound /\ (phase \in {"scan", "next"} => LimitPending \/ BookFound))'
  <2>1. /\ UNCHANGED <<account, limit, found, scanned, book>> /\ phase = "report"
        /\ answer' = Answer(ignored, Books[book])
        /\ cut' = (cut \/ ("filter" \in ignored /\ answer' # Books[book]))
    BY <1>5 DEF Receive
  <2>2. Room /\ ("filter" \in ignored => answer' = Books[book])
    BY <2>1, CapStays DEF Room
  <2>3. BooksFound'
    BY <1>1, <2>1, <2>2 DEF Names, BooksFound
  <2>4. book \in 1 .. Len(Books) /\ Books[book] \in Seq(Cards)
    <3>1. book \in 1 .. Len(Books)
      BY <2>1, BooksType DEF Typed
    <3> QED BY <3>1, BooksCards
  <2>5. HasHits(answer', Books[book]) \/ FullOfHits(answer')
    <3>1. CASE "filter" \in ignored
      BY <2>2, <3>1 DEF HasHits
    <3>2. CASE "filter" \notin ignored
      BY <2>1, <2>4, <3>2, AnswerHasHits DEF Typed
    <3> QED BY <3>1, <3>2
  <2>6. CASE HasHits(answer', Books[book])
    <3>1. BookFound'
      BY <1>1, <2>1, <2>6 DEF HasHits, BookFound, Holds
    <3> QED BY <2>3, <3>1
  <2>7. CASE FullOfHits(answer')
    <3>1. answer' \in Seq(Cards)
      BY <2>1, <2>4, AnswerHasHits DEF Typed
    <3>2. Len(found) \in Nat /\ Len(answer') \in Nat /\ Cap \in Nat /\ Cap' = Cap
      BY <2>1, <3>1, LenProperties, CapStays, CapInRange, CapsAssumption DEF Typed
    <3>3. LimitPending'
      BY <2>1, <2>7, <3>2 DEF FullOfHits, LimitPending
    <3> QED BY <2>3, <3>3
  <2> QED BY <2>5, <2>6, <2>7
<1>6. CASE CardSteps
  <2>1. /\ UNCHANGED <<account, book>> /\ phase = "scan"
        /\ Len(answer) \in Nat /\ Len(answer') = Len(answer) - 1
    BY <1>6, TailOf
  <2>2. /\ \A e : Holds(found, e) => Holds(found', e)
        /\ Room
        /\ Len(found) \in Nat /\ Len(found') \in Nat /\ Cap \in Nat /\ Cap' = Cap
        /\ Keep => /\ Kept(Head(answer)) /\ Len(found') = Len(found) + 1
                   /\ Holds(found', Summary(Head(answer)))
    BY <1>6, FoundGrows
  <2>3. ~ScanLimit
    <3>1. scanned \in Nat /\ MaxScan \in Nat
      BY CapsAssumption DEF Typed
    <3> QED BY <3>1 DEF ScanLimit, NextCard, Room
  <2>4. Head(answer) \in Cards /\ (FilterHit(Head(answer)) => Keep)
    <3>1. Head(answer) \in Cards
      BY <1>6, TailOf
    <3> QED BY <1>6, <2>3, <3>1, KeptShowsQuery DEF CardSteps, PassOver
  <2>5. BooksFound'
    BY <1>1, <2>1, <2>2 DEF Names, BooksFound
  <2>6. CASE LimitPending
    <3>1. FilterHit(Head(answer)) /\ \A j \in DOMAIN answer' : FilterHit(answer'[j])
      BY <1>6, <2>6, TailHolds DEF LimitPending
    <3>2. Len(found') + Len(answer') >= Cap'
      BY <2>1, <2>2, <2>4, <2>6, <3>1 DEF LimitPending
    <3>3. LimitPending'
      BY <3>1, <3>2 DEF LimitPending
    <3> QED BY <2>5, <3>3
  <2>7. CASE BookFound
    <3>1. ASSUME NEW i \in DOMAIN Books[book], FilterHit(Books[book][i])
          PROVE  Holds(found', Summary(Books[book][i])) \/ Holds(answer', Books[book][i])
      <4>1. CASE Holds(found, Summary(Books[book][i]))
        BY <2>2, <4>1
      <4>2. CASE Holds(answer, Books[book][i])
        <5>1. Books[book][i] = Head(answer) \/ Holds(answer', Books[book][i])
          BY <1>6, <4>2, TailHolds
        <5> QED BY <2>2, <2>4, <3>1, <5>1
      <4> QED BY <2>7, <3>1, <4>1, <4>2 DEF BookFound
    <3>2. BookFound'
      BY <1>1, <2>1, <3>1 DEF BookFound
    <3> QED BY <2>5, <3>2
  <2> QED BY <2>1, <2>2, <2>6, <2>7 DEF Names
<1>7. CASE NextBook
  <2>1. /\ UNCHANGED <<account, limit, found, answer, scanned, cut>> /\ book' = book + 1
        /\ WantsMore /\ phase = "next" /\ phase' = "ask"
    BY <1>7 DEF NextBook
  <2>2. answer = <<>> /\ Room
    BY <1>2, <2>1 DEF Drained
  <2>3. ~LimitPending
    <3>1. Len(found) \in Nat /\ Cap \in Nat /\ Len(answer) = 0
      BY <2>2, LenProperties, CapInRange, CapsAssumption DEF Typed
    <3> QED BY <2>1, <3>1 DEF LimitPending, WantsMore
  <2>4. \A e : ~Holds(answer, e)
    BY <2>2 DEF Holds
  <2>5. \A i \in DOMAIN Books[book] :
            FilterHit(Books[book][i]) => Holds(found, Summary(Books[book][i]))
    BY <2>1, <2>2, <2>3, <2>4 DEF Names, BookFound
  <2>6. book \in Nat
    BY BooksType DEF Typed
  <2>7. \A b \in 1 .. (book' - 1) : b = book \/ b \in 1 .. (book - 1)
    BY <2>1, <2>6
  <2>8. BooksFound'
    BY <1>1, <2>1, <2>2, <2>5, <2>7 DEF Names, BooksFound
  <2> QED BY <2>1, <2>8
<1> QED BY <1>3, <1>4, <1>5, <1>6, <1>7 DEF Next, CardSteps

(* The sort at the end neither loses nor repeats a contact.                  *)
LEMMA NextSorted == Typed /\ Sorted /\ [Next]_vars => Sorted'
<1> SUFFICES ASSUME Typed, Sorted, [Next]_vars PROVE Sorted'
  OBVIOUS
<1>1. CASE UNCHANGED vars
  BY <1>1 DEF vars, scan, Sorted, SortKey
<1>2. CASE Return
  <2>1. /\ UNCHANGED found /\ result' = SortedBy(found, SortKey)
    BY <1>2 DEF Return
  <2>2. /\ Sorts(result', found, KeysOf(found)) /\ Len(result') = Len(found)
        /\ \E n \in Nat : DOMAIN found = 1 .. n
    BY <2>1, ReturnSorts
  <2>3. \A S : Many(result', S) = Many(found, S)
    BY <2>2, SortedElements
  <2>4. InKeyOrder(result', found, KeysOf(found)) /\ DOMAIN result' = DOMAIN found
    BY <2>2, KeysDoNotDescend DEF Sorts
  <2>5. \A i \in DOMAIN found : KeysOf(found)[i] = SortKey(found[i])
    BY DEF KeysOf
  <2>6. ASSUME NEW a \in DOMAIN result', NEW b \in DOMAIN result', a < b
        PROVE  SortKey(result'[a]) <= SortKey(result'[b])
    <3>1. PICK i, j \in DOMAIN found :
              /\ result'[a] = found[i] /\ result'[b] = found[j]
              /\ NotAfter(KeysOf(found), i, j)
      BY <2>2, <2>4, <2>6 DEF InKeyOrder
    <3> QED BY <2>5, <3>1 DEF NotAfter
  <2> QED BY <2>1, <2>2, <2>3, <2>6 DEF Sorted
<1>3. CASE Next /\ ~Return
  <2>1. phase' # "returned"
    BY <1>3
    DEF Next, Reject, Discover, DavFails, Report, Receive, ScanLimit, PassOver, Keep,
        Scanned, NextBook, Go
  <2> QED BY <2>1 DEF Sorted
<1> QED BY <1>1, <1>2, <1>3

(* All parts of the invariant hold throughout every search.                  *)
LEMMA ScanInductive == Spec => [](Typed /\ IInv /\ SInv)
<1>1. Init => SInv
  BY InitPending, InitCounts, InitNames DEF SInv
<1>2. Typed /\ IInv /\ SInv /\ [Next]_vars => SInv'
  BY NextPending, NextDrained, NextCounts, NextNames, NextSorted DEF SInv
<1> QED BY <1>1, <1>2, Inductive, PTL DEF Spec

-----------------------------------------------------------------------------
(* find_contacts returns at most the clamped limit over all address books   *)
(* together, scans at most one card more than _MAX_SCAN, and asks iCloud    *)
(* nothing for a query that is too short, whatever iCloud sends back.       *)
THEOREM CapsAlwaysHold == Spec => []CapsHold
<1>1. Typed /\ IInv => CapsHold
  BY CapInRange, CapsAssumption DEF Typed, IInv, Within, TooShort, CapsHold
<1> QED BY <1>1, Inductive, PTL

(* Nothing that _matches would not accept leaves the tool, however iCloud   *)
(* filtered and whichever way the sort permuted the contacts.               *)
THEOREM OnlyMatchesLeave == Spec => []OnlyMatchesReturned
<1>1. Typed /\ IInv => OnlyMatchesReturned
  <2> SUFFICES ASSUME Typed, IInv PROVE OnlyMatchesReturned
    OBVIOUS
  <2>1. \A i \in DOMAIN result : Hit(result[i])
    BY DEF IInv, ResultFromFound, OnlyHits
  <2>2. PICK S : found \in Seq(S)
    BY DEF Typed
  <2>3. DOMAIN found = 1 .. Len(found) /\ Len(found) \in Nat /\ Len(found) <= Cap /\ Cap \in Nat
    BY <2>2, LenProperties, CapInRange, CapsAssumption DEF Typed, IInv, Within
  <2>4. DOMAIN result \subseteq 1 .. Cap
    BY <2>3 DEF IInv, ResultFromFound
  <2> QED BY <2>1, <2>4 DEF OnlyMatchesReturned
<1> QED BY <1>1, Inductive, PTL

(* Every variable keeps its type; a contact that is kept names at most       *)
(* _MAX_METHODS addresses and numbers.                                       *)
THEOREM TypeCorrect == Spec => []TypeOK
<1>1. Typed => TypeOK
  <2> SUFFICES ASSUME Typed PROVE TypeOK
    OBVIOUS
  <2>1. \A i \in 1 .. Len(found) : found[i] \in Kepts
    BY ElementOfSeq DEF Typed
  <2>2. found \in Seq(Summaries) /\ result \in Seq(Summaries)
    <3>1. Kepts \subseteq Summaries
      BY DEF Kepts
    <3> QED BY <3>1, SeqMonotonic DEF Typed
  <2>3. book \in 1 .. Len(Books) + 1
    BY DEF Typed
  <2> QED BY <2>1, <2>2, <2>3 DEF Typed, TypeOK, Phases, Searching, Kepts
<1> QED BY <1>1, Inductive, PTL

(* When the search has returned, the cards it looked at hold the first hits  *)
(* and no other: what was left unscanned lies behind a cap.                  *)
LEMMA FirstHitsParsed ==
    ASSUME Typed, IInv, SInv, phase = "returned"
    PROVE  FirstHits = HitsOf(Parsed, Kepts)
<1> DEFINE UpToCard(j) == {i \in 1 .. j : ShowsQuery(received[i])}
<1>1. /\ scanned \in Nat /\ MaxScan \in Nat /\ Cap \in Nat
      /\ Len(received) \in Nat /\ Len(answer) \in Nat /\ Len(found) \in Nat
  BY CapInRange, CapsAssumption, LenProperties DEF Typed
<1>2. Len(received) = scanned + Len(answer)
  BY DEF SInv, Pending
<1>3. \A j \in 1 .. Len(received) : Summary(received[j]) \in Kepts
  BY ElementOfSeq, SummaryIsKept DEF Typed
<1>4. /\ Parsed \in Nat /\ Parsed <= Len(received) /\ Parsed <= MaxScan
      /\ Parsed <= Smaller(Len(received), MaxScan)
  BY <1>1, <1>2 DEF Parsed, Smaller
<1>5. \A j \in 1 .. Len(received) : UpToCard(j) = HitsOf(j, Kepts)
  BY <1>1, <1>3 DEF HitsOf
<1>6. Cardinality(HitsOf(Parsed, Kepts)) = Len(found)
  BY ManyOfAll DEF SInv, Counts, Typed
<1>7. Len(found) <= Cap
  BY DEF IInv, Within
<1>8. ASSUME NEW j \in HitsOf(Parsed, Kepts) PROVE j \in FirstHits
  <2>1. j \in 1 .. Parsed /\ ShowsQuery(received[j])
    BY <1>8 DEF HitsOf
  <2>2. HitsOf(j, Kepts) \in SUBSET HitsOf(Parsed, Kepts)
    BY <1>4, <2>1 DEF HitsOf
  <2>3. Cardinality(HitsOf(j, Kepts)) <= Cardinality(HitsOf(Parsed, Kepts))
    BY <1>4, <2>2, HitsFinite, FS_Subset
  <2>4. j \in Nat /\ Cardinality(HitsOf(j, Kepts)) \in Nat
    BY <1>4, <2>1, HitsFinite
  <2>5. Cardinality(UpToCard(j)) <= Cap
    <3>1. j \in 1 .. Len(received)
      BY <1>1, <1>4, <2>1
    <3>2. UpToCard(j) = HitsOf(j, Kepts)
      BY <1>5, <3>1
    <3> HIDE DEF UpToCard
    <3> QED BY <1>1, <1>6, <1>7, <2>3, <2>4, <3>2
  <2>6. j \in 1 .. Smaller(Len(received), MaxScan)
    BY <1>1, <1>4, <2>1 DEF Smaller
  <2> QED BY <2>1, <2>5, <2>6 DEF FirstHits
<1>9. ASSUME NEW j \in FirstHits, j \notin HitsOf(Parsed, Kepts) PROVE FALSE
  <2>1. /\ j \in Nat /\ 1 <= j /\ j <= Len(received) /\ j <= MaxScan
        /\ ShowsQuery(received[j]) /\ Cardinality(UpToCard(j)) <= Cap
    BY <1>1 DEF FirstHits, Smaller
  <2>2. j > Parsed
    BY <1>3, <1>4, <1>9, <2>1 DEF HitsOf
  <2>3. scanned < j
    BY <1>1, <2>1, <2>2 DEF Parsed, Smaller
  <2>4. answer # <<>>
    <3>1. Len(answer) # 0
      BY <1>1, <1>2, <2>1, <2>3
    <3> QED BY <3>1
  <2>5. Len(found) >= Cap
    <3>1. ~WantsMore
      BY <2>4 DEF SInv, Drained
    <3> QED BY <1>1, <2>1, <2>3, <3>1 DEF WantsMore
  <2>6. IsFiniteSet(HitsOf(Parsed, Kepts)) /\ j \notin HitsOf(Parsed, Kepts)
    BY <1>4, <1>9, HitsFinite
  <2>7. Cardinality(HitsOf(Parsed, Kepts) \cup {j}) = Len(found) + 1
    BY <1>6, <2>6, FS_AddElement
  <2>8. HitsOf(Parsed, Kepts) \cup {j} \in SUBSET HitsOf(j, Kepts)
    BY <1>3, <1>4, <2>1, <2>2 DEF HitsOf
  <2>9. IsFiniteSet(HitsOf(j, Kepts)) /\ Cardinality(HitsOf(j, Kepts)) \in Nat
    BY <2>1, HitsFinite
  <2>10. Cardinality(HitsOf(Parsed, Kepts) \cup {j}) <= Cardinality(HitsOf(j, Kepts))
    BY <2>8, <2>9, FS_Subset
  <2>11. Cardinality(HitsOf(j, Kepts)) <= Cap
    <3>1. j \in 1 .. Len(received)
      BY <1>1, <2>1
    <3>2. UpToCard(j) = HitsOf(j, Kepts)
      BY <1>5, <3>1
    <3> HIDE DEF UpToCard
    <3> QED BY <2>1, <3>2
  <2> QED BY <1>1, <2>5, <2>7, <2>9, <2>10, <2>11
<1> QED BY <1>8, <1>9

(* What is returned are the first hits among the cards that came back and    *)
(* may be scanned, each as often as it came, in the order of their names,    *)
(* however many cards and books there are and whatever iCloud ignores.       *)
THEOREM FirstHitsAreReturned == Spec => []FirstHitsReturned
<1>1. Typed /\ IInv /\ SInv => FirstHitsReturned
  <2> SUFFICES ASSUME Typed, IInv, SInv, phase = "returned"
               PROVE  /\ Len(result) = Cardinality(FirstHits)
                      /\ \A i \in DOMAIN result :
                            Times(result[i], result)
                              = Cardinality({j \in FirstHits : Summary(received[j]) = result[i]})
                      /\ \A i, j \in DOMAIN result :
                            i < j => SortKey(result[i]) <= SortKey(result[j])
    BY DEF FirstHitsReturned
  <2>1. FirstHits = HitsOf(Parsed, Kepts)
    BY FirstHitsParsed
  <2>2. Len(result) = Len(found) /\ \A S : Many(result, S) = Many(found, S)
    BY DEF SInv, Sorted
  <2>3. \A S : Many(found, S) = Cardinality(HitsOf(Parsed, S))
    BY DEF SInv, Counts
  <2>4. Many(found, Kepts) = Len(found)
    BY ManyOfAll DEF Typed
  <2>5. ASSUME NEW i \in DOMAIN result
        PROVE  Times(result[i], result)
                 = Cardinality({j \in FirstHits : Summary(received[j]) = result[i]})
    <3> DEFINE e == result[i]
    <3>1. e \in Kepts
      BY ElementOfSeq, LenProperties DEF Typed
    <3> HIDE DEF e
    <3>2. Times(e, result) = Many(result, {e})
      <4>1. {k \in DOMAIN result : result[k] = e} = {k \in DOMAIN result : result[k] \in {e}}
        OBVIOUS
      <4> QED BY <4>1 DEF Times, Many, ManyAt
    <3>3. {j \in FirstHits : Summary(received[j]) = e} = HitsOf(Parsed, {e})
      BY <2>1, <3>1 DEF HitsOf
    <3>4. Times(e, result) = Cardinality({j \in FirstHits : Summary(received[j]) = e})
      BY <2>2, <2>3, <3>2, <3>3
    <3> QED BY <3>4 DEF e
  <2>6. \A i, j \in DOMAIN result : i < j => SortKey(result[i]) <= SortKey(result[j])
    BY DEF SInv, Sorted
  <2> QED BY <2>1, <2>2, <2>3, <2>4, <2>5, <2>6
<1> QED BY <1>1, ScanInductive, PTL

(* A search that met no limit has every contact whose full name contains the *)
(* query, whichever book it is in and however many books there are.          *)
THEOREM EveryNameIsFound == Spec => []EveryNameFound
<1>1. Typed /\ IInv /\ SInv => EveryNameFound
  <2> SUFFICES ASSUME Typed, SInv, Exhaustive,
                      NEW b \in DOMAIN Books, NEW i \in DOMAIN Books[b], FilterHit(Books[b][i])
               PROVE  Returned(Books[b][i])
    BY DEF EveryNameFound
  <2>1. phase = "returned" /\ Room /\ WantsMore
    BY DEF Exhaustive, Room, WantsMore
  <2>2. b \in 1 .. (book - 1)
    <3>1. book > Len(Books)
      BY <2>1 DEF SInv, Drained
    <3> QED BY <3>1, BooksType DEF Typed
  <2> DEFINE e == Summary(Books[b][i])
  <2>3. Holds(found, e)
    BY <2>1, <2>2 DEF SInv, Names, BooksFound
  <2>4. Many(result, {e}) = Many(found, {e})
    BY <2>1 DEF SInv, Sorted
  <2> HIDE DEF e
  <2>5. Holds(result, e)
    <3>1. ASSUME ~Holds(result, e) PROVE Many(result, {e}) = 0
      <4>1. {k \in DOMAIN result : result[k] \in {e}} = {}
        BY <3>1 DEF Holds
      <4> QED BY <4>1, FS_EmptySet DEF Many, ManyAt
    <3>2. Many(found, {e}) # 0
      <4>1. DOMAIN found = 1 .. Len(found) /\ Len(found) \in Nat
        BY LenProperties DEF Typed
      <4>2. IsFiniteSet({k \in DOMAIN found : found[k] \in {e}})
        BY <4>1, ManyIsNat
      <4>3. {k \in DOMAIN found : found[k] \in {e}} # {}
        BY <2>3 DEF Holds
      <4> QED BY <4>2, <4>3, FS_EmptySet DEF Many, ManyAt
    <3> QED BY <2>4, <3>1, <3>2
  <2> QED BY <2>5 DEF Holds, Returned, e
<1> QED BY <1>1, ScanInductive, PTL
=============================================================================
