------------------------------ MODULE Contacts ------------------------------
(***************************************************************************)
(* find_contacts of apple_mcp/contacts.py: three PROPFINDs discover the    *)
(* person's address books, a REPORT asks each of them in turn, and the     *)
(* vCards that come back are scanned until one of two caps, both counted   *)
(* over all the books together, ends the search.                           *)
(*                                                                         *)
(* A piece of text is reduced to its place in the alphabet and to whether  *)
(* it contains the query; iCloud may ignore the filter or the limit.       *)
(***************************************************************************)
EXTENDS Integers, Sequences, FiniteSets, SeqOrder

CONSTANTS
    Cards,          \* the vCards: [fn, n, emails, phones]
    Accounts,       \* [books, home]: the books listed, and the home collection
    Limits,         \* the tool's limit; 0 stands for None, too
    DefaultResults, MaxResults, MaxMethods, MaxScan,
    Tilde,          \* the place of "~" among the names
    Quirks          \* what iCloud may ignore, of "filter" and "limit"

NoText == [key |-> 0, hit |-> FALSE]
Texts == [key : Nat, hit : BOOLEAN]

ASSUME CapsAssumption ==
    /\ Limits \subseteq Int /\ Tilde \in Nat
    /\ DefaultResults \in Nat /\ MaxResults \in Nat /\ MaxMethods \in Nat
    /\ MaxScan \in Nat /\ 1 <= MaxResults

ASSUME CardsAssumption ==
    /\ Cards \subseteq [fn : Texts, n : Texts, emails : Seq(BOOLEAN), phones : Nat]
    /\ Accounts \subseteq [books : Seq(Seq(Cards)), home : Seq(Cards)]

VARIABLES
    valid,          \* whether the query has two characters
    limit, account, \* the argument, and what iCloud holds
    phase,
    book,           \* the book being asked or scanned
    answer,         \* its vCards that are still to be scanned
    scanned,
    found,          \* the contacts kept, in the order of the scan
    result,         \* the contacts returned
    received,       \* history: every vCard received
    cut             \* history: some book's unfiltered answer was cut short

inputs == <<valid, limit, account>>
scan == <<book, answer, scanned, found, result>>
history == <<received, cut>>
vars == <<inputs, phase, scan, history>>

Smaller(a, b) == IF a <= b THEN a ELSE b

\* max(1, min(limit or 10, 25))
Cap ==
    LET asked == Smaller(IF limit = 0 THEN DefaultResults ELSE limit, MaxResults)
    IN  IF asked < 1 THEN 1 ELSE asked

\* Some accounts expose the address book at the home collection itself.
Books == IF account.books = <<>> THEN <<account.home>> ELSE account.books

Init ==
    /\ valid \in BOOLEAN /\ limit \in Limits /\ account \in Accounts
    /\ phase = "start"
    /\ book = 1 /\ answer = <<>> /\ scanned = 0 /\ found = <<>> /\ result = <<>>
    /\ received = <<>> /\ cut = FALSE

Go(from, to) == phase = from /\ phase' = to /\ UNCHANGED inputs

Reject == ~valid /\ Go("start", "raised") /\ UNCHANGED <<scan, history>>

\* The principal, its home set, and the books in there.
Discover ==
    /\ \/ valid /\ Go("start", "principal")
       \/ Go("principal", "home")
       \/ Go("home", "books")
       \/ Go("books", "ask")
    /\ UNCHANGED <<scan, history>>

\* Mutant: a book that cannot be read is asked again.
DavAgain ==
    /\ Go("report", "ask")
    /\ UNCHANGED <<scan, history>>

\* A hop raises, answers with HTTP 4xx or 5xx, or with something that is no
\* XML or lacks the href: the whole search ends.
DavFails ==
    /\ \E step \in {"principal", "home", "books", "report"} : Go(step, "raised")
    /\ UNCHANGED <<scan, history>>

Report ==
    /\ book <= Len(Books) /\ Go("ask", "report")
    /\ UNCHANGED <<scan, history>>

\* The FN text-match and the nresults of the REPORT, where iCloud heeds them.
FilterHit(card) == card.fn.hit

Filtered(ignored, cards) ==
    IF "filter" \in ignored THEN cards ELSE Selected(cards, FilterHit)

Answer(ignored, cards) ==
    LET hits == Filtered(ignored, cards)
    IN  IF "limit" \in ignored THEN hits ELSE SubSeq(hits, 1, Smaller(Len(hits), Cap))

Receive(ignored) ==
    /\ Go("report", "scan")
    /\ answer' = Answer(ignored, Books[book])
    /\ received' = received \o answer'
    /\ cut' = (cut \/ ("filter" \in ignored /\ answer' # Books[book]))
    /\ UNCHANGED <<book, scanned, found, result>>

\* Mutant: every address of the card is disclosed.
SummaryOfAll(card) ==
    [name |-> IF card.fn # NoText THEN card.fn ELSE card.n,
     emails |-> card.emails, phones |-> card.phones]

\* summarize_vcard and _matches
Summary(card) ==
    [name |-> IF card.fn # NoText THEN card.fn ELSE card.n,
     emails |-> SubSeq(card.emails, 1, Smaller(Len(card.emails), MaxMethods)),
     phones |-> Smaller(card.phones, MaxMethods)]

Usable(s) == s.name # NoText \/ s.emails # <<>> \/ s.phones > 0

Hit(s) == s.name.hit \/ \E i \in 1 .. Len(s.emails) : s.emails[i]

\* Mutant: iCloud's filter is trusted.
KeptUnchecked(card) == Usable(Summary(card))

Kept(card) == Usable(Summary(card)) /\ Hit(Summary(card))

NextCard ==
    /\ answer # <<>>
    /\ answer' = Tail(answer)
    /\ scanned' = scanned + 1
    /\ UNCHANGED <<book, result, history>>

ScanLimit ==
    /\ scanned >= MaxScan /\ NextCard
    /\ Go("scan", "next") /\ UNCHANGED found

PassOver ==
    /\ scanned < MaxScan /\ NextCard
    /\ ~Kept(Head(answer))
    /\ Go("scan", "scan") /\ UNCHANGED found

Keep ==
    /\ scanned < MaxScan /\ NextCard
    /\ Kept(Head(answer))
    /\ found' = Append(found, Summary(Head(answer)))
    /\ Go("scan", IF Len(found') >= Cap THEN "next" ELSE "scan")

Scanned ==
    /\ answer = <<>> /\ Go("scan", "next")
    /\ UNCHANGED <<scan, history>>

\* Mutants: the caps hold for each book by itself; a book without hits ends
\* the search.
WantsPerBook == TRUE

WantsAfterHit == Len(found) < Cap /\ scanned <= MaxScan /\ found # <<>>

WantsMore == Len(found) < Cap /\ scanned <= MaxScan

NextBook ==
    /\ WantsMore /\ Go("next", "ask")
    /\ book' = book + 1
    /\ UNCHANGED <<answer, scanned, found, result, history>>

\* (name or "~").lower()
SortKey(s) == IF s.name = NoText THEN Tilde ELSE s.name.key

Return ==
    /\ \/ ~WantsMore /\ Go("next", "returned")
       \/ book > Len(Books) /\ Go("ask", "returned")
    /\ result' = SortedBy(found, SortKey)
    /\ UNCHANGED <<book, answer, scanned, found, history>>

Next ==
    \/ Reject \/ Discover \/ DavFails \/ Report
    \/ \E ignored \in Quirks : Receive(ignored)
    \/ ScanLimit \/ PassOver \/ Keep \/ Scanned \/ NextBook \/ Return

Spec == Init /\ [][Next]_vars

\* The request timeout ends every hop.
FairSpec == Spec /\ WF_vars(Next)

-----------------------------------------------------------------------------
Summaries == [name : Texts, emails : Seq(BOOLEAN), phones : 0 .. MaxMethods]

TypeOK ==
    /\ valid \in BOOLEAN /\ limit \in Limits /\ account \in Accounts
    /\ phase \in {"start", "principal", "home", "books", "ask", "report", "scan",
                  "next", "returned", "raised"}
    /\ book \in 1 .. Len(Books) + 1
    /\ answer \in Seq(Cards) /\ received \in Seq(Cards)
    /\ scanned \in Nat
    /\ found \in Seq(Summaries) /\ result \in Seq(Summaries)
    /\ \A i \in 1 .. Len(found) : Len(found[i].emails) <= MaxMethods
    /\ cut \in BOOLEAN

(* "Never return more than this many contacts [...] whatever iCloud sends    *)
(* back", and "stop parsing after this many vCards" (contacts.py): both caps *)
(* hold over all the books together, and nothing is asked of iCloud for a    *)
(* query that is too short.                                                  *)
CapsHold ==
    /\ Len(found) <= Cap /\ Cap <= MaxResults
    /\ scanned <= MaxScan + 1
    /\ ~valid => received = <<>>

(* "keep only true hits even if iCloud ignored the filter" (_matches): what  *)
(* is returned are the first hits, up to the limit, among the cards that     *)
(* came back and may be scanned, by name, with the nameless where "~" sorts. *)
(* Every one of them shows the query in its name or in an address returned.  *)
ShowsQuery(card) == Hit(Summary(card))

FirstHits ==
    {j \in 1 .. Smaller(Len(received), MaxScan) :
        /\ ShowsQuery(received[j])
        /\ Cardinality({i \in 1 .. j : ShowsQuery(received[i])}) <= Cap}

Times(s, t) == Cardinality({i \in DOMAIN t : t[i] = s})

FirstHitsReturned ==
    phase = "returned" =>
        /\ Len(result) = Cardinality(FirstHits)
        /\ \A i \in DOMAIN result :
              Times(result[i], result)
                = Cardinality({j \in FirstHits : Summary(received[j]) = result[i]})
        /\ \A i, j \in DOMAIN result : i < j => SortKey(result[i]) <= SortKey(result[j])

\* A search that returned before it met a limit of anybody.
Exhaustive == phase = "returned" /\ ~cut /\ Len(found) < Cap /\ scanned <= MaxScan

Returned(card) == \E i \in DOMAIN result : result[i] = Summary(card)

(* The search does not end early over several books, empty ones among them:  *)
(* unless a cap was reached, every contact whose full name contains the      *)
(* query is in the result, whichever book it is in.                          *)
EveryNameFound ==
    Exhaustive =>
        \A b \in DOMAIN Books : \A i \in DOMAIN Books[b] :
            FilterHit(Books[b][i]) => Returned(Books[b][i])

(* "Search the person's Apple Contacts (iCloud) by name or email" (tools.py, *)
(* find_contacts): a contact is found by any name or e-mail address it has.  *)
Matching(card) ==
    card.fn.hit \/ card.n.hit \/ \E i \in DOMAIN card.emails : card.emails[i]

EveryMatchFound ==
    Exhaustive =>
        \A b \in DOMAIN Books : \A i \in DOMAIN Books[b] :
            Matching(Books[b][i]) => Returned(Books[b][i])

(* Every search ends, however many books there are and whatever iCloud sends.*)
SearchEnds == <>(phase \in {"returned", "raised"})
=============================================================================
