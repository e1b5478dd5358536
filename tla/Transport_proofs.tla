------------------------- MODULE Transport_proofs -------------------------
(***************************************************************************)
(* Proofs about the redirect loop and the hop of both clients, for any     *)
(* hosts, requests, redirect targets, addresses and redirect limits.       *)
(***************************************************************************)
EXTENDS Transport, SequenceTheorems, TLAPS

(* Why these hold: the loop's own variables always describe the next hop, or *)
(* the one under way, of which Upcoming is the number.                       *)
Upcoming ==
    IF phase \in {"waiting", "closing", "answered"}
    THEN Len(sent) ELSE Len(sent) + 1

CurrentRequest ==
    phase \in Phases \ {"failing", "returned", "raised"} =>
        IF SeeOtherBefore(Upcoming)
        THEN method = "GET" /\ body = "" /\ "entity" \notin headers
        ELSE method = req.method /\ body = req.body /\ headers = req.headers

Underway ==
    /\ phase = "start" => sent = <<>>
    /\ phase \in {"hop", "pinned", "waiting"} => Brokerable(url)
    /\ phase = "pinned" => direct /\ MayHop
    /\ phase = "pinned" => \E c \in Connections :
                              open = {c} /\ c.host = url.host /\ c.addr \in Global
    /\ phase \in {"waiting", "closing", "answered", "returned"} =>
          sent # <<>> /\ sent[Len(sent)].url = url

\* The brokered client opens none of its own.
Unconnected == ~direct => open = {}

IInv ==
    /\ TypeOK /\ EveryHopBrokerable /\ RequestPreserved /\ FinalUrlAnswered
    /\ HopsPinned /\ ConnectionsClosed /\ Unconnected
    /\ CurrentRequest /\ Underway

(* A resolved target is again a URL, whichever Location the network sends. *)
LEMMA JoinIsUrl ==
    ASSUME NEW base \in Urls, NEW loc \in Locations PROVE Join(base, loc) \in Urls
<1>1. loc.url \in Urls
  BY InputAssumption
<1>2. [base EXCEPT !.path = loc.url.path] \in Urls
  BY <1>1 DEF Urls
<1>3. QED BY <1>1, <1>2 DEF Join

(* Sending appends one hop that carries what the loop's variables say. *)
LEMMA SendAppends ==
    ASSUME TypeOK, MayHop, NEW from, NEW hs \in SUBSET headers, Send(from, hs)
    PROVE  /\ sent' \in Seq(Hops)
           /\ Len(sent) \in Nat
           /\ Len(sent') = Len(sent) + 1
           /\ Len(sent') <= limit + 1
           /\ \A i \in 1 .. Len(sent) : sent'[i] = sent[i]
           /\ sent'[Len(sent')] = [url |-> url, method |-> method, body |-> body,
                                   headers |-> hs, via |-> open, answer |-> "none"]
<1> DEFINE hop == [url |-> url, method |-> method, body |-> body,
                   headers |-> hs, via |-> open, answer |-> "none"]
<1>1. /\ method \in {r.method : r \in Requests} \cup {"GET"}
      /\ body \in {r.body : r \in Requests} \cup {""}
      /\ hs \in SUBSET HeaderKinds
  BY InputAssumption DEF TypeOK
<1>2. hop \in Hops
  BY <1>1 DEF TypeOK, Hops
<1>3. sent' = Append(sent, hop)
  BY DEF Send
<1>4. sent \in Seq(Hops) /\ Len(sent) \in Nat /\ limit \in Nat
  BY LenProperties DEF TypeOK
<1> HIDE DEF hop
<1>5. /\ sent' \in Seq(Hops)
      /\ Len(sent') = Len(sent) + 1
      /\ \A i \in 1 .. Len(sent) : sent'[i] = sent[i]
      /\ sent'[Len(sent) + 1] = hop
  BY <1>2, <1>3, <1>4, AppendProperties
<1>6. Len(sent') <= limit + 1
  BY <1>4, <1>5 DEF MayHop
<1>7. QED BY <1>4, <1>5, <1>6 DEF hop

(* The answer to a hop changes nothing but that hop's answer. *)
LEMMA AnsweredKeeps ==
    ASSUME TypeOK, sent # <<>>, NEW to,
           NEW kind \in {"final", "redirect", "see_other", "lost"}, Answered(kind, to)
    PROVE  /\ sent' \in Seq(Hops)
           /\ Len(sent') = Len(sent)
           /\ Len(sent) \in Nat \ {0}
           /\ \A i \in 1 .. Len(sent) :
                 /\ sent'[i].url = sent[i].url
                 /\ sent'[i].method = sent[i].method
                 /\ sent'[i].body = sent[i].body
                 /\ sent'[i].headers = sent[i].headers
                 /\ sent'[i].via = sent[i].via
                 /\ i # Len(sent) => sent'[i].answer = sent[i].answer
<1> DEFINE last == [sent[Len(sent)] EXCEPT !.answer = kind]
<1>1. sent \in Seq(Hops) /\ Len(sent) \in Nat \ {0} /\ Len(sent) \in 1 .. Len(sent)
  <2>1. sent \in Seq(Hops)
    BY DEF TypeOK
  <2>2. Len(sent) \in Nat \ {0}
    BY <2>1, EmptySeq
  <2>3. QED BY <2>1, <2>2
<1>2. sent' = [sent EXCEPT ![Len(sent)] = last]
  BY DEF Answered
<1>3. sent[Len(sent)] \in Hops
  BY <1>1, ElementOfSeq
<1>4. /\ last \in Hops
      /\ last.url = sent[Len(sent)].url
      /\ last.method = sent[Len(sent)].method
      /\ last.body = sent[Len(sent)].body
      /\ last.headers = sent[Len(sent)].headers
      /\ last.via = sent[Len(sent)].via
  BY <1>3 DEF Hops
<1> HIDE DEF last
<1>5. /\ sent' \in Seq(Hops) /\ Len(sent') = Len(sent)
      /\ \A i \in 1 .. Len(sent) : sent'[i] = IF i = Len(sent) THEN last ELSE sent[i]
  BY <1>1, <1>2, <1>4, ExceptSeq
<1>6. QED BY <1>1, <1>4, <1>5

(* Sending keeps the invariant: the new hop is the loop's current request. *)
LEMMA SendKeeps ==
    ASSUME IInv, MayHop, Brokerable(url),
           NEW from \in {"hop", "pinned"}, NEW hs \in SUBSET headers, Send(from, hs),
           hs \cup {"caller_auth"} = headers \cup {"caller_auth"},
           direct => from = "pinned" /\ "caller_auth" \notin hs
    PROVE  IInv'
<1>0. TypeOK /\ phase = from /\ phase \in {"hop", "pinned"}
  BY DEF IInv, Send, Go
<1>1. /\ sent' \in Seq(Hops)
      /\ Len(sent) \in Nat
      /\ Len(sent') = Len(sent) + 1
      /\ Len(sent') <= limit + 1
      /\ \A i \in 1 .. Len(sent) : sent'[i] = sent[i]
      /\ sent'[Len(sent')] = [url |-> url, method |-> method, body |-> body,
                              headers |-> hs, via |-> open, answer |-> "none"]
  BY <1>0, SendAppends
<1>2. /\ phase' = "waiting"
      /\ UNCHANGED <<direct, limit, req, url, method, body, headers, open>>
  BY DEF Send, Go, SameRequest
<1>3. TypeOK'
  BY <1>0, <1>1, <1>2 DEF TypeOK, Phases
<1>4. EveryHopBrokerable'
  BY <1>1, <1>2 DEF IInv, EveryHopBrokerable, Brokerable
<1>5. \A i \in 1 .. Len(sent) + 1 : SeeOtherBefore(i)' <=> SeeOtherBefore(i)
  BY <1>1 DEF SeeOtherBefore
<1>6. Upcoming = Len(sent) + 1 /\ Upcoming' = Len(sent) + 1
  BY <1>0, <1>1, <1>2 DEF Upcoming
<1>7. CurrentRequest'
  <2>1. SeeOtherBefore(Upcoming)' <=> SeeOtherBefore(Upcoming)
    BY <1>1, <1>5, <1>6 DEF SeeOtherBefore
  <2>2. QED BY <1>0, <1>2, <2>1 DEF IInv, CurrentRequest, Phases
<1>8. RequestPreserved'
  <2> SUFFICES ASSUME NEW i \in 1 .. Len(sent')
               PROVE  IF SeeOtherBefore(i)'
                      THEN /\ sent'[i].method = "GET" /\ sent'[i].body = ""
                           /\ "entity" \notin sent'[i].headers
                      ELSE /\ sent'[i].method = req.method /\ sent'[i].body = req.body
                           /\ sent'[i].headers \cup {"caller_auth"}
                                = req.headers \cup {"caller_auth"}
    BY <1>2 DEF RequestPreserved
  <2>1. CASE i \in 1 .. Len(sent)
    BY <1>1, <1>5, <2>1 DEF IInv, RequestPreserved
  <2>2. CASE i = Len(sent')
    <3>1. SeeOtherBefore(i)' <=> SeeOtherBefore(Len(sent) + 1)
      BY <1>1, <1>5, <2>2
    <3>2. /\ sent'[i].method = method /\ sent'[i].body = body /\ sent'[i].headers = hs
      BY <1>1, <2>2
    <3>3. IF SeeOtherBefore(Len(sent) + 1)
          THEN method = "GET" /\ body = "" /\ "entity" \notin headers
          ELSE method = req.method /\ body = req.body /\ headers = req.headers
      BY <1>0, <1>6 DEF IInv, CurrentRequest, Phases
    <3>4. "entity" \notin headers => "entity" \notin hs
      OBVIOUS
    <3>5. QED BY <3>1, <3>2, <3>3, <3>4
  <2>3. i \in 1 .. Len(sent) \/ i = Len(sent')
    BY <1>1
  <2>4. QED BY <2>1, <2>2, <2>3
<1>9. HopsPinned'
  <2> SUFFICES ASSUME direct, NEW i \in 1 .. Len(sent')
               PROVE  /\ \E c \in Connections : /\ sent'[i].via = {c}
                                               /\ c.host = sent'[i].url.host
                                               /\ c.addr \in Global
                      /\ "caller_auth" \notin sent'[i].headers
    BY <1>2 DEF HopsPinned
  <2>1. CASE i \in 1 .. Len(sent)
    BY <1>1, <2>1 DEF IInv, HopsPinned
  <2>2. CASE i = Len(sent')
    <3>1. \E c \in Connections : open = {c} /\ c.host = url.host /\ c.addr \in Global
      BY <1>0 DEF IInv, Underway
    <3>2. QED BY <1>1, <2>2, <3>1
  <2>3. QED BY <1>1, <2>1, <2>2
<1>10. FinalUrlAnswered' /\ ConnectionsClosed' /\ Unconnected' /\ Underway'
  BY <1>1, <1>2, EmptySeq
  DEF FinalUrlAnswered, ConnectionsClosed, Underway, Unconnected, IInv, Brokerable
<1>11. QED
  BY <1>3, <1>4, <1>7, <1>8, <1>9, <1>10 DEF IInv

(* An answer keeps what is known of the hops sent, whatever it is. *)
LEMMA AnswerKeeps ==
    ASSUME IInv, NEW kind \in {"final", "redirect", "see_other", "lost"},
           NEW to \in {"closing", "answered", "failing", "raised"}, Answered(kind, to),
           to \in {"answered", "raised"} => ~direct
    PROVE  IInv'
<1>0. /\ TypeOK /\ phase = "waiting" /\ sent # <<>> /\ sent[Len(sent)].url = url
  BY DEF IInv, Underway, Answered, Go
<1>1. /\ sent' \in Seq(Hops)
      /\ Len(sent') = Len(sent)
      /\ Len(sent) \in Nat \ {0}
      /\ \A i \in 1 .. Len(sent) :
            /\ sent'[i].url = sent[i].url
            /\ sent'[i].method = sent[i].method
            /\ sent'[i].body = sent[i].body
            /\ sent'[i].headers = sent[i].headers
            /\ sent'[i].via = sent[i].via
            /\ i # Len(sent) => sent'[i].answer = sent[i].answer
  BY <1>0, AnsweredKeeps
<1>2. phase' = to /\ UNCHANGED <<direct, limit, req, url, method, body, headers, open>>
  BY DEF Answered, Go, SameRequest
<1>3. EveryHopBrokerable' /\ HopsPinned'
  BY <1>1, <1>2 DEF IInv, EveryHopBrokerable, HopsPinned, Brokerable
<1>4. \A i \in 1 .. Len(sent) : SeeOtherBefore(i)' <=> SeeOtherBefore(i)
  <2> SUFFICES ASSUME NEW i \in 1 .. Len(sent)
               PROVE  SeeOtherBefore(i)' <=> SeeOtherBefore(i)
    OBVIOUS
  <2>1. \A j \in 1 .. i - 1 : j \in 1 .. Len(sent) /\ j # Len(sent)
    BY <1>1
  <2>2. \A j \in 1 .. i - 1 : sent'[j].answer = sent[j].answer
    BY <1>1, <2>1
  <2>3. QED BY <2>2 DEF SeeOtherBefore
<1>5. RequestPreserved'
  BY <1>1, <1>2, <1>4 DEF IInv, RequestPreserved
<1>6. CurrentRequest'
  <2>1. CASE to \in {"closing", "answered"}
    <3>1. Upcoming = Len(sent) /\ Upcoming' = Len(sent) /\ Len(sent) \in 1 .. Len(sent)
      BY <1>0, <1>1, <1>2, <2>1 DEF Upcoming
    <3>2. SeeOtherBefore(Upcoming)' <=> SeeOtherBefore(Upcoming)
      BY <1>1, <1>4, <3>1 DEF SeeOtherBefore
    <3>3. QED BY <1>0, <1>2, <3>2 DEF IInv, CurrentRequest, Phases
  <2>2. CASE to \in {"failing", "raised"}
    BY <1>2, <2>2 DEF CurrentRequest
  <2>3. QED BY <2>1, <2>2
<1>7. TypeOK'
  BY <1>0, <1>1, <1>2 DEF TypeOK, Phases
<1>8. ConnectionsClosed' /\ Unconnected'
  BY <1>0, <1>2 DEF IInv, ConnectionsClosed, Unconnected
<1>9. FinalUrlAnswered' /\ Underway'
  BY <1>0, <1>1, <1>2, EmptySeq DEF FinalUrlAnswered, Underway
<1>10. QED BY <1>3, <1>5, <1>6, <1>7, <1>8, <1>9 DEF IInv

(* When it goes on at a target, the loop's variables stand for the next hop. *)
LEMMA FollowKeeps ==
    ASSUME IInv, NEW loc \in Locations, Follow(loc) \/ FollowSeeOther(loc)
    PROVE  IInv'
<1>1. /\ phase = "answered" /\ phase' = "hop" /\ Brokerable(Join(url, loc))
      /\ url' = Join(url, loc) /\ UNCHANGED <<direct, limit, req, open, sent>>
  BY DEF Follow, FollowSeeOther, Go
<1>2. \/ Last.answer = "redirect" /\ UNCHANGED <<method, body, headers>>
      \/ /\ Last.answer = "see_other"
         /\ method' = "GET" /\ body' = "" /\ headers' = headers \ {"entity"}
  BY DEF Follow, FollowSeeOther
<1>3. TypeOK'
  <2>1. url' \in Urls
    BY <1>1, JoinIsUrl DEF IInv, TypeOK
  <2>2. QED BY <1>1, <1>2, <2>1 DEF IInv, TypeOK, Phases
<1>4. sent \in Seq(Hops) /\ Len(sent) \in Nat \ {0}
  <2>1. sent \in Seq(Hops) /\ sent # <<>>
    BY <1>1 DEF IInv, TypeOK, Underway
  <2>2. QED BY <2>1, EmptySeq
<1>5. \A i : SeeOtherBefore(i)' <=> SeeOtherBefore(i)
  BY <1>1 DEF SeeOtherBefore
<1>6. CurrentRequest'
  <2>1. Upcoming = Len(sent) /\ Upcoming' = Len(sent) + 1
    BY <1>1 DEF Upcoming
  <2>2. SeeOtherBefore(Upcoming)' <=> SeeOtherBefore(Len(sent) + 1)
    BY <1>1, <2>1 DEF SeeOtherBefore
  <2>3. SeeOtherBefore(Len(sent) + 1)
            <=> SeeOtherBefore(Len(sent)) \/ Last.answer = "see_other"
    <3>1. 1 .. (Len(sent) + 1) - 1 = (1 .. Len(sent) - 1) \cup {Len(sent)}
      BY <1>4
    <3>2. QED BY <3>1 DEF SeeOtherBefore, Last
  <2>4. IF SeeOtherBefore(Len(sent))
        THEN method = "GET" /\ body = "" /\ "entity" \notin headers
        ELSE method = req.method /\ body = req.body /\ headers = req.headers
    BY <1>1, <2>1 DEF IInv, CurrentRequest, Phases
  <2>5. QED BY <1>1, <1>2, <2>2, <2>3, <2>4 DEF CurrentRequest
<1>7. RequestPreserved'
  BY <1>1, <1>5 DEF IInv, RequestPreserved
<1>8. /\ EveryHopBrokerable' /\ HopsPinned' /\ ConnectionsClosed'
      /\ Unconnected'
  BY <1>1 DEF IInv, EveryHopBrokerable, HopsPinned, ConnectionsClosed,
     Unconnected, Brokerable
<1>9. Underway' /\ FinalUrlAnswered'
  BY <1>1 DEF Underway, FinalUrlAnswered, Brokerable
<1>10. QED BY <1>3, <1>6, <1>7, <1>8, <1>9 DEF IInv

(* The steps that leave the request and the hops sent as they are; those of *)
(* Decides leave the connection alone, too. *)
Decides ==
    \/ Start \/ HopRefused \/ TooManyRedirects \/ ConnectFails \/ Final
    \/ \E loc \in Locations : RefuseTarget(loc)

Aside == Decides \/ Close \/ \E answers \in SUBSET Addresses : Pin(answers)

LEMMA AsideKeeps == IInv /\ Aside => IInv'
<1> SUFFICES ASSUME IInv, Aside PROVE IInv'
  OBVIOUS
<1>1. UNCHANGED <<direct, limit, req, url, method, body, headers, sent>>
  BY DEF Aside, Decides, Start, HopRefused, TooManyRedirects, ConnectFails, Close,
     Final, Pin, RefuseTarget, Go, Unsent, SameRequest
<1>2. Len(sent) \in Nat
  BY LenProperties DEF IInv, TypeOK
<1>3. \A i : SeeOtherBefore(i)' <=> SeeOtherBefore(i)
  BY <1>1 DEF SeeOtherBefore
<1>4. EveryHopBrokerable' /\ HopsPinned' /\ RequestPreserved'
  BY <1>1, <1>3 DEF IInv, EveryHopBrokerable, HopsPinned, RequestPreserved,
     Brokerable
<1>5. CASE Decides
  <2>1. /\ phase' \in {"raised", "failing", "returned", "hop"} /\ UNCHANGED open
        /\ phase' \in {"raised", "returned", "hop"} =>
              phase \notin {"pinned", "waiting", "closing", "failing"}
        /\ phase' = "returned" => phase = "answered"
        /\ phase' = "hop" => phase = "start" /\ Brokerable(url)
    BY <1>5 DEF Decides, Start, HopRefused, TooManyRedirects, ConnectFails, Final,
       RefuseTarget, Go, Unsent
  <2>2. TypeOK'
    BY <1>1, <2>1 DEF IInv, TypeOK, Phases
  <2>3. ConnectionsClosed' /\ Unconnected' /\ FinalUrlAnswered' /\ Underway'
    BY <1>1, <2>1 DEF IInv, ConnectionsClosed, Unconnected, FinalUrlAnswered,
       Underway, Brokerable
  <2>4. CurrentRequest'
    <3>1. CASE phase' = "hop"
      <4>1. Upcoming' = Upcoming
        BY <1>1, <2>1, <3>1 DEF Upcoming
      <4>2. SeeOtherBefore(Upcoming)' <=> SeeOtherBefore(Upcoming)
        BY <1>1, <4>1 DEF SeeOtherBefore
      <4>3. QED BY <1>1, <2>1, <3>1, <4>2 DEF IInv, CurrentRequest, Phases
    <3>2. QED BY <2>1, <3>1 DEF CurrentRequest
  <2>5. QED BY <1>4, <2>2, <2>3, <2>4 DEF IInv
<1>6. ASSUME NEW answers \in SUBSET Addresses, Pin(answers) PROVE IInv'
  <2>1. PICK addr \in Pinned(answers) : open' = open \cup {[host |-> url.host, addr |-> addr]}
    BY <1>6 DEF Pin
  <2>2. /\ direct /\ MayHop /\ Brokerable(url) /\ phase = "hop" /\ phase' = "pinned"
        /\ addr \in Addresses /\ addr \in Global
    BY <1>6, <2>1 DEF Pin, Go, Reachable, Pinned
  <2>3. open = {} /\ url.host \in AppleHosts
    BY <2>2 DEF IInv, ConnectionsClosed, Brokerable
  <2> DEFINE c == [host |-> url.host, addr |-> addr]
  <2>4. c \in Connections /\ c.host = url.host /\ c.addr \in Global
    BY <2>2, <2>3 DEF Connections
  <2> HIDE DEF c
  <2>5. open' = {c}
    BY <2>1, <2>3 DEF c
  <2>6. TypeOK'
    BY <1>1, <2>2, <2>4, <2>5 DEF IInv, TypeOK, Phases
  <2>7. Upcoming' = Upcoming
    BY <1>1, <2>2 DEF Upcoming
  <2>8. SeeOtherBefore(Upcoming)' <=> SeeOtherBefore(Upcoming)
    BY <1>1, <2>7 DEF SeeOtherBefore
  <2>9. CurrentRequest'
    BY <1>1, <2>2, <2>8 DEF IInv, CurrentRequest, Phases
  <2>10. ConnectionsClosed' /\ Unconnected' /\ FinalUrlAnswered' /\ Underway'
    BY <1>1, <2>2, <2>4, <2>5 DEF ConnectionsClosed, Unconnected, FinalUrlAnswered,
       Underway, Brokerable, MayHop
  <2>11. QED BY <1>4, <2>6, <2>9, <2>10 DEF IInv
<1>7. CASE Close
  <2>1. /\ open' = {} /\ phase' \in {"answered", "raised"}
        /\ phase' = "answered" => phase = "closing"
    BY <1>7 DEF Close, Go
  <2>2. TypeOK'
    BY <1>1, <2>1 DEF IInv, TypeOK, Phases
  <2>3. ConnectionsClosed' /\ Unconnected' /\ FinalUrlAnswered' /\ Underway'
    BY <1>1, <2>1 DEF IInv, ConnectionsClosed, Unconnected, FinalUrlAnswered, Underway
  <2>4. CurrentRequest'
    <3>1. CASE phase' = "answered"
      <4>1. Upcoming' = Upcoming
        BY <1>1, <2>1, <3>1 DEF Upcoming
      <4>2. SeeOtherBefore(Upcoming)' <=> SeeOtherBefore(Upcoming)
        BY <1>1, <4>1 DEF SeeOtherBefore
      <4>3. QED BY <1>1, <2>1, <3>1, <4>2 DEF IInv, CurrentRequest, Phases
    <3>2. QED BY <2>1, <3>1 DEF CurrentRequest
  <2>5. QED BY <1>4, <2>2, <2>3, <2>4 DEF IInv
<1>8. QED BY <1>5, <1>6, <1>7 DEF Aside

(* The invariant holds at the start and is kept by every step. *)
LEMMA InitHolds == Init => IInv
<1> SUFFICES ASSUME Init PROVE IInv
  OBVIOUS
<1>1. sent = <<>> /\ sent \in Seq(Hops) /\ Len(sent) = 0
  BY EmptySeq DEF Init
<1>2. limit \in Nat
  BY LimitsAssumption DEF Init
<1>3. TypeOK
  BY <1>1, <1>2, InputAssumption DEF Init, TypeOK, Phases
<1>4. EveryHopBrokerable /\ RequestPreserved /\ HopsPinned
  BY <1>1 DEF Init, EveryHopBrokerable, RequestPreserved, HopsPinned
<1>5. FinalUrlAnswered /\ ConnectionsClosed /\ Unconnected /\ Underway
  BY <1>1 DEF Init, FinalUrlAnswered, ConnectionsClosed, Unconnected, Underway
<1>6. CurrentRequest
  BY <1>1 DEF Init, CurrentRequest, Upcoming, SeeOtherBefore
<1>7. QED BY <1>3, <1>4, <1>5, <1>6 DEF IInv

LEMMA Inductive == IInv /\ [Next]_vars => IInv'
<1> SUFFICES ASSUME IInv, [Next]_vars PROVE IInv'
  OBVIOUS
<1>1. CASE SendBrokered
  <2>1. MayHop /\ ~direct /\ Send("hop", headers) /\ phase = "hop"
    BY <1>1 DEF SendBrokered, Send, Go
  <2>2. Brokerable(url)
    BY <2>1 DEF IInv, Underway
  <2>3. QED BY <2>1, <2>2, SendKeeps
<1>2. CASE SendDirect
  <2> DEFINE hs == headers \ {"caller_auth"}
  <2>1. Send("pinned", hs) /\ phase = "pinned"
    BY <1>2 DEF SendDirect, Send, Go
  <2>2. Brokerable(url) /\ MayHop
    BY <2>1 DEF IInv, Underway
  <2>3. hs \in SUBSET headers /\ "caller_auth" \notin hs
        /\ hs \cup {"caller_auth"} = headers \cup {"caller_auth"}
    OBVIOUS
  <2> HIDE DEF hs
  <2>4. QED BY <2>1, <2>2, <2>3, SendKeeps
<1>3. CASE Receive \/ HopFails
  <2>1. PICK kind \in {"final", "redirect", "see_other", "lost"},
             to \in {"closing", "answered", "failing", "raised"} :
               Answered(kind, to) /\ (to \in {"answered", "raised"} => ~direct)
    <3>1. CASE Receive
      BY <3>1, Zenon DEF Receive
    <3>2. CASE HopFails
      BY <3>2 DEF HopFails
    <3>3. QED BY <1>3, <3>1, <3>2
  <2>2. QED BY <2>1, AnswerKeeps
<1>4. ASSUME NEW loc \in Locations, Follow(loc) \/ FollowSeeOther(loc) PROVE IInv'
  BY <1>4, FollowKeeps
<1>5. CASE Aside
  BY <1>5, AsideKeeps
<1>6. CASE UNCHANGED vars
  <2>1. /\ TypeOK' /\ EveryHopBrokerable' /\ HopsPinned' /\ ConnectionsClosed'
        /\ Unconnected' /\ FinalUrlAnswered' /\ Underway'
    BY <1>6 DEF vars, IInv, TypeOK, EveryHopBrokerable, HopsPinned,
       ConnectionsClosed, Unconnected, FinalUrlAnswered, Underway, Brokerable, MayHop
  <2>2. RequestPreserved' /\ CurrentRequest'
    BY <1>6 DEF vars, IInv, RequestPreserved, CurrentRequest, SeeOtherBefore, Upcoming
  <2>3. QED BY <2>1, <2>2 DEF IInv
<1>7. QED
  BY <1>1, <1>2, <1>3, <1>4, <1>5, <1>6 DEF Next, Step, Aside, Decides

LEMMA Invariance == Spec => []IInv
BY InitHolds, Inductive, PTL DEF Spec

(* The loop's variables and the record of hops keep their types, and a       *)
(* request sends at most limit + 1 hops, whatever limit is set (_brokered).    *)
THEOREM TypeCorrect == Spec => []TypeOK
<1>1. IInv => TypeOK BY DEF IInv
<1>2. QED BY <1>1, Invariance, PTL

(* "EVERY hop is brokered": no hop of either client leaves for anything but  *)
(* an https Apple host on its default port, whatever the redirects say.      *)
THEOREM EveryHopIsBrokerable == Spec => []EveryHopBrokerable
<1>1. IInv => EveryHopBrokerable BY DEF IInv
<1>2. QED BY <1>1, Invariance, PTL

(* A hop repeats the request until a 303 and is a bare GET ever after.       *)
THEOREM RequestIsPreserved == Spec => []RequestPreserved
<1>1. IInv => RequestPreserved BY DEF IInv
<1>2. QED BY <1>1, Invariance, PTL

(* request() labels the response with the URL of the hop that was answered.  *)
THEOREM AnsweredHopIsLabelled == Spec => []FinalUrlAnswered
<1>1. IInv => FinalUrlAnswered BY DEF IInv
<1>2. QED BY <1>1, Invariance, PTL

(* A direct hop goes over one connection, to a public address of the host of *)
(* its own URL, without the caller's own credentials; whatever the hop ends  *)
(* in, that connection is closed before the request goes on or is over.      *)
THEOREM DirectHopsArePinned == Spec => []DirectHopsPinned
<1>1. IInv => DirectHopsPinned BY DEF IInv, DirectHopsPinned
<1>2. QED BY <1>1, Invariance, PTL
=============================================================================
