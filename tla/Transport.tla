----------------------------- MODULE Transport -----------------------------
(***************************************************************************)
(* One DAV request of apple_mcp/tessera_caldav.py: _brokered follows the   *)
(* redirects of iCloud hop by hop, and _tessera_request sends each hop,    *)
(* either through Tessera (TesseraCalDAVClient) or straight to a pinned    *)
(* address of the Apple host (DirectCalDAVClient).                         *)
(*                                                                         *)
(* A direct hop is cut at the calls it makes: it resolves and pins, then   *)
(* sends, and closes its connection in a `finally` before _brokered looks  *)
(* at the answer.  Status codes, headers and addresses are reduced to the  *)
(* kinds the code tells apart; the network chooses every answer.           *)
(***************************************************************************)
EXTENDS Integers, Sequences

CONSTANTS
    AppleHosts,     \* the iCloud roots and the pNN- partition hosts
    OtherHosts,
    Paths,
    Requests,       \* the requests caldav, contacts and create_event make
    Locations,      \* the Location headers the network may send
    Addresses,      \* IP addresses DNS may return
    Global, V4,     \* those that are public, and those of IPv4
    Limits          \* values of APPLE_MCP_MAX_REDIRECTS, negative ones too

ASSUME LimitsAssumption == Limits \subseteq Int

Urls == [https : BOOLEAN, userinfo : BOOLEAN, host : AppleHosts \cup OtherHosts,
         port : {"default", "other", "malformed"}, path : Paths]

\* A Location is absolute, or relative: then only its path counts.
HeaderKinds == {"entity", "caller_auth", "other"}

ASSUME InputAssumption ==
    /\ \A r \in Requests : r.url \in Urls /\ r.headers \subseteq HeaderKinds
    /\ Locations \subseteq [relative : BOOLEAN, url : Urls]

VARIABLES
    direct,     \* which of the two clients this is
    limit,      \* its _max_redirects
    req,        \* the arguments of _brokered
    phase,
    url,        \* upstream_url of the loop
    method, body, headers,      \* current_method, current_body, ...
    open,       \* the direct client's open connections
    sent        \* every hop sent, with the kind of answer it got

vars == <<direct, limit, req, phase, url, method, body, headers, open, sent>>

Phases == {"start", "hop", "pinned", "waiting", "closing", "failing",
           "answered", "returned", "raised"}

Connections == [host : AppleHosts \cup OtherHosts, addr : Addresses]

Brokerable(u) ==                            \* _require_brokerable_apple_url
    /\ u.https
    /\ ~u.userinfo
    /\ u.host \in AppleHosts
    /\ u.port = "default"

Join(base, loc) ==                          \* urllib.parse.urljoin
    IF loc.relative THEN [base EXCEPT !.path = loc.url.path] ELSE loc.url

Init ==
    /\ direct \in BOOLEAN
    /\ \E n \in Limits : limit = IF n < 0 THEN 0 ELSE n
    /\ req \in Requests
    /\ phase = "start"
    /\ url = req.url
    /\ method = req.method
    /\ body = req.body
    /\ headers = req.headers
    /\ open = {}
    /\ sent = <<>>

Go(from, to) == phase = from /\ phase' = to /\ UNCHANGED <<direct, limit, req>>

SameRequest == UNCHANGED <<url, method, body, headers>>

Unsent == SameRequest /\ UNCHANGED <<open, sent>>

Start ==
    /\ Go("start", IF Brokerable(url) THEN "hop" ELSE "raised")
    /\ Unsent

Send(from, hs) ==
    /\ Go(from, "waiting")
    /\ sent' = Append(sent, [url |-> url, method |-> method, body |-> body,
                             headers |-> hs, via |-> open, answer |-> "none"])
    /\ SameRequest /\ UNCHANGED open

\* Mutant: one hop too many.
MayHopAgain == Len(sent) <= limit + 1

\* A hop is left in the loop `for _ in range(max_redirects + 1)`.
MayHop == Len(sent) <= limit

SendBrokered ==
    /\ ~direct /\ MayHop
    /\ Send("hop", headers)

\* Every address of one resolution must be public; IPv4 is preferred.
Pinned(answers) ==
    IF answers \cap V4 # {} THEN answers \cap V4 ELSE answers

\* Mutant: one public address is enough.
ReachableOnce(answers) == answers \cap Global # {}

Reachable(answers) == answers # {} /\ answers \subseteq Global

\* The URL is checked again, its host resolved, a pool made for one address.
Pin(answers) ==
    /\ direct /\ MayHop /\ Brokerable(url)
    /\ Reachable(answers)
    /\ Go("hop", "pinned")
    /\ \E addr \in Pinned(answers) :
          open' = open \cup {[host |-> url.host, addr |-> addr]}
    /\ SameRequest /\ UNCHANGED sent

\* The caller's own credentials are dropped.
SendDirect == Send("pinned", headers \ {"caller_auth"})

\* Before there is a connection: no caller token, or DNS fails or is refused.
HopRefused ==
    /\ MayHop
    /\ Go("hop", "raised")
    /\ Unsent

\* The pinned address cannot be reached.
ConnectFails ==
    /\ Go("pinned", "failing")
    /\ Unsent

\* Mutant: the request starts over.
StartOver ==
    /\ ~MayHop
    /\ Go("hop", "start")
    /\ url' = req.url /\ sent' = <<>>
    /\ UNCHANGED <<method, body, headers, open>>

TooManyRedirects ==
    /\ ~MayHop
    /\ Go("hop", "raised")
    /\ Unsent

Last == sent[Len(sent)]

\* The last hop is answered, or its answer lost.
Answered(kind, to) ==
    /\ Go("waiting", to)
    /\ sent' = [sent EXCEPT ![Len(sent)].answer = kind]
    /\ SameRequest /\ UNCHANGED open

Receive ==
    \E kind \in {"final", "redirect", "see_other"} :
        Answered(kind, IF direct THEN "closing" ELSE "answered")

HopFails == Answered("lost", IF direct THEN "failing" ELSE "raised")

\* Mutant: without the `finally`, a failing hop leaves its connection open.
CloseAnswered ==
    /\ \/ Go("closing", "answered") /\ open' = {}
       \/ Go("failing", "raised") /\ UNCHANGED open
    /\ SameRequest /\ UNCHANGED sent

\* `finally: pool.close()`, on the way out with an answer or an exception.
Close ==
    /\ Go("closing", "answered") \/ Go("failing", "raised")
    /\ open' = {}
    /\ SameRequest /\ UNCHANGED sent

\* Mutant: the response is labelled with the URL first asked for.
FinalAsAsked ==
    /\ Go("answered", "returned")
    /\ url' = req.url
    /\ UNCHANGED <<method, body, headers, open, sent>>

\* No redirect, or one without a Location: the response is the result.
Final ==
    /\ Go("answered", "returned")
    /\ Unsent

RefuseTarget(loc) ==
    /\ Go("answered", "raised")
    /\ Last.answer \in {"redirect", "see_other"}
    /\ ~Brokerable(Join(url, loc))
    /\ Unsent

\* Mutant: a target is followed unchecked.
FollowAnywhere(loc) ==
    /\ Go("answered", "hop")
    /\ Last.answer = "redirect"
    /\ url' = Join(url, loc)
    /\ UNCHANGED <<method, body, headers, open, sent>>

\* 301, 302, 307 and 308 repeat the request at the target.
Follow(loc) ==
    /\ Go("answered", "hop")
    /\ Last.answer = "redirect"
    /\ Brokerable(Join(url, loc))
    /\ url' = Join(url, loc)
    /\ UNCHANGED <<method, body, headers, open, sent>>

\* Mutant: the headers about the body are kept.
FollowSeeOtherAsIs(loc) ==
    /\ Go("answered", "hop")
    /\ Last.answer = "see_other"
    /\ Brokerable(Join(url, loc))
    /\ url' = Join(url, loc)
    /\ method' = "GET"
    /\ body' = ""
    /\ UNCHANGED <<headers, open, sent>>

\* 303 turns it into a GET without the body and the headers about it.
FollowSeeOther(loc) ==
    /\ Go("answered", "hop")
    /\ Last.answer = "see_other"
    /\ Brokerable(Join(url, loc))
    /\ url' = Join(url, loc)
    /\ method' = "GET"
    /\ body' = ""
    /\ headers' = headers \ {"entity"}
    /\ UNCHANGED <<open, sent>>

Step ==
    \/ Start \/ SendBrokered \/ HopRefused \/ TooManyRedirects
    \/ \E answers \in SUBSET Addresses : Pin(answers)
    \/ SendDirect \/ ConnectFails \/ Receive \/ HopFails \/ Close \/ Final
    \/ \E loc \in Locations :
          RefuseTarget(loc) \/ Follow(loc) \/ FollowSeeOther(loc)

Next == Step

Spec == Init /\ [][Next]_vars

\* The thread runs, and the request timeout ends every hop.
FairSpec == Spec /\ WF_vars(Next)

-----------------------------------------------------------------------------
Hops ==
    [url : Urls,
     method : {r.method : r \in Requests} \cup {"GET"},
     body : {r.body : r \in Requests} \cup {""},
     headers : SUBSET HeaderKinds,
     via : SUBSET Connections,
     answer : {"none", "final", "redirect", "see_other", "lost"}]

TypeOK ==
    /\ direct \in BOOLEAN
    /\ limit \in Nat
    /\ req \in Requests
    /\ phase \in Phases
    /\ url \in Urls
    /\ method \in {req.method, "GET"}
    /\ body \in {req.body, ""}
    /\ headers \subseteq req.headers
    /\ open \subseteq Connections
    /\ sent \in Seq(Hops)
    /\ Len(sent) <= limit + 1

(* "EVERY hop is brokered" to an https Apple host on the default port: the   *)
(* first URL and every redirect target alike, relative Locations included.   *)
EveryHopBrokerable == \A i \in 1 .. Len(sent) : Brokerable(sent[i].url)

(* A hop repeats the caller's request as it was given, method, body and      *)
(* headers, until a 303; from then on, however many redirects follow, it is  *)
(* a GET that carries no body and says nothing about one.                    *)
SeeOtherBefore(i) == \E j \in 1 .. i - 1 : sent[j].answer = "see_other"

RequestPreserved ==
    \A i \in 1 .. Len(sent) :
        LET hop == sent[i]
        IN  IF SeeOtherBefore(i)
            THEN hop.method = "GET" /\ hop.body = "" /\ "entity" \notin hop.headers
            ELSE /\ hop.method = req.method /\ hop.body = req.body
                 /\ hop.headers \cup {"caller_auth"} = req.headers \cup {"caller_auth"}

(* The final URL that request() puts on the response, against which caldav   *)
(* resolves the hrefs in it, is the URL of the hop that was answered.        *)
FinalUrlAnswered ==
    phase = "returned" => sent # <<>> /\ sent[Len(sent)].url = url

HopsPinned ==
    direct => \A i \in 1 .. Len(sent) :
                 /\ \E c \in Connections :
                       sent[i].via = {c} /\ c.host = sent[i].url.host /\ c.addr \in Global
                 /\ "caller_auth" \notin sent[i].headers

ConnectionsClosed ==
    phase \notin {"pinned", "waiting", "closing", "failing"} => open = {}

(* A direct hop goes out over one connection, made for this hop: to a public *)
(* address, resolved for the host of the hop's own URL and not for one       *)
(* before a redirect, and never with credentials of the caller.  By the time *)
(* the answer is looked at, or the request has failed on whichever of its    *)
(* paths, that connection is closed.                                         *)
DirectHopsPinned == HopsPinned /\ ConnectionsClosed

(* Even a redirect loop ends, in "too many CalDAV partition redirects", with *)
(* any limit an operator may set, none (0) and a negative one included.      *)
RequestEnds == <>(phase \in {"returned", "raised"})
=============================================================================
