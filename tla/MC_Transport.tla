--------------------------- MODULE MC_Transport ---------------------------
(* The root, one partition host and a stranger; redirect loops of 3 hops,  *)
(* and limits that allow no redirect at all.                               *)
EXTENDS Transport

Url(h, p) == [https |-> TRUE, userinfo |-> FALSE, host |-> h,
              port |-> "default", path |-> p]

Bad == {[Url("root", "a") EXCEPT !.https = FALSE],
        [Url("root", "a") EXCEPT !.userinfo = TRUE],
        [Url("root", "a") EXCEPT !.port = "other"],
        [Url("root", "a") EXCEPT !.port = "malformed"],
        Url("stranger", "a")}

MCRequests ==
    {[url |-> u, method |-> "PUT", body |-> "ics",
      headers |-> {"entity", "caller_auth", "other"}] :
        u \in {Url("root", "a")} \cup Bad}
    \cup {[url |-> Url("p01", "a"), method |-> "PROPFIND", body |-> "xml",
           headers |-> {"other"}]}

MCLocations ==
    {[relative |-> FALSE, url |-> u] :
        u \in {Url("p01", "a"), Url("root", "b")} \cup Bad}
    \cup {[relative |-> TRUE, url |-> Url("stranger", "b")]}

\* A negative setting, no redirects, and two.
MCLimits == {-1, 0, 2}
=============================================================================
