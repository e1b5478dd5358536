-------------------------- MODULE MC_CallerToken --------------------------
(* Two requests at once, one of them with a worker of its fan-out. *)
EXTENDS CallerToken, TLC

CONSTANTS r1, r2, w1

MCThreads == {r1, r2, w1}
MCLeader == (r1 :> r1) @@ (r2 :> r2) @@ (w1 :> r1)
=============================================================================
