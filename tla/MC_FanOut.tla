----------------------------- MODULE MC_FanOut -----------------------------
(* Up to four calendars and two workers: some wait in the pool's queue. *)
EXTENDS FanOut

CONSTANTS res1, res2, err

MCResults == {res1, res2}
=============================================================================
