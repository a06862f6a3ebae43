----------------------------- MODULE MCAdapter -----------------------------
(* One tick is 4 seconds: requests of 8 s under a deadline of 12 s.        *)
EXTENDS Adapter

CONSTANTS scheduler, populate

MCFetches == {scheduler, populate}
=============================================================================
