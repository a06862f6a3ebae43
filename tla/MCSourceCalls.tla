--------------------------- MODULE MCSourceCalls ---------------------------
(* SourceCalls at the deployed constants, one tick being 6 seconds: a      *)
(* threshold of 3, cooldowns of 30 s to 300 s, a 12 s deadline.            *)
EXTENDS SourceCalls

CONSTANTS scheduler, populate1, populate2

MCCalls == {scheduler, populate1, populate2}
=============================================================================
