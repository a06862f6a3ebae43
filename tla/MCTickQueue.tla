---------------------------- MODULE MCTickQueue ----------------------------
(* Reconciliations of up to five ticks, started at least two ticks apart.  *)
EXTENDS TickQueue, TLC

CONSTANTS p1, p2, p3, p4, c1, c2, c3

Symmetry == Permutations({p1, p2, p3, p4}) \cup Permutations({c1, c2, c3})
=============================================================================
