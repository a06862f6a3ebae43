---------------------------- MODULE MCScheduler ----------------------------
(* Two symbols; the source knows both, or only the second one.             *)
EXTENDS Scheduler

AllKnown == 1..2
FirstUnknown == {2}
=============================================================================
