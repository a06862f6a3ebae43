---------------------------- MODULE MCDailyBars ----------------------------
(* Started in session 2, with one more session to come.                    *)
EXTENDS DailyBars

CONSTANTS scheduler, populate, viewer
=============================================================================
