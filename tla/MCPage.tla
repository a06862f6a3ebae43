------------------------------- MODULE MCPage -------------------------------
(* Two GETs of the tab on their way at once, an event, an add and a         *)
(* removal, one fault.                                                      *)
EXTENDS Page

CONSTANTS user, e1
=============================================================================
