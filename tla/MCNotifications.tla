-------------------------- MODULE MCNotifications --------------------------
(* Two tabs of alice, the first of which may stop reading; bob watches     *)
(* without a page open.  Two events, fanned out at the same time.          *)
EXTENDS Notifications

CONSTANTS alice, bob, a1, a2, e1, e2

MCOwner == [s \in {a1, a2} |-> alice]

MCWatchers == {{alice, bob}}
=============================================================================
