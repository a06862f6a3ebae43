------------------------------- MODULE Inbox -------------------------------
(***************************************************************************)
(* What the watchlist promises its users about the events of one symbol,   *)
(* without requests, rows or checkpoints: an event recorded while a user   *)
(* watches the symbol stays pending for that user until it is shown, or    *)
(* until the user stops watching.  Nothing else takes it away, and what    *)
(* was shown is never owed again.                                          *)
(***************************************************************************)
CONSTANTS
    Users,
    Events

VARIABLES
    watching,   \* the users who have the symbol on their list
    inbox       \* per user and event: "none" before the event is recorded,
                \* "pending", "shown", or "excused" when nothing is owed

inboxVars == <<watching, inbox>>

Recorded(u) == {e \in Events : inbox[u][e] # "none"}
Pending(u) == {e \in Events : inbox[u][e] = "pending"}

Init ==
    /\ watching = {}
    /\ inbox = [u \in Users |-> [e \in Events |-> "none"]]

Watch(u) ==
    /\ watching' = watching \cup {u}
    /\ UNCHANGED inbox

Leave(u) ==
    /\ u \in watching
    /\ watching' = watching \ {u}
    /\ inbox' = [inbox EXCEPT ![u] = [e \in Events |->
           IF e \in Pending(u) THEN "excused" ELSE inbox[u][e]]]

\* An event is recorded.  The users in late are those it comes too late for:
\* they have already been told about a time after it.
Record(e, late) ==
    /\ \A u \in Users : inbox[u][e] = "none"
    /\ inbox' = [u \in Users |-> [inbox[u] EXCEPT ![e] =
           IF u \in watching \ late THEN "pending" ELSE "excused"]]
    /\ UNCHANGED watching

\* The user is shown some of what is recorded, maybe not for the first time.
Show(u, S) ==
    /\ S \subseteq Recorded(u)
    /\ inbox' = [inbox EXCEPT ![u] = [e \in Events |->
           IF e \in S THEN "shown" ELSE inbox[u][e]]]
    /\ UNCHANGED watching

Next ==
    \/ \E u \in Users : Watch(u) \/ Leave(u)
    \/ \E u \in Users : \E S \in SUBSET Events : Show(u, S)
    \/ \E e \in Events, late \in SUBSET Users : Record(e, late)

Spec == Init /\ [][Next]_inboxVars
-----------------------------------------------------------------------------
(* What the promise amounts to for a user                                   *)

InboxOK ==
    /\ watching \subseteq Users
    /\ inbox \in [Users -> [Events -> {"none", "pending", "shown", "excused"}]]
    /\ \A u \in Users : Pending(u) # {} => u \in watching

\* What is owed is dropped by nothing: an event that is pending for a user
\* stays so until it is shown to that user, or until the user leaves.
DropsNothing ==
    \A u \in Users : \A e \in Pending(u) :
        \/ inbox'[u][e] \in {"pending", "shown"}
        \/ u \in watching /\ u \notin watching'

NothingOwedIsDropped == [][DropsNothing]_inboxVars

\* What is settled stays settled: what was shown to a user, or came too late,
\* or was given up by leaving, is never pending for that user again.
KeepsSettled ==
    \A u \in Users : \A e \in Recorded(u) \ Pending(u) :
        /\ inbox'[u][e] \in {"shown", "excused"}
        /\ inbox[u][e] = "shown" => inbox'[u][e] = "shown"

SettledStaysSettled == [][KeepsSettled]_inboxVars
=============================================================================
