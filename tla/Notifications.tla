---------------------------- MODULE Notifications ----------------------------
(***************************************************************************)
(* notifications.py and the /ws/notifications endpoint of main.py: the     *)
(* registry of live sockets, and the fan-out of an event, once its poll    *)
(* (pipeline.py) has committed it, to the sockets of every watcher.  A     *)
(* fan-out awaits every send, so sockets come, stall, go and die in the    *)
(* middle of it, other fan-outs run beside it, and the process may end.    *)
(***************************************************************************)
EXTENDS FiniteSets

CONSTANTS
    Users,
    Sockets,
    Owner,      \* the user whose token each socket was opened with
    Events,     \* significant events that polls detect
    Watchers,   \* the sets of users that may be watching when one is fanned out
    Stallers    \* the sockets whose browser may stop reading

ASSUME OwnerAssumption == Owner \in [Sockets -> Users]
ASSUME WatchersAssumption == Watchers \subseteq SUBSET Users
ASSUME StallersAssumption == Stallers \subseteq Sockets

VARIABLES
    registry,   \* manager._connections: user -> sockets; a user with none
                \* has no entry
    endpoint,   \* per socket, where its ws_notifications coroutine is
    peer,       \* per socket, the browser: "reading", "stalled" or "gone"
    fanout,     \* per event: [at, todo, conns, dead]
    reached,    \* history: per event, the sockets that were sent the message
    owed        \* history: per event, the sockets its watchers had in the
                \* registry when the watchers were read

vars == <<registry, endpoint, peer, fanout, reached, owed>>

Connections(u) == IF u \in DOMAIN registry THEN registry[u] ELSE {}

\* A socket the server still serves and whose browser is still there.
Live(s) == endpoint[s] = "serving" /\ peer[s] # "gone"

NoFanout == [at |-> "detected", todo |-> {}, conns |-> {}, dead |-> {}]

Init ==
    /\ registry = [u \in {} |-> {}]
    /\ endpoint = [s \in Sockets |-> "new"]
    /\ peer = [s \in Sockets |-> "reading"]
    /\ fanout = [e \in Events |-> NoFanout]
    /\ reached = [e \in Events |-> {}]
    /\ owed = [e \in Events |-> {}]

\* connect(): accept is awaited before the socket is registered.
Accept(s) ==
    /\ endpoint[s] = "new"
    /\ endpoint' = [endpoint EXCEPT ![s] = "accepted"]
    /\ UNCHANGED <<registry, peer, fanout, reached, owed>>

Register(s) ==
    LET u == Owner[s]
    IN  /\ endpoint[s] = "accepted"
        /\ endpoint' = [endpoint EXCEPT ![s] = "serving"]
        /\ registry' = [v \in DOMAIN registry \cup {u} |->
               IF v = u THEN Connections(u) \cup {s} ELSE registry[v]]
        /\ UNCHANGED <<peer, fanout, reached, owed>>

\* A browser that stops reading leaves a send to it waiting: nothing in the
\* code bounds it.
Stall(s) ==
    /\ s \in Stallers /\ Live(s) /\ peer[s] = "reading"
    /\ peer' = [peer EXCEPT ![s] = "stalled"]
    /\ UNCHANGED <<registry, endpoint, fanout, reached, owed>>

Resume(s) ==
    /\ peer[s] = "stalled"
    /\ peer' = [peer EXCEPT ![s] = "reading"]
    /\ UNCHANGED <<registry, endpoint, fanout, reached, owed>>

PeerLeaves(s) ==
    /\ endpoint[s] \in {"accepted", "serving"} /\ peer[s] # "gone"
    /\ peer' = [peer EXCEPT ![s] = "gone"]
    /\ UNCHANGED <<registry, endpoint, fanout, reached, owed>>

\* Mutant of Without: one dead socket takes the user's whole entry along.
WithoutUser(S) ==
    [u \in {v \in DOMAIN registry : registry[v] \cap S = {}} |-> registry[u]]

\* The registry after disconnect() of all the sockets in S: a user left with
\* none loses the entry.
Without(S) ==
    [u \in {v \in DOMAIN registry : ~(registry[v] \subseteq S)} |-> registry[u] \ S]

\* receive_text raises WebSocketDisconnect: the endpoint unregisters its socket.
EndpointEnds(s) ==
    /\ endpoint[s] = "serving" /\ peer[s] = "gone"
    /\ endpoint' = [endpoint EXCEPT ![s] = "ended"]
    /\ registry' = Without({s})
    /\ UNCHANGED <<peer, fanout, reached, owed>>

\* receive_text raises anything else (it cannot read a binary frame): the
\* endpoint dies, the server closes the socket, and the registry keeps it.
EndpointFails(s) ==
    /\ endpoint[s] = "serving"
    /\ endpoint' = [endpoint EXCEPT ![s] = "ended"]
    /\ peer' = [peer EXCEPT ![s] = "gone"]
    /\ UNCHANGED <<registry, fanout, reached, owed>>

\* poll_and_detect commits the event ...
Commit(e) ==
    /\ fanout[e].at = "detected"
    /\ fanout' = [fanout EXCEPT ![e].at = "committed"]
    /\ UNCHANGED <<registry, endpoint, peer, reached, owed>>

\* ... and calls notify_significant_event, which reads the watchers once.
Notify(e, watchers) ==
    /\ fanout[e].at = "committed"
    /\ fanout' = [fanout EXCEPT ![e].at = "between", ![e].todo = watchers]
    /\ owed' = [owed EXCEPT ![e] = UNION {Connections(u) : u \in watchers}]
    /\ UNCHANGED <<registry, endpoint, peer, reached>>

\* Mutant of Push: a watcher without sockets ends the fan-out.
PushReturns(e, u) ==
    /\ fanout[e].at = "between" /\ u \in fanout[e].todo
    /\ fanout' = [fanout EXCEPT ![e] =
           IF Connections(u) = {}
           THEN [@ EXCEPT !.todo = {}]
           ELSE [@ EXCEPT !.at = "sending", !.todo = fanout[e].todo \ {u},
                          !.conns = Connections(u)]]
    /\ UNCHANGED <<registry, endpoint, peer, reached, owed>>

\* push() to the next watcher lists the watcher's sockets before its first
\* send; with none it is over at once.
Push(e, u) ==
    /\ fanout[e].at = "between" /\ u \in fanout[e].todo
    /\ fanout' = [fanout EXCEPT ![e] =
           IF Connections(u) = {}
           THEN [@ EXCEPT !.todo = fanout[e].todo \ {u}]
           ELSE [@ EXCEPT !.at = "sending", !.todo = fanout[e].todo \ {u},
                          !.conns = Connections(u)]]
    /\ UNCHANGED <<registry, endpoint, peer, reached, owed>>

\* A send to a socket whose browser is gone may still appear to succeed; one
\* to a socket whose endpoint ended raises.
Send(e, s) ==
    /\ fanout[e].at = "sending" /\ s \in fanout[e].conns
    /\ endpoint[s] = "serving" /\ peer[s] # "stalled"
    /\ fanout' = [fanout EXCEPT ![e].conns = @ \ {s}]
    /\ reached' = [reached EXCEPT ![e] = @ \cup {s}]
    /\ UNCHANGED <<registry, endpoint, peer, owed>>

\* Mutants of SendRaises: the exception leaves the loop; the send is tried
\* again.
SendRaisesAborts(e, s) ==
    /\ fanout[e].at = "sending" /\ s \in fanout[e].conns
    /\ ~Live(s)
    /\ fanout' = [fanout EXCEPT ![e].conns = {}, ![e].dead = @ \cup {s}]
    /\ UNCHANGED <<registry, endpoint, peer, reached, owed>>

SendRaisesRetries(e, s) ==
    /\ fanout[e].at = "sending" /\ s \in fanout[e].conns
    /\ ~Live(s)
    /\ fanout' = [fanout EXCEPT ![e].dead = @ \cup {s}]
    /\ UNCHANGED <<registry, endpoint, peer, reached, owed>>

SendRaises(e, s) ==
    /\ fanout[e].at = "sending" /\ s \in fanout[e].conns
    /\ ~Live(s)
    /\ fanout' = [fanout EXCEPT ![e].conns = @ \ {s}, ![e].dead = @ \cup {s}]
    /\ UNCHANGED <<registry, endpoint, peer, reached, owed>>

\* Mutant of PushEnds: nothing is dropped.
PushEndsKeepsDead(e) ==
    /\ fanout[e].at = "sending" /\ fanout[e].conns = {}
    /\ fanout' = [fanout EXCEPT ![e] =
           [@ EXCEPT !.at = "between", !.dead = {}]]
    /\ UNCHANGED <<registry, endpoint, peer, reached, owed>>

\* The end of push(): the sockets that raised are dropped.
PushEnds(e) ==
    /\ fanout[e].at = "sending" /\ fanout[e].conns = {}
    /\ registry' = Without(fanout[e].dead)
    /\ fanout' = [fanout EXCEPT ![e] =
           [@ EXCEPT !.at = "between", !.dead = {}]]
    /\ UNCHANGED <<endpoint, peer, reached, owed>>

NotifyEnds(e) ==
    /\ fanout[e].at = "between" /\ fanout[e].todo = {}
    /\ fanout' = [fanout EXCEPT ![e].at = "done"]
    /\ UNCHANGED <<registry, endpoint, peer, reached, owed>>

\* The process dies, or stop_scheduler cancels its poll, and lifespan ends: the
\* connections and whatever fan-out is under way go with it.
ProcessEnds ==
    /\ registry' = [u \in {} |-> {}]
    /\ endpoint' = [s \in Sockets |->
           IF endpoint[s] = "new" THEN "new" ELSE "ended"]
    /\ peer' = [s \in Sockets |-> IF endpoint[s] = "new" THEN peer[s] ELSE "gone"]
    /\ fanout' = [e \in Events |->
           IF fanout[e].at \in {"detected", "done"} THEN fanout[e]
           ELSE [NoFanout EXCEPT !.at = "lost"]]
    /\ LET over == {e \in Events : fanout[e].at = "done"}
       IN  /\ reached' = [e \in Events |-> IF e \in over THEN reached[e] ELSE {}]
           /\ owed' = [e \in Events |-> IF e \in over THEN owed[e] ELSE {}]

Next ==
    \/ \E s \in Sockets :
         \/ Accept(s) \/ Register(s) \/ Stall(s) \/ Resume(s) \/ PeerLeaves(s)
         \/ EndpointEnds(s) \/ EndpointFails(s)
    \/ ProcessEnds
    \/ \E e \in Events :
         \/ Commit(e)
         \/ \E W \in Watchers : Notify(e, W)
         \/ \E u \in Users : Push(e, u)
         \/ \E s \in Sockets : Send(e, s) \/ SendRaises(e, s)
         \/ PushEnds(e) \/ NotifyEnds(e)

Spec == Init /\ [][Next]_vars

\* The event loop runs every coroutine that can go on; what browsers do is up
\* to them.
Fairness ==
    \A e \in Events :
        /\ WF_vars(\E W \in Watchers : Notify(e, W))
        /\ \A u \in Users : WF_vars(Push(e, u))
        /\ \A s \in Sockets : WF_vars(Send(e, s)) /\ WF_vars(SendRaises(e, s))
        /\ WF_vars(PushEnds(e)) /\ WF_vars(NotifyEnds(e))

FairSpec == Spec /\ Fairness
-----------------------------------------------------------------------------
(* Properties *)

Fanout ==
    [at : {"detected", "committed", "between", "sending", "done", "lost"},
     todo : SUBSET Users, conns : SUBSET Sockets, dead : SUBSET Sockets]

TypeOK ==
    /\ DOMAIN registry \subseteq Users
    /\ \A u \in DOMAIN registry :
         registry[u] # {} /\ \A s \in registry[u] : s \in Sockets /\ Owner[s] = u
    /\ endpoint \in [Sockets -> {"new", "accepted", "serving", "ended"}]
    /\ peer \in [Sockets -> {"reading", "stalled", "gone"}]
    /\ fanout \in [Events -> Fanout]
    /\ reached \in [Events -> SUBSET Sockets]
    /\ owed \in [Events -> SUBSET Sockets]

\* However pushes and endpoints interleave, no clean-up takes a live socket
\* out of the registry: a browser that stays connected keeps being notified.
LiveStaysRegistered ==
    \A s \in Sockets : Live(s) => s \in Connections(Owner[s])

\* A fan-out that ended has reached every socket of a watcher that was there
\* when the watchers were read, and still is: one that raises does not cost the
\* others their message.  (One that did not end, because the process did, is
\* not taken up again.)
PresentAreReached ==
    \A e \in Events : fanout[e].at = "done" =>
        \A s \in owed[e] : Live(s) => s \in reached[e]

\* A fan-out comes to its end, unless the process does before, or it waits for
\* a browser that has stopped reading: other sockets that fail or leave, and
\* other fan-outs, do not keep it from it.
FanoutEnds ==
    \A e \in Events :
        [](fanout[e].at = "committed" =>
           <>(\/ fanout[e].at \in {"done", "lost"}
              \/ \E s \in fanout[e].conns : peer[s] = "stalled"))

\* A socket that failed for good (its endpoint ended) is gone from the
\* registry once a fan-out that had it before it is over, whatever else
\* registers and unregisters meanwhile.
DeadIsDropped ==
    \A e \in Events : fanout[e].at = "done" =>
        \A s \in owed[e] : endpoint[s] = "ended" /\ s \notin reached[e]
            => s \notin Connections(Owner[s])
=============================================================================
