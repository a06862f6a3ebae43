---------------------------- MODULE WatchlistFeed ----------------------------
(***************************************************************************)
(* The diff since the last visit: polls of one symbol (pipeline.py,        *)
(* poll_and_detect) append significant events, GET /api/watchlist          *)
(* (routers/watchlist.py) shows each user the events later than that       *)
(* user's checkpoint and advances it.  Polls are coroutines of the event   *)
(* loop, requests run in worker threads, each statement sees what is       *)
(* committed: everything between two of their steps interleaves.           *)
(*                                                                         *)
(* A timestamp is the number of timestamps taken so far, so that two are   *)
(* never equal and their order is the order in which they were taken.      *)
(***************************************************************************)
EXTENDS Integers, Sequences, FiniteSets

CONSTANTS
    Polls,      \* polls of the symbol that may overlap: scheduler, populate
    Users,
    Gets,       \* GET requests that may overlap
    Owner,      \* the user each of them is made by
    Removers,   \* the users who take the symbol off their list again
    MaxStamp,   \* bound: no poll resolves, no row is added and the process
                \* does not restart past this stamp (requests go on)
    MaxId       \* bound on the row ids of watchlist_items

ASSUME OwnerAssumption == Owner \in [Gets -> Users]
ASSUME RemoversAssumption == Removers \subseteq Users
ASSUME BoundAssumption == MaxStamp \in Nat /\ MaxId \in Nat

VARIABLES
    now,        \* the last timestamp taken
    usable,     \* the price tick: "missing", or is it fit to be shown?
    events,     \* significant_events, as ts in the order of commit
    rows,       \* watchlist_items of the symbol: id -> [user, added, seen]
    poll,       \* per poll: [at, ts, usable]
    get,        \* per request: [at, id, seen, found, stamp]
    answered,   \* history: per user, the events a GET has shown
    late        \* history: per user, the events committed when overtaken

vars == <<now, usable, events, rows, poll, get, answered, late>>

IdlePoll == [at |-> "idle", ts |-> 0, usable |-> FALSE]
IdleGet == [at |-> "idle", id |-> 0, seen |-> 0, found |-> {}, stamp |-> 0]

Ids == DOMAIN rows
RowsOf(u) == {i \in Ids : rows[i].user = u}
Log == 1..Len(events)

Init ==
    /\ now = 0
    /\ usable = "missing"
    /\ events = <<>>
    /\ rows = [i \in {} |-> 0]
    /\ poll = [p \in Polls |-> IdlePoll]
    /\ get = [g \in Gets |-> IdleGet]
    /\ answered = [u \in Users |-> {}]
    /\ late = [u \in Users |-> {}]

\* Mutant of Resolve: the poll carries the previous stamp.
ResolveStampsBefore(p, fit) ==
    /\ poll[p].at = "idle" /\ now < MaxStamp
    /\ now' = now + 1
    /\ usable' = IF fit THEN "yes" ELSE "no"
    /\ poll' = [poll EXCEPT ![p] = [at |-> "history", ts |-> now, usable |-> fit]]
    /\ UNCHANGED <<events, rows, get, answered, late>>

\* poll_and_detect up to its second await: the quote is resolved and stamped,
\* the readings and the price tick are committed.
Resolve(p, fit) ==
    /\ poll[p].at = "idle" /\ now < MaxStamp
    /\ now' = now + 1
    /\ usable' = IF fit THEN "yes" ELSE "no"
    /\ poll' = [poll EXCEPT ![p] = [at |-> "history", ts |-> now', usable |-> fit]]
    /\ UNCHANGED <<events, rows, get, answered, late>>

\* What may put an event stamped ts behind u's checkpoint once it is committed:
\* the checkpoint is there already; a request of u has read the log without it,
\* or loaded a later checkpoint (a request that finishes after a younger one
\* turns the checkpoint back); another user's request holds the id u's row was
\* given after that user had removed one.
Overtaken(u, ts) ==
    \/ \E i \in RowsOf(u) : rows[i].seen >= ts
    \/ \E g \in Gets : /\ Owner[g] = u
                       /\ \/ get[g].at \in {"scanned", "stamped"}
                          \/ get[g].at = "loaded" /\ get[g].seen >= ts
    \/ \E g \in Gets : Owner[g] # u /\ get[g].id \in RowsOf(u)

\* The daily bars are in: detect, and commit the event under the stamp its
\* quote was resolved at.  An unusable quote never fires.
Fire(p) ==
    /\ poll[p].at = "history" /\ poll[p].usable
    /\ events' = Append(events, poll[p].ts)
    /\ late' = [u \in Users |->
           IF Overtaken(u, poll[p].ts)
           THEN late[u] \cup {Len(events) + 1} ELSE late[u]]
    /\ poll' = [poll EXCEPT ![p] = IdlePoll]
    /\ UNCHANGED <<now, usable, rows, get, answered>>

NoEvent(p) ==
    /\ poll[p].at = "history"
    /\ poll' = [poll EXCEPT ![p] = IdlePoll]
    /\ UNCHANGED <<now, usable, events, rows, get, answered, late>>

\* SQLite hands out one more than the largest id in the table.
NextId == IF Ids = {} THEN 1 ELSE 1 + CHOOSE i \in Ids : \A j \in Ids : j <= i

\* POST /api/watchlist; a second row for the user is refused.
AddItem(u) ==
    /\ RowsOf(u) = {} /\ now < MaxStamp /\ NextId <= MaxId
    /\ now' = now + 1
    /\ rows' = [i \in Ids \cup {NextId} |->
           IF i = NextId THEN [user |-> u, added |-> now', seen |-> now']
           ELSE rows[i]]
    /\ UNCHANGED <<usable, events, poll, get, answered, late>>

\* DELETE /api/watchlist/{item_id}
RemoveItem(u) ==
    /\ u \in Removers /\ RowsOf(u) # {}
    /\ rows' = [i \in Ids \ RowsOf(u) |-> rows[i]]
    /\ UNCHANGED <<now, usable, events, poll, get, answered, late>>

\* Mutant of Load: the items of all users.
LoadAnybodys(g) ==
    /\ get[g].at = "idle"
    /\ \E i \in Ids :
         get' = [get EXCEPT ![g] =
                    [IdleGet EXCEPT !.at = "loaded", !.id = i, !.seen = rows[i].seen]]
    /\ UNCHANGED <<now, usable, events, rows, poll, answered, late>>

\* get_watchlist loads the user's items ...
Load(g) ==
    /\ get[g].at = "idle"
    /\ \E i \in RowsOf(Owner[g]) :
         get' = [get EXCEPT ![g] =
                    [IdleGet EXCEPT !.at = "loaded", !.id = i, !.seen = rows[i].seen]]
    /\ UNCHANGED <<now, usable, events, rows, poll, answered, late>>

\* Mutants of Scan: a checkpoint even where the gate hid the events; the newest
\* event only.
ScanAlwaysAcknowledges(g) ==
    LET found == IF usable = "yes"
                 THEN {e \in Log : events[e] > get[g].seen} ELSE {}
    IN  /\ get[g].at = "loaded"
        /\ get' = [get EXCEPT ![g].at = "scanned", ![g].found = found]
        /\ UNCHANGED <<now, usable, events, rows, poll, answered, late>>

ScanNewestOnly(g) ==
    LET found == {e \in {Len(events)} \cap Log : events[e] > get[g].seen}
    IN  /\ get[g].at = "loaded"
        /\ get' = [get EXCEPT ![g] =
               IF found = {} \/ usable # "yes" THEN IdleGet
               ELSE [get[g] EXCEPT !.at = "scanned", !.found = found]]
        /\ UNCHANGED <<now, usable, events, rows, poll, answered, late>>

\* ... _diff_summary reads the events after the loaded checkpoint, unless the
\* tick is missing or unconfirmed.  With nothing to show the request is over.
Scan(g) ==
    LET found == IF usable = "yes"
                 THEN {e \in Log : events[e] > get[g].seen} ELSE {}
    IN  /\ get[g].at = "loaded"
        /\ get' = [get EXCEPT ![g] =
               IF found = {} THEN IdleGet
               ELSE [get[g] EXCEPT !.at = "scanned", !.found = found]]
        /\ UNCHANGED <<now, usable, events, rows, poll, answered, late>>

\* ... the checkpoint's value is taken after the scan ...
Stamp(g) ==
    /\ get[g].at = "scanned"
    /\ now' = now + 1
    /\ get' = [get EXCEPT ![g].at = "stamped", ![g].stamp = now']
    /\ UNCHANGED <<usable, events, rows, poll, answered, late>>

\* ... and written to the row with the loaded id, whosever it is by now.
Acknowledge(g) ==
    /\ get[g].at = "stamped"
    /\ rows' = [i \in Ids |->
           IF i = get[g].id THEN [rows[i] EXCEPT !.seen = get[g].stamp]
           ELSE rows[i]]
    /\ answered' = [answered EXCEPT ![Owner[g]] = @ \cup get[g].found]
    /\ get' = [get EXCEPT ![g] = IdleGet]
    /\ UNCHANGED <<now, usable, events, poll, late>>

\* The process dies and comes back: the database is all that is left.  It takes
\* time, and with it a stamp, which bounds the restarts.
Restart ==
    /\ now < MaxStamp
    /\ now' = now + 1
    /\ poll' = [p \in Polls |-> IdlePoll]
    /\ get' = [g \in Gets |-> IdleGet]
    /\ UNCHANGED <<usable, events, rows, answered, late>>

Next ==
    \/ \E p \in Polls :
         Resolve(p, TRUE) \/ Resolve(p, FALSE) \/ Fire(p) \/ NoEvent(p)
    \/ \E u \in Users : AddItem(u) \/ RemoveItem(u)
    \/ \E g \in Gets : Load(g) \/ Scan(g) \/ Stamp(g) \/ Acknowledge(g)
    \/ Restart

Spec == Init /\ [][Next]_vars

\* Requests that were started are served, and users keep coming back.  A
\* process that dies for ever would show nobody anything; the bound on the
\* restarts keeps that behaviour out.
Fairness ==
    \A g \in Gets :
        /\ WF_vars(Load(g)) /\ WF_vars(Scan(g))
        /\ WF_vars(Stamp(g)) /\ WF_vars(Acknowledge(g))

FairSpec == Spec /\ Fairness
-----------------------------------------------------------------------------
(* Properties *)

Row == [user : Users, added : Nat, seen : Nat]
PollState == [at : {"idle", "history"}, ts : Nat, usable : BOOLEAN]
Request == [at : {"idle", "loaded", "scanned", "stamped"}, id : Nat, seen : Nat,
            found : SUBSET Nat, stamp : Nat]

\* Every stamp but zero was taken.
StampsWereTaken ==
    /\ \A e \in Log : events[e] <= now
    /\ \A i \in Ids : rows[i].added \in 1..now /\ rows[i].seen \in 1..now
    /\ \A p \in Polls : /\ poll[p].ts <= now
                        /\ poll[p].at = "history" => poll[p].ts \in 1..MaxStamp
    /\ \A g \in Gets : /\ get[g].seen <= now /\ get[g].stamp <= now
                       /\ get[g].at = "stamped" => get[g].stamp > 0

TypeOK ==
    /\ now \in Nat
    /\ usable \in {"missing", "yes", "no"}
    /\ events \in Seq(1..MaxStamp)
    /\ Ids \subseteq 1..MaxId /\ \A i \in Ids : rows[i] \in Row
    /\ poll \in [Polls -> PollState]
    /\ get \in [Gets -> Request] /\ \A g \in Gets : get[g].found \subseteq Log
    /\ answered \in [Users -> SUBSET Log]
    /\ late \in [Users -> SUBSET Log]
    /\ StampsWereTaken

\* Event e is since u started watching, behind u's checkpoint, never shown.
Missed(u, e) ==
    /\ e \notin answered[u]
    /\ \E i \in RowsOf(u) : rows[i].added < events[e] /\ events[e] <= rows[i].seen

\* An event is only ever missed if it was overtaken when it was committed.
\* Whatever was in the log when a request scanned it, the checkpoint that
\* request writes does not hide.
MissedWasLate == \A u \in Users : \A e \in Log : Missed(u, e) => e \in late[u]

\* Event e, since row i was added, lies beyond the row's checkpoint.
Outstanding(i, e) == rows[i].added < events[e] /\ rows[i].seen < events[e]

\* What event e is to user u: shown once a request answered with it, pending
\* while it is beyond the checkpoint, and otherwise nothing u is owed.
Standing(u, e) ==
    IF e \notin Log THEN "none"
    ELSE IF e \in answered[u] THEN "shown"
    ELSE IF e \notin late[u] /\ \E i \in RowsOf(u) : Outstanding(i, e) THEN "pending"
    ELSE "excused"

Watchers == {u \in Users : RowsOf(u) # {}}
Standings == [u \in Users |-> [e \in 1..MaxStamp |-> Standing(u, e)]]

\* What the feed amounts to for its users, whatever the statements of requests,
\* polls and restarts interleave to: the promise of module Inbox.
Promise == INSTANCE Inbox WITH
    Events <- 1..MaxStamp, watching <- Watchers, inbox <- Standings

FeedIsInbox == Promise!Spec

\* An event that lies beyond a user's checkpoint is shown to that user in the
\* end, whatever polls and requests run meanwhile, unless it was committed
\* behind a scan, the symbol was taken off the list, or the latest quote is
\* unfit to be shown.
EveryEventIsShown ==
    \A u \in Users : \A e \in 1..MaxStamp :
        [](e \in Log /\ (\E i \in RowsOf(u) : Outstanding(i, e))
            => <>(\/ e \in answered[u] \/ e \in late[u]
                  \/ RowsOf(u) = {} \/ usable # "yes"))

\* watchlist.py:227-228: "the next genuine event still lands after the
\* checkpoint either way, so the diff a user sees is unchanged".
NextEventLandsAfterCheckpoint == \A u \in Users : \A e \in Log : ~Missed(u, e)
=============================================================================
