------------------------- MODULE WatchlistFeedProofs -------------------------
(***************************************************************************)
(* The feed of WatchlistFeed, proved for any number of polls, users and    *)
(* requests: an event is missed only if it was overtaken when it was       *)
(* committed, and what the users see is an Inbox.                          *)
(***************************************************************************)
EXTENDS WatchlistFeed, FiniteSetTheorems, WellFoundedInduction, TLAPS

(* The inductive invariant                                                  *)

\* No two events, and no event and poll, have the same stamp.
StampsDiffer ==
    /\ \A d, e \in Log : events[d] = events[e] => d = e
    /\ \A p \in Polls : poll[p].at = "history" =>
         /\ \A e \in Log : events[e] # poll[p].ts
         /\ \A q \in Polls : poll[q].at = "history" /\ poll[q].ts = poll[p].ts => q = p

\* The unique constraint on user and symbol.
OneRowEach == \A i, j \in Ids : rows[i].user = rows[j].user => i = j

Settled(u, e) == e \in answered[u] \cup late[u]

\* What is after the checkpoint a request has loaded is found when it scans, or
\* comes too late.
ReadIsFoundOrLate ==
    \A g \in Gets : get[g].at \in {"scanned", "stamped"} =>
        \A e \in Log : \/ e \in get[g].found \/ e \in late[Owner[g]]
                       \/ events[e] <= get[g].seen

\* What is not after it needs no finding.
LoadedNeedsNoFinding ==
    \A g \in Gets : get[g].at # "idle" =>
        \A i \in RowsOf(Owner[g]), e \in Log :
            rows[i].added < events[e] /\ events[e] <= get[g].seen => Settled(Owner[g], e)

\* A row that a request of another user will write to owes its user nothing.
StrayWritesAreExcused ==
    \A g \in Gets : \A i \in Ids \ RowsOf(Owner[g]) :
        get[g].at # "idle" /\ get[g].id = i =>
            \A e \in Log : rows[i].added < events[e] => e \in late[rows[i].user]

IInv ==
    /\ TypeOK
    /\ StampsDiffer
    /\ OneRowEach
    /\ MissedWasLate
    /\ ReadIsFoundOrLate
    /\ LoadedNeedsNoFinding
    /\ StrayWritesAreExcused
-----------------------------------------------------------------------------

USE OwnerAssumption, RemoversAssumption, BoundAssumption

\* A table that is not empty has a largest id ...
LEMMA LargestId ==
    ASSUME TypeOK, Ids # {}
    PROVE  \E i \in Ids : \A j \in Ids : j <= i
<1> DEFINE R == {ss \in Nat \X Nat : ss[1] < ss[2]}
           T == {MaxId - i : i \in Ids}
<1>1. \A i \in Ids : i \in 1..MaxId
  BY DEF TypeOK
<1>2. T \in SUBSET Nat /\ T # {}
  BY <1>1
<1>3. IsWellFoundedOn(R, Nat)
  BY NatLessThanWellFounded DEF OpToRel
<1>4. PICK m \in T : \A n \in T : <<n, m>> \notin R
  <2> HIDE DEF R, T
  <2>1. QED
    BY <1>2, <1>3, WFMin
<1>5. PICK i \in Ids : m = MaxId - i
  OBVIOUS
<1>6. ASSUME NEW j \in Ids PROVE j <= i
  <2>1. <<MaxId - j, MaxId - i>> \notin R
    BY <1>4, <1>5
  <2>2. MaxId - j \in Nat /\ MaxId - i \in Nat
    BY <1>1
  <2>3. ~(MaxId - j < MaxId - i)
    BY <2>1, <2>2
  <2>4. QED
    BY <1>1, <2>3
<1>7. QED
  BY <1>6

\* ... and the id of a new row is no other row's.
LEMMA FreshId ==
    ASSUME TypeOK
    PROVE  NextId \in Nat \ {0} /\ NextId \notin Ids
<1>1. Ids \subseteq 1..MaxId
  BY DEF TypeOK
<1>2. CASE Ids = {}
  BY <1>2 DEF NextId
<1>3. CASE Ids # {}
  <2>1. \E i \in Ids : \A j \in Ids : j <= i
    BY <1>3, LargestId
  <2> DEFINE i == CHOOSE i \in Ids : \A j \in Ids : j <= i
  <2>2. i \in Ids /\ \A j \in Ids : j <= i
    BY <2>1
  <2>3. NextId = 1 + i
    BY <1>3 DEF NextId
  <2> HIDE DEF i
  <2>4. QED
    BY <1>1, <2>2, <2>3
<1>4. QED
  BY <1>2, <1>3

\* What the invariant says of requests is about rows, requests and the log.
LEMMA FeedUnchanged ==
    ASSUME OneRowEach, MissedWasLate, ReadIsFoundOrLate, LoadedNeedsNoFinding,
           StrayWritesAreExcused, UNCHANGED <<events, rows, get, answered, late>>
    PROVE  /\ OneRowEach' /\ MissedWasLate' /\ ReadIsFoundOrLate'
           /\ LoadedNeedsNoFinding' /\ StrayWritesAreExcused'
BY DEF OneRowEach, MissedWasLate, Missed, ReadIsFoundOrLate, LoadedNeedsNoFinding, Settled,
   StrayWritesAreExcused, RowsOf, Ids, Log
-----------------------------------------------------------------------------
\* The invariant holds at the start.
LEMMA InitIInv == Init => IInv
<1> SUFFICES ASSUME Init PROVE IInv
  OBVIOUS
<1>1. Log = {} /\ Ids = {} /\ \A u \in Users : RowsOf(u) = {}
  BY DEF Init, Log, Ids, RowsOf
<1>2. \A g \in Gets : get[g] = IdleGet
  BY DEF Init
<1>3. IdleGet \in Request /\ IdlePoll \in PollState
  BY DEF IdleGet, Request, IdlePoll, PollState
<1>4. TypeOK
  BY <1>1, <1>2, <1>3 DEF Init, TypeOK, StampsWereTaken, IdlePoll, IdleGet
<1>5. StampsDiffer /\ OneRowEach
  BY <1>1 DEF Init, StampsDiffer, IdlePoll, OneRowEach
<1>6. /\ MissedWasLate /\ ReadIsFoundOrLate
      /\ LoadedNeedsNoFinding /\ StrayWritesAreExcused
  BY <1>1, <1>2 DEF MissedWasLate, ReadIsFoundOrLate, LoadedNeedsNoFinding,
     StrayWritesAreExcused, IdleGet
<1>7. QED
  BY <1>4, <1>5, <1>6 DEF IInv

\* A poll takes a stamp nobody has.
LEMMA ResolveIInv ==
    ASSUME IInv, NEW p \in Polls, NEW fit \in BOOLEAN, Resolve(p, fit)
    PROVE  IInv'
<1>1. /\ TypeOK /\ StampsWereTaken /\ now < MaxStamp /\ now' = now + 1
      /\ usable' = (IF fit THEN "yes" ELSE "no")
      /\ poll' = [poll EXCEPT ![p] = [at |-> "history", ts |-> now + 1, usable |-> fit]]
      /\ UNCHANGED <<events, rows, get, answered, late>>
  BY DEF IInv, TypeOK, Resolve
<1>2. /\ now \in Nat /\ poll' \in [Polls -> PollState]
      /\ poll'[p].at = "history" /\ poll'[p].ts = now + 1
      /\ \A q \in Polls : q # p => poll'[q] = poll[q]
  BY <1>1 DEF TypeOK, PollState
<1>3. StampsWereTaken'
  <2>1. /\ \A e \in Log : events[e] <= now'
        /\ \A i \in Ids : rows[i].added \in 1..now' /\ rows[i].seen \in 1..now'
    BY <1>1, <1>2 DEF StampsWereTaken, TypeOK, Log
  <2>2. \A q \in Polls : /\ poll'[q].ts <= now'
                         /\ poll'[q].at = "history" => poll'[q].ts \in 1..MaxStamp
    BY <1>1, <1>2 DEF StampsWereTaken, TypeOK, PollState
  <2>3. \A g \in Gets : /\ get[g].seen <= now' /\ get[g].stamp <= now'
                        /\ get[g].at = "stamped" => get[g].stamp > 0
    BY <1>1, <1>2 DEF StampsWereTaken, TypeOK, Request
  <2>4. QED
    BY <1>1, <2>1, <2>2, <2>3 DEF StampsWereTaken, Log, Ids
<1>4. TypeOK'
  BY <1>1, <1>2, <1>3 DEF TypeOK, Log, Ids
<1>5. StampsDiffer'
  <2>1. \A e \in Log : events[e] # now + 1
    BY <1>1, <1>2 DEF StampsWereTaken, TypeOK, Log
  <2>2. \A q \in Polls : poll[q].ts # now + 1
    BY <1>1, <1>2 DEF StampsWereTaken, TypeOK, PollState
  <2>3. QED
    BY <1>1, <1>2, <2>1, <2>2 DEF IInv, StampsDiffer, Log
<1>6. QED
  BY <1>1, <1>4, <1>5, FeedUnchanged DEF IInv

\* A poll that finds nothing ends.
LEMMA NoEventIInv ==
    ASSUME IInv, NEW p \in Polls, NoEvent(p)
    PROVE  IInv'
<1>1. /\ TypeOK /\ poll' = [poll EXCEPT ![p] = IdlePoll]
      /\ UNCHANGED <<now, usable, events, rows, get, answered, late>>
  BY DEF IInv, NoEvent
<1>2. /\ poll' \in [Polls -> PollState] /\ poll'[p] = IdlePoll
      /\ \A q \in Polls : q # p => poll'[q] = poll[q]
  BY <1>1 DEF TypeOK, PollState, IdlePoll
<1>3. TypeOK' /\ StampsDiffer'
  BY <1>1, <1>2 DEF IInv, TypeOK, StampsWereTaken, StampsDiffer, Log, Ids, IdlePoll
<1>4. QED
  BY <1>1, <1>3, FeedUnchanged DEF IInv

\* The event is in the log, and those for whom it was overtaken are on record.
LEMMA FireIInv ==
    ASSUME IInv, NEW p \in Polls, Fire(p)
    PROVE  IInv'
<1> DEFINE ts == poll[p].ts
           n == Len(events) + 1
<1>1. /\ TypeOK /\ StampsWereTaken /\ poll[p].at = "history"
      /\ events' = Append(events, ts)
      /\ late' = [u \in Users |-> IF Overtaken(u, ts) THEN late[u] \cup {n} ELSE late[u]]
      /\ poll' = [poll EXCEPT ![p] = IdlePoll]
      /\ UNCHANGED <<now, usable, rows, get, answered>>
  BY DEF IInv, TypeOK, Fire
<1>2. /\ ts \in 1..MaxStamp /\ ts <= now /\ now \in Nat /\ Len(events) \in Nat
      /\ events \in Seq(1..MaxStamp)
  BY <1>1 DEF StampsWereTaken, TypeOK
<1>3. /\ events' \in Seq(1..MaxStamp) /\ Log' = Log \cup {n} /\ n \notin Log
      /\ events'[n] = ts /\ \A e \in Log : events'[e] = events[e]
  BY <1>1, <1>2 DEF Log
<1> HIDE DEF n
<1>4. /\ \A u \in Users : late[u] \subseteq late'[u] /\ late'[u] \subseteq Log'
      /\ \A u \in Users : Overtaken(u, ts) => n \in late'[u]
      /\ late' \in [Users -> SUBSET Log']
  BY <1>1, <1>3 DEF TypeOK
<1>5. /\ poll' \in [Polls -> PollState] /\ poll'[p] = IdlePoll
      /\ \A q \in Polls : q # p => poll'[q] = poll[q]
  BY <1>1 DEF TypeOK, PollState, IdlePoll
<1>6. TypeOK'
  <2>1. StampsWereTaken'
    <3>1. \A e \in Log' : events'[e] <= now
      BY <1>1, <1>2, <1>3 DEF StampsWereTaken
    <3>2. \A q \in Polls : /\ poll'[q].ts <= now
                           /\ poll'[q].at = "history" => poll'[q].ts \in 1..MaxStamp
      BY <1>1, <1>2, <1>5 DEF StampsWereTaken, IdlePoll
    <3>3. QED
      BY <1>1, <3>1, <3>2 DEF StampsWereTaken, Ids
  <2>2. answered' \in [Users -> SUBSET Log']
    BY <1>1, <1>3 DEF TypeOK
  <2>3. \A g \in Gets : get'[g].found \subseteq Log'
    BY <1>1, <1>3 DEF TypeOK
  <2>4. QED
    BY <1>1, <1>3, <1>4, <1>5, <2>1, <2>2, <2>3 DEF TypeOK, Ids
<1>7. StampsDiffer'
  <2>1. /\ \A e \in Log : events[e] # ts
        /\ \A q \in Polls : q # p /\ poll[q].at = "history" => poll[q].ts # ts
    BY <1>1 DEF IInv, StampsDiffer
  <2> HIDE DEF ts
  <2>2. QED
    BY <1>3, <1>5, <2>1 DEF IInv, StampsDiffer, IdlePoll
<1>8. MissedWasLate'
  <2> SUFFICES ASSUME NEW u \in Users, NEW e \in Log', Missed(u, e)'
               PROVE  e \in late'[u]
    BY DEF MissedWasLate
  <2>1. PICK i \in RowsOf(u) : rows[i].added < events'[e] /\ events'[e] <= rows[i].seen
    BY <1>1 DEF Missed, RowsOf, Ids
  <2>2. CASE e = n
    <3>1. rows[i].seen >= ts
      BY <1>2, <1>3, <2>1, <2>2, <1>1 DEF TypeOK, Row, RowsOf
    <3>2. QED
      BY <1>4, <2>2, <3>1 DEF Overtaken
  <2>3. CASE e \in Log
    BY <1>1, <1>3, <1>4, <2>1, <2>3 DEF IInv, MissedWasLate, Missed
  <2>4. QED
    BY <1>3, <2>2, <2>3
<1>9. ReadIsFoundOrLate'
  <2> SUFFICES ASSUME NEW g \in Gets, get[g].at \in {"scanned", "stamped"},
                      NEW e \in Log'
               PROVE  \/ e \in get[g].found \/ e \in late'[Owner[g]]
                      \/ events'[e] <= get[g].seen
    BY <1>1 DEF ReadIsFoundOrLate
  <2>1. CASE e = n
    BY <1>4, <2>1 DEF Overtaken
  <2>2. CASE e \in Log
    BY <1>3, <1>4, <2>2 DEF IInv, ReadIsFoundOrLate
  <2>3. QED
    BY <1>3, <2>1, <2>2
<1>10. LoadedNeedsNoFinding'
  <2> SUFFICES ASSUME NEW g \in Gets, get[g].at # "idle", NEW i \in RowsOf(Owner[g]),
                      NEW e \in Log', rows[i].added < events'[e],
                      events'[e] <= get[g].seen
               PROVE  e \in answered[Owner[g]] \cup late'[Owner[g]]
    BY <1>1 DEF LoadedNeedsNoFinding, Settled, RowsOf, Ids
  <2>1. CASE e = n
    <3>1. get[g].at \in {"loaded", "scanned", "stamped"} /\ get[g].seen \in Nat
      BY <1>1 DEF TypeOK, Request
    <3>2. get[g].seen >= ts
      BY <1>2, <1>3, <2>1, <3>1
    <3>3. Overtaken(Owner[g], ts)
      BY <3>1, <3>2 DEF Overtaken
    <3>4. QED
      BY <1>4, <2>1, <3>3
  <2>2. CASE e \in Log
    BY <1>3, <1>4, <2>2 DEF IInv, LoadedNeedsNoFinding, Settled
  <2>3. QED
    BY <1>3, <2>1, <2>2
<1>11. StrayWritesAreExcused'
  <2> SUFFICES ASSUME NEW g \in Gets, NEW i \in Ids \ RowsOf(Owner[g]),
                      get[g].at # "idle", get[g].id = i,
                      NEW e \in Log', rows[i].added < events'[e]
               PROVE  e \in late'[rows[i].user]
    BY <1>1 DEF StrayWritesAreExcused, RowsOf, Ids
  <2>1. rows[i].user \in Users /\ i \in RowsOf(rows[i].user) /\ Owner[g] # rows[i].user
    BY <1>1 DEF TypeOK, Row, RowsOf
  <2>2. CASE e = n
    BY <1>4, <2>1, <2>2 DEF Overtaken
  <2>3. CASE e \in Log
    BY <1>3, <1>4, <2>1, <2>3 DEF IInv, StrayWritesAreExcused
  <2>4. QED
    BY <1>3, <2>2, <2>3
<1>12. OneRowEach'
  BY <1>1 DEF IInv, OneRowEach, Ids
<1>13. QED
  BY <1>6, <1>7, <1>8, <1>9, <1>10, <1>11, <1>12 DEF IInv

\* A new row has a fresh id and is younger than every event.
LEMMA AddItemIInv ==
    ASSUME IInv, NEW u \in Users, AddItem(u)
    PROVE  IInv'
<1> DEFINE new == NextId
           row == [user |-> u, added |-> now + 1, seen |-> now + 1]
<1>1. /\ TypeOK /\ StampsWereTaken /\ now' = now + 1 /\ new <= MaxId
      /\ rows' = [i \in Ids \cup {new} |-> IF i = new THEN row ELSE rows[i]]
      /\ UNCHANGED <<usable, events, poll, get, answered, late>>
  BY DEF IInv, TypeOK, AddItem
<1>2. new \in Nat \ {0} /\ new \notin Ids
  BY <1>1, FreshId
<1> HIDE DEF new
<1>3. /\ Ids' = Ids \cup {new} /\ rows'[new] = row
      /\ \A i \in Ids : rows'[i] = rows[i]
  BY <1>1, <1>2 DEF Ids
<1>4. /\ now \in Nat /\ row \in Row /\ row.added = now + 1 /\ row.seen = now + 1
      /\ row.user = u
  BY <1>1 DEF TypeOK, Row
<1> HIDE DEF row
<1>5. /\ Log' = Log
      /\ \A e \in Log : /\ events'[e] = events[e]
                        /\ events[e] <= now /\ events[e] \in Nat
  BY <1>1 DEF Log, StampsWereTaken, TypeOK
<1>6. StampsWereTaken'
  <2>1. \A i \in Ids' : rows'[i].added \in 1..now' /\ rows'[i].seen \in 1..now'
    BY <1>1, <1>3, <1>4 DEF StampsWereTaken
  <2>2. \A q \in Polls : /\ poll[q].ts <= now'
                         /\ poll[q].at = "history" => poll[q].ts \in 1..MaxStamp
    BY <1>1, <1>4 DEF StampsWereTaken, TypeOK, PollState
  <2>3. \A g \in Gets : /\ get[g].seen <= now' /\ get[g].stamp <= now'
                        /\ get[g].at = "stamped" => get[g].stamp > 0
    BY <1>1, <1>4 DEF StampsWereTaken, TypeOK, Request
  <2>4. \A e \in Log' : events'[e] <= now'
    BY <1>1, <1>4, <1>5
  <2>5. QED
    BY <1>1, <2>1, <2>2, <2>3, <2>4 DEF StampsWereTaken
<1>7. TypeOK'
  <2>1. Ids' \subseteq 1..MaxId /\ \A i \in Ids' : rows'[i] \in Row
    BY <1>1, <1>2, <1>3, <1>4 DEF TypeOK
  <2>2. /\ usable' \in {"missing", "yes", "no"} /\ events' \in Seq(1..MaxStamp)
        /\ poll' \in [Polls -> PollState]
    BY <1>1 DEF TypeOK
  <2>3. /\ get' \in [Gets -> Request] /\ \A g \in Gets : get'[g].found \subseteq Log'
        /\ answered' \in [Users -> SUBSET Log'] /\ late' \in [Users -> SUBSET Log']
    BY <1>1, <1>5 DEF TypeOK
  <2>4. now' \in Nat
    BY <1>1, <1>4
  <2>5. QED
    BY <1>6, <2>1, <2>2, <2>3, <2>4 DEF TypeOK
<1>8. StampsDiffer'
  BY <1>1 DEF IInv, StampsDiffer, Log
<1>9. \A i \in Ids', e \in Log' : rows'[i].added < events'[e] => i \in Ids
  BY <1>3, <1>4, <1>5
<1>10. \A v \in Users, i \in Ids : i \in RowsOf(v)' <=> i \in RowsOf(v)
  BY <1>3 DEF RowsOf
<1>11. MissedWasLate'
  <2> SUFFICES ASSUME NEW v \in Users, NEW e \in Log', Missed(v, e)'
               PROVE  e \in late'[v]
    BY DEF MissedWasLate
  <2>1. PICK i \in RowsOf(v)' : rows'[i].added < events'[e] /\ events'[e] <= rows'[i].seen
    BY DEF Missed
  <2>2. i \in Ids /\ i \in RowsOf(v)
    BY <1>9, <1>10, <2>1 DEF RowsOf
  <2>3. Missed(v, e)
    BY <1>1, <1>3, <1>5, <2>1, <2>2 DEF Missed
  <2>4. QED
    BY <1>1, <1>5, <2>3 DEF IInv, MissedWasLate
<1>12. ReadIsFoundOrLate'
  BY <1>1 DEF IInv, ReadIsFoundOrLate, Log
<1>13. LoadedNeedsNoFinding'
  <2> SUFFICES ASSUME NEW g \in Gets, get[g].at # "idle", NEW i \in RowsOf(Owner[g])',
                      NEW e \in Log, rows'[i].added < events[e],
                      events[e] <= get[g].seen
               PROVE  Settled(Owner[g], e)
    BY <1>1, <1>5 DEF LoadedNeedsNoFinding, Settled
  <2>1. i \in Ids /\ i \in RowsOf(Owner[g])
    BY <1>5, <1>9, <1>10 DEF RowsOf
  <2>2. QED
    BY <1>3, <2>1 DEF IInv, LoadedNeedsNoFinding
<1>14. StrayWritesAreExcused'
  <2> SUFFICES ASSUME NEW g \in Gets, NEW i \in Ids', i \notin RowsOf(Owner[g])',
                      get[g].at # "idle", get[g].id = i,
                      NEW e \in Log, rows'[i].added < events[e]
               PROVE  e \in late[rows'[i].user]
    BY <1>1, <1>5 DEF StrayWritesAreExcused
  <2>1. i \in Ids /\ i \notin RowsOf(Owner[g])
    BY <1>5, <1>9, <1>10
  <2>2. QED
    BY <1>3, <2>1 DEF IInv, StrayWritesAreExcused
<1>15. OneRowEach'
  <2>1. \A i \in Ids : rows[i].user # u
    BY DEF AddItem, RowsOf
  <2>2. QED
    BY <1>3, <1>4, <2>1 DEF IInv, OneRowEach
<1>16. QED
  BY <1>7, <1>8, <1>11, <1>12, <1>13, <1>14, <1>15 DEF IInv

\* Removing rows leaves less to be said.
LEMMA RemoveItemIInv ==
    ASSUME IInv, NEW u \in Users, RemoveItem(u)
    PROVE  IInv'
<1>1. /\ TypeOK /\ rows' = [i \in Ids \ RowsOf(u) |-> rows[i]]
      /\ UNCHANGED <<now, usable, events, poll, get, answered, late>>
  BY DEF IInv, RemoveItem
<1>2. /\ Ids' = Ids \ RowsOf(u) /\ \A i \in Ids' : rows'[i] = rows[i]
      /\ Log' = Log
  BY <1>1 DEF Ids, Log
<1>3. \A v \in Users, i \in Ids' : i \in RowsOf(v)' <=> i \in RowsOf(v)
  BY <1>2 DEF RowsOf
<1>4. \A v \in Users : RowsOf(v)' \subseteq RowsOf(v) /\ RowsOf(v)' \subseteq Ids'
  BY <1>2 DEF RowsOf
<1>5. TypeOK'
  BY <1>1, <1>2 DEF TypeOK, StampsWereTaken
<1>6. StampsDiffer' /\ OneRowEach' /\ ReadIsFoundOrLate'
  BY <1>1, <1>2 DEF IInv, StampsDiffer, OneRowEach, ReadIsFoundOrLate
<1>7. MissedWasLate' /\ LoadedNeedsNoFinding'
  BY <1>1, <1>2, <1>4 DEF IInv, MissedWasLate, Missed, LoadedNeedsNoFinding, Settled
<1>8. StrayWritesAreExcused'
  BY <1>1, <1>2, <1>3 DEF IInv, StrayWritesAreExcused
<1>9. QED
  BY <1>5, <1>6, <1>7, <1>8 DEF IInv

\* A request loads a checkpoint: what is behind it has been settled.
LEMMA LoadIInv ==
    ASSUME IInv, NEW g \in Gets, Load(g)
    PROVE  IInv'
<1>1. PICK i \in RowsOf(Owner[g]) :
        get' = [get EXCEPT ![g] =
                   [IdleGet EXCEPT !.at = "loaded", !.id = i, !.seen = rows[i].seen]]
  BY DEF Load
<1>2. /\ TypeOK /\ StampsWereTaken /\ get[g].at = "idle"
      /\ UNCHANGED <<now, usable, events, rows, poll, answered, late>>
  BY DEF IInv, TypeOK, Load
<1>3. /\ i \in Ids /\ i \in Nat /\ rows[i] \in Row /\ rows[i].seen \in 1..now
      /\ rows[i].user = Owner[g]
  <2>1. i \in Ids /\ rows[i].user = Owner[g]
    BY DEF RowsOf
  <2>2. QED
    BY <1>2, <2>1 DEF TypeOK, StampsWereTaken
<1> DEFINE new == [IdleGet EXCEPT !.at = "loaded", !.id = i, !.seen = rows[i].seen]
<1>4. /\ new \in Request /\ new.at = "loaded" /\ new.id = i /\ new.seen = rows[i].seen
      /\ new.found = {} /\ new.stamp = 0
  BY <1>3 DEF IdleGet, Request, Row
<1>5. get' = [get EXCEPT ![g] = new]
  BY <1>1
<1> HIDE DEF new
<1>6. /\ get' \in [Gets -> Request] /\ get'[g] = new
      /\ \A h \in Gets : h # g => get'[h] = get[h]
  BY <1>2, <1>4, <1>5 DEF TypeOK
<1>7. TypeOK'
  <2>1. \A h \in Gets : /\ get'[h].seen <= now /\ get'[h].stamp <= now
                        /\ get'[h].at = "stamped" => get'[h].stamp > 0
    BY <1>2, <1>3, <1>4, <1>6 DEF StampsWereTaken, TypeOK
  <2>2. StampsWereTaken'
    BY <1>2, <2>1 DEF StampsWereTaken, Log, Ids
  <2>3. \A h \in Gets : get'[h].found \subseteq Log
    BY <1>2, <1>4, <1>6 DEF TypeOK
  <2>4. QED
    BY <1>2, <1>6, <2>2, <2>3 DEF TypeOK, Log, Ids
<1>8. StampsDiffer' /\ OneRowEach' /\ MissedWasLate'
  BY <1>2 DEF IInv, StampsDiffer, OneRowEach, MissedWasLate, Missed, Log, RowsOf, Ids
<1>9. ReadIsFoundOrLate'
  BY <1>2, <1>4, <1>6 DEF IInv, ReadIsFoundOrLate, Log
<1>10. LoadedNeedsNoFinding'
  <2> SUFFICES ASSUME NEW h \in Gets, get'[h].at # "idle", NEW j \in RowsOf(Owner[h]),
                      NEW e \in Log, rows[j].added < events[e],
                      events[e] <= get'[h].seen
               PROVE  Settled(Owner[h], e)
    BY <1>2 DEF LoadedNeedsNoFinding, Settled, Log, RowsOf, Ids
  <2>1. CASE h # g
    BY <1>6, <2>1 DEF IInv, LoadedNeedsNoFinding
  <2>2. CASE h = g
    <3>1. j = i /\ Owner[g] \in Users
      BY <1>3, <2>2 DEF IInv, OneRowEach, RowsOf
    <3>2. events[e] <= rows[j].seen
      BY <1>4, <1>6, <2>2, <3>1
    <3>3. e \notin answered[Owner[g]] => Missed(Owner[g], e)
      BY <2>2, <3>2 DEF Missed
    <3>4. QED
      BY <2>2, <3>1, <3>3 DEF IInv, MissedWasLate, Settled
  <2>3. QED
    BY <2>1, <2>2
<1>11. StrayWritesAreExcused'
  <2> SUFFICES ASSUME NEW h \in Gets, NEW j \in Ids \ RowsOf(Owner[h]),
                      get'[h].at # "idle", get'[h].id = j,
                      NEW e \in Log, rows[j].added < events[e]
               PROVE  e \in late[rows[j].user]
    BY <1>2 DEF StrayWritesAreExcused, Log, RowsOf, Ids
  <2>1. h # g
    BY <1>4, <1>6
  <2>2. QED
    BY <1>6, <2>1 DEF IInv, StrayWritesAreExcused
<1>12. QED
  BY <1>7, <1>8, <1>9, <1>10, <1>11 DEF IInv

\* A scan finds what is later than the loaded checkpoint, or ends the request.
LEMMA ScanIInv ==
    ASSUME IInv, NEW g \in Gets, Scan(g)
    PROVE  IInv'
<1> DEFINE found == IF usable = "yes" THEN {e \in Log : events[e] > get[g].seen} ELSE {}
           new == IF found = {} THEN IdleGet
                  ELSE [get[g] EXCEPT !.at = "scanned", !.found = found]
<1>1. /\ TypeOK /\ StampsWereTaken /\ get[g].at = "loaded" /\ get[g] \in Request
      /\ get' = [get EXCEPT ![g] = new]
      /\ UNCHANGED <<now, usable, events, rows, poll, answered, late>>
  BY DEF IInv, TypeOK, Scan
<1>2. found \subseteq Log /\ Log \subseteq Nat
  BY <1>1 DEF Log
<1>3. found # {} => \A e \in Log : e \in found \/ events[e] <= get[g].seen
  <2>1. \A e \in Log : events[e] \in Nat
    BY <1>1 DEF TypeOK, Log
  <2>2. QED
    BY <1>1, <2>1 DEF Request
<1> HIDE DEF found
<1>4. /\ new \in Request
      /\ \/ new = IdleGet
         \/ /\ new.at = "scanned" /\ new.id = get[g].id /\ new.seen = get[g].seen
            /\ new.found = found /\ new.stamp = get[g].stamp /\ found # {}
  BY <1>1, <1>2 DEF IdleGet, Request
<1> HIDE DEF new
<1>5. /\ get' \in [Gets -> Request] /\ get'[g] = new
      /\ \A h \in Gets : h # g => get'[h] = get[h]
  BY <1>1, <1>4 DEF TypeOK
<1>6. TypeOK'
  <2>1. \A h \in Gets : /\ get'[h].seen <= now /\ get'[h].stamp <= now
                        /\ get'[h].at = "stamped" => get'[h].stamp > 0
    BY <1>1, <1>4, <1>5 DEF StampsWereTaken, TypeOK, IdleGet
  <2>2. StampsWereTaken'
    BY <1>1, <2>1 DEF StampsWereTaken, Log, Ids
  <2>3. ASSUME NEW h \in Gets PROVE get'[h].found \subseteq Log
    <3>1. CASE h = g
      <4>1. IdleGet.found = {}
        BY DEF IdleGet
      <4>2. new.found = {} \/ new.found = found
        BY <1>4, <4>1
      <4>3. new.found \subseteq Log
        BY <1>2, <4>2
      <4>4. QED
        BY <1>5, <3>1, <4>3
    <3>2. CASE h # g
      BY <1>1, <1>5, <3>2 DEF TypeOK
    <3>3. QED
      BY <3>1, <3>2
  <2>4. QED
    BY <1>1, <1>5, <2>2, <2>3 DEF TypeOK, Log, Ids
<1>7. StampsDiffer' /\ OneRowEach' /\ MissedWasLate'
  BY <1>1 DEF IInv, StampsDiffer, OneRowEach, MissedWasLate, Missed, Log, RowsOf, Ids
<1>8. ReadIsFoundOrLate'
  BY <1>1, <1>3, <1>4, <1>5 DEF IInv, ReadIsFoundOrLate, Log, IdleGet
<1>9. LoadedNeedsNoFinding' /\ StrayWritesAreExcused'
  BY <1>1, <1>4, <1>5 DEF IInv, LoadedNeedsNoFinding, StrayWritesAreExcused, Settled,
     Log, RowsOf, Ids, IdleGet
<1>10. QED
  BY <1>6, <1>7, <1>8, <1>9 DEF IInv

\* A GET takes its stamp: nothing is acknowledged yet.
LEMMA StampIInv ==
    ASSUME IInv, NEW g \in Gets, Stamp(g)
    PROVE  IInv'
<1> DEFINE new == [get[g] EXCEPT !.at = "stamped", !.stamp = now + 1]
<1>1. /\ TypeOK /\ StampsWereTaken /\ get[g].at = "scanned" /\ get[g] \in Request
      /\ now \in Nat /\ now' = now + 1 /\ get' = [get EXCEPT ![g] = new]
      /\ UNCHANGED <<usable, events, rows, poll, answered, late>>
  BY DEF IInv, TypeOK, Stamp
<1>2. /\ new \in Request /\ new.at = "stamped" /\ new.id = get[g].id
      /\ new.seen = get[g].seen /\ new.found = get[g].found /\ new.stamp = now + 1
  <2>1. now + 1 \in Nat
    BY <1>1
  <2>2. \A x \in Nat : [get[g] EXCEPT !.at = "stamped", !.stamp = x] \in Request
    BY <1>1 DEF Request
  <2>3. new \in Request
    BY <2>1, <2>2
  <2>4. QED
    BY <1>1, <2>3 DEF Request
<1> HIDE DEF new
<1>3. /\ get' \in [Gets -> Request] /\ get'[g] = new
      /\ \A h \in Gets : h # g => get'[h] = get[h]
  BY <1>1, <1>2 DEF TypeOK
<1>4. TypeOK'
  <2>1. /\ \A e \in Log : events[e] <= now'
        /\ \A i \in Ids : rows[i].added \in 1..now' /\ rows[i].seen \in 1..now'
    BY <1>1 DEF StampsWereTaken, TypeOK, Log
  <2>2. \A q \in Polls : /\ poll[q].ts <= now'
                         /\ poll[q].at = "history" => poll[q].ts \in 1..MaxStamp
    BY <1>1 DEF StampsWereTaken, TypeOK, PollState
  <2>3. \A h \in Gets : /\ get'[h].seen <= now' /\ get'[h].stamp <= now'
                        /\ get'[h].at = "stamped" => get'[h].stamp > 0
    BY <1>1, <1>2, <1>3 DEF StampsWereTaken, TypeOK, Request
  <2>4. StampsWereTaken'
    BY <1>1, <2>1, <2>2, <2>3 DEF StampsWereTaken, Log, Ids
  <2>5. \A h \in Gets : get'[h].found \subseteq Log
    BY <1>1, <1>2, <1>3 DEF TypeOK
  <2>6. QED
    BY <1>1, <1>3, <2>4, <2>5 DEF TypeOK, Log, Ids
<1>5. StampsDiffer' /\ OneRowEach' /\ MissedWasLate'
  BY <1>1 DEF IInv, StampsDiffer, OneRowEach, MissedWasLate, Missed, Log, RowsOf, Ids
<1>6. ReadIsFoundOrLate'
  BY <1>1, <1>2, <1>3 DEF IInv, ReadIsFoundOrLate, Log
<1>7. LoadedNeedsNoFinding' /\ StrayWritesAreExcused'
  BY <1>1, <1>2, <1>3 DEF IInv, LoadedNeedsNoFinding, StrayWritesAreExcused, Settled,
     Log, RowsOf, Ids
<1>8. QED
  BY <1>4, <1>5, <1>6, <1>7 DEF IInv

\* The checkpoint moves on: what it passes was found by the request, has been
\* settled before, or is excused.
LEMMA AcknowledgeIInv ==
    ASSUME IInv, NEW g \in Gets, Acknowledge(g)
    PROVE  IInv'
<1> DEFINE u == Owner[g]
           id == get[g].id
<1>1. /\ TypeOK /\ StampsWereTaken /\ get[g].at = "stamped" /\ get[g] \in Request
      /\ rows' = [i \in Ids |->
             IF i = id THEN [rows[i] EXCEPT !.seen = get[g].stamp] ELSE rows[i]]
      /\ answered' = [answered EXCEPT ![u] = @ \cup get[g].found]
      /\ get' = [get EXCEPT ![g] = IdleGet] /\ u \in Users
      /\ UNCHANGED <<now, usable, events, poll, late>>
  BY DEF IInv, TypeOK, Acknowledge
<1>2. /\ now \in Nat /\ get[g].stamp \in 1..now /\ get[g].found \subseteq Log
  <2>1. now \in Nat /\ get[g].found \subseteq Log
    BY <1>1 DEF TypeOK
  <2>2. get[g].stamp \in Nat /\ get[g].stamp <= now /\ get[g].stamp > 0
    BY <1>1 DEF StampsWereTaken, Request
  <2>3. QED
    BY <2>1, <2>2
<1>3. /\ get' \in [Gets -> Request] /\ get'[g] = IdleGet
      /\ \A h \in Gets : h # g => get'[h] = get[h]
  BY <1>1 DEF TypeOK, IdleGet, Request
<1>4. /\ answered' \in [Users -> SUBSET Log] /\ get[g].found \subseteq answered'[u]
      /\ \A v \in Users : answered[v] \subseteq answered'[v]
  <2>1. answered \in [Users -> SUBSET Log]
    BY <1>1 DEF TypeOK
  <2>2. /\ answered'[u] = answered[u] \cup get[g].found
        /\ \A v \in Users : v # u => answered'[v] = answered[v]
        /\ answered' \in [Users -> SUBSET Log]
    BY <1>1, <1>2, <2>1
  <2>3. QED
    BY <2>2
<1>5. /\ Ids' = Ids /\ Log' = Log
      /\ \A i \in Ids : /\ rows'[i] \in Row
                        /\ rows'[i].added = rows[i].added /\ rows'[i].user = rows[i].user
                        /\ i # id => rows'[i] = rows[i]
                        /\ i = id => rows'[i].seen = get[g].stamp
  <2>1. Ids' = Ids /\ Log' = Log
    BY <1>1 DEF Ids, Log
  <2>2. ASSUME NEW i \in Ids
        PROVE  LET r == [rows[i] EXCEPT !.seen = get[g].stamp]
               IN  /\ r \in Row /\ r.added = rows[i].added /\ r.user = rows[i].user
                   /\ r.seen = get[g].stamp
    <3>1. rows[i] \in Row /\ get[g].stamp \in Nat
      BY <1>1, <1>2 DEF TypeOK
    <3>2. QED
      BY <3>1 DEF Row
  <2>3. QED
    BY <1>1, <2>1, <2>2 DEF TypeOK
<1>6. \A v \in Users : RowsOf(v)' = RowsOf(v) /\ RowsOf(v) \subseteq Ids
  <2>1. \A v \in Users : \A i \in Ids : rows'[i].user = v <=> rows[i].user = v
    BY <1>5
  <2>2. QED
    BY <1>5, <2>1 DEF RowsOf
<1>7. TypeOK'
  <2>1. \A i \in Ids : rows'[i].added \in 1..now /\ rows'[i].seen \in 1..now
    BY <1>1, <1>2, <1>5 DEF StampsWereTaken
  <2>2. \A h \in Gets : /\ get'[h].seen <= now /\ get'[h].stamp <= now
                        /\ get'[h].at = "stamped" => get'[h].stamp > 0
    BY <1>1, <1>2, <1>3 DEF StampsWereTaken, IdleGet
  <2>3. StampsWereTaken'
    BY <1>1, <1>5, <2>1, <2>2 DEF StampsWereTaken
  <2>4. \A h \in Gets : get'[h].found \subseteq Log
    BY <1>1, <1>3 DEF TypeOK, IdleGet
  <2>5. Ids' \subseteq 1..MaxId /\ \A i \in Ids' : rows'[i] \in Row
    BY <1>1, <1>5 DEF TypeOK
  <2>6. /\ now' \in Nat /\ usable' \in {"missing", "yes", "no"}
        /\ events' \in Seq(1..MaxStamp) /\ poll' \in [Polls -> PollState]
        /\ late' \in [Users -> SUBSET Log]
    BY <1>1 DEF TypeOK
  <2>7. QED
    BY <1>3, <1>4, <1>5, <2>3, <2>4, <2>5, <2>6 DEF TypeOK
<1>8. StampsDiffer' /\ OneRowEach'
  BY <1>1, <1>5 DEF IInv, StampsDiffer, OneRowEach
<1>9. MissedWasLate'
  <2> SUFFICES ASSUME NEW v \in Users, NEW e \in Log, e \notin answered'[v],
                      NEW i \in RowsOf(v), rows[i].added < events[e],
                      events[e] <= rows'[i].seen
               PROVE  e \in late[v]
    <3>1. /\ events' = events /\ late' = late
          /\ \A v \in Users : \A i \in RowsOf(v) : rows'[i].added = rows[i].added
      BY <1>1, <1>5, <1>6
    <3>2. QED
      BY <1>5, <1>6, <3>1 DEF MissedWasLate, Missed
  <2>1. e \notin answered[v] /\ i \in Ids /\ rows[i].user = v
    BY <1>4 DEF RowsOf
  <2>2. CASE i # id
    <3>1. rows'[i].seen = rows[i].seen
      BY <1>5, <2>1, <2>2
    <3>2. Missed(v, e)
      BY <2>1, <3>1 DEF Missed
    <3>3. QED
      BY <3>2 DEF IInv, MissedWasLate
  <2>3. CASE i = id /\ v = u
    <3>1. e \notin get[g].found
      BY <1>4, <2>3
    <3>2. e \in late[u] \/ events[e] <= get[g].seen
      BY <1>1, <3>1 DEF IInv, ReadIsFoundOrLate
    <3>3. events[e] <= get[g].seen => Settled(u, e)
      BY <1>1, <2>3 DEF IInv, LoadedNeedsNoFinding
    <3>4. QED
      BY <2>1, <2>3, <3>2, <3>3 DEF Settled
  <2>4. CASE i = id /\ v # u
    <3>1. i \in Ids \ RowsOf(u)
      BY <2>1, <2>4 DEF RowsOf
    <3>2. QED
      BY <1>1, <2>1, <2>4, <3>1 DEF IInv, StrayWritesAreExcused
  <2>5. QED
    BY <2>2, <2>3, <2>4
<1>10. ReadIsFoundOrLate'
  BY <1>1, <1>3, <1>5 DEF IInv, ReadIsFoundOrLate, IdleGet
<1>11. LoadedNeedsNoFinding'
  <2> SUFFICES ASSUME NEW h \in Gets, get'[h].at # "idle", NEW i \in RowsOf(Owner[h]),
                      NEW e \in Log, rows[i].added < events[e],
                      events[e] <= get'[h].seen
               PROVE  Settled(Owner[h], e)'
    BY <1>1, <1>5, <1>6 DEF LoadedNeedsNoFinding
  <2>1. h # g /\ get'[h] = get[h] /\ Owner[h] \in Users
    BY <1>3 DEF IdleGet
  <2>2. Settled(Owner[h], e)
    BY <2>1 DEF IInv, LoadedNeedsNoFinding
  <2>3. QED
    BY <1>1, <1>4, <2>1, <2>2 DEF Settled
<1>12. StrayWritesAreExcused'
  <2> SUFFICES ASSUME NEW h \in Gets, NEW i \in Ids \ RowsOf(Owner[h]),
                      get'[h].at # "idle", get'[h].id = i,
                      NEW e \in Log, rows[i].added < events[e]
               PROVE  e \in late[rows[i].user]
    BY <1>1, <1>5, <1>6 DEF StrayWritesAreExcused
  <2>1. h # g /\ get'[h] = get[h]
    BY <1>3 DEF IdleGet
  <2>2. QED
    BY <2>1 DEF IInv, StrayWritesAreExcused
<1>13. QED
  BY <1>7, <1>8, <1>9, <1>10, <1>11, <1>12 DEF IInv

\* Only the database survives.
LEMMA RestartIInv ==
    ASSUME IInv, Restart
    PROVE  IInv'
<1>1. /\ TypeOK /\ StampsWereTaken /\ now \in Nat /\ now' = now + 1
      /\ poll' = [p \in Polls |-> IdlePoll] /\ get' = [g \in Gets |-> IdleGet]
      /\ UNCHANGED <<usable, events, rows, answered, late>>
  BY DEF IInv, TypeOK, Restart
<1>2. IdleGet \in Request /\ IdlePoll \in PollState
  BY DEF IdleGet, Request, IdlePoll, PollState
<1>3. TypeOK'
  <2>1. /\ \A e \in Log : events[e] <= now'
        /\ \A i \in Ids : rows[i].added \in 1..now' /\ rows[i].seen \in 1..now'
    BY <1>1 DEF StampsWereTaken, TypeOK, Log
  <2>2. StampsWereTaken'
    BY <1>1, <2>1 DEF StampsWereTaken, Log, Ids, IdleGet, IdlePoll
  <2>3. get' \in [Gets -> Request] /\ poll' \in [Polls -> PollState]
    BY <1>1, <1>2
  <2>4. \A g \in Gets : get'[g].found \subseteq Log
    BY <1>1 DEF IdleGet
  <2>5. QED
    BY <1>1, <2>2, <2>3, <2>4 DEF TypeOK, Log, Ids
<1>4. StampsDiffer' /\ OneRowEach' /\ MissedWasLate'
  BY <1>1 DEF IInv, StampsDiffer, OneRowEach, MissedWasLate, Missed, Log, RowsOf, Ids,
     IdlePoll
<1>5. ReadIsFoundOrLate' /\ LoadedNeedsNoFinding' /\ StrayWritesAreExcused'
  BY <1>1 DEF ReadIsFoundOrLate, LoadedNeedsNoFinding, StrayWritesAreExcused, IdleGet
<1>6. QED
  BY <1>3, <1>4, <1>5 DEF IInv

\* Each action keeps it.
LEMMA NextIInv == IInv /\ [Next]_vars => IInv'
<1> SUFFICES ASSUME IInv, [Next]_vars PROVE IInv'
  OBVIOUS
<1>1. ASSUME NEW p \in Polls,
             Resolve(p, TRUE) \/ Resolve(p, FALSE) \/ Fire(p) \/ NoEvent(p)
      PROVE  IInv'
  BY <1>1, ResolveIInv, FireIInv, NoEventIInv
<1>2. ASSUME NEW u \in Users, AddItem(u) \/ RemoveItem(u) PROVE IInv'
  BY <1>2, AddItemIInv, RemoveItemIInv
<1>3. ASSUME NEW g \in Gets, Load(g) \/ Scan(g) \/ Stamp(g) \/ Acknowledge(g)
      PROVE  IInv'
  BY <1>3, LoadIInv, ScanIInv, StampIInv, AcknowledgeIInv
<1>4. CASE Restart
  BY <1>4, RestartIInv
<1>5. CASE UNCHANGED vars
  <2>1. UNCHANGED <<now, usable, events, rows, poll, get, answered, late>>
    BY <1>5 DEF vars
  <2>2. TypeOK' /\ StampsDiffer'
    BY <2>1 DEF IInv, TypeOK, StampsWereTaken, StampsDiffer, Log, Ids
  <2>3. QED
    BY <2>1, <2>2, FeedUnchanged DEF IInv
<1>6. QED
  BY <1>1, <1>2, <1>3, <1>4, <1>5 DEF Next

\* So it holds throughout.
LEMMA InvariantIInv == Spec => []IInv
  BY InitIInv, NextIInv, PTL DEF Spec
-----------------------------------------------------------------------------
\* Every state is typed, and every stamp in it was taken before.
THEOREM FeedIsTyped == Spec => []TypeOK
<1>1. IInv => TypeOK
  BY DEF IInv
<1>2. QED
  BY <1>1, InvariantIInv, PTL

\* An event is missed only if it was overtaken when it was committed, whatever
\* polls, requests, removals and restarts interleave.
THEOREM OnlyTheOvertakenAreMissed == Spec => []MissedWasLate
<1>1. IInv => MissedWasLate
  BY DEF IInv
<1>2. QED
  BY <1>1, InvariantIInv, PTL
-----------------------------------------------------------------------------
(* The steps of the feed are steps of the inbox.                            *)

\* No two events have the same stamp, so there are no more of them than stamps.
LEMMA LogFits ==
    ASSUME IInv
    PROVE  Log \subseteq 1..MaxStamp
<1>1. /\ events \in Seq(1..MaxStamp) /\ Len(events) \in Nat /\ MaxStamp \in Nat
      /\ \A e \in Log : events[e] \in 1..MaxStamp
      /\ \A d, e \in Log : events[d] = events[e] => d = e
  BY DEF IInv, TypeOK, StampsDiffer, Log
<1> DEFINE stamp == [e \in 1..Len(events) |-> events[e]]
<1>2. stamp \in Injection(1..Len(events), 1..MaxStamp)
  BY <1>1 DEF Injection, IsInjective, Log
<1> HIDE DEF stamp
<1>3. /\ IsFiniteSet(1..MaxStamp) /\ Cardinality(1..MaxStamp) = MaxStamp
      /\ Cardinality(1..Len(events)) = Len(events)
  <2>1. ASSUME NEW n \in Nat PROVE IsFiniteSet(1..n) /\ Cardinality(1..n) = n
    BY FS_Interval
  <2>2. QED
    BY <1>1, <2>1
<1>4. Len(events) <= MaxStamp
  BY <1>2, <1>3, FS_Injection
<1>5. QED
  BY <1>1, <1>4 DEF Log

\* Of what was settled for nobody, everything since a row was added is beyond
\* the row's checkpoint: no checkpoint hides what it should not.
PendingStands ==
    \A u \in Users, e \in Log :
        Standing(u, e) =
            IF e \in answered[u] THEN "shown"
            ELSE IF e \notin late[u] /\ \E i \in RowsOf(u) : rows[i].added < events[e]
                 THEN "pending"
            ELSE "excused"

\* In the inbox every event of a user is shown, pending or excused, as the promise
\* has it.
LEMMA NothingIsHidden == IInv => PendingStands
<1> SUFFICES ASSUME IInv, NEW u \in Users, NEW e \in Log
             PROVE  Standing(u, e) =
                      IF e \in answered[u] THEN "shown"
                      ELSE IF /\ e \notin late[u]
                              /\ \E i \in RowsOf(u) : rows[i].added < events[e]
                           THEN "pending"
                      ELSE "excused"
  BY DEF PendingStands
<1>1. ASSUME NEW i \in RowsOf(u), rows[i].added < events[e],
             e \notin answered[u], e \notin late[u]
      PROVE  rows[i].seen < events[e]
  <2>1. ~Missed(u, e)
    BY <1>1 DEF IInv, MissedWasLate
  <2>2. rows[i].seen \in Nat /\ events[e] \in Nat
    BY DEF IInv, TypeOK, Row, RowsOf, Log
  <2>3. QED
    BY <1>1, <2>1, <2>2 DEF Missed
<1>2. QED
  BY <1>1 DEF Standing, Outstanding

\* What leaves rows, log and the two histories alone changes nothing.
LEMMA SameStandings ==
    ASSUME UNCHANGED <<rows, events, answered, late>>
    PROVE  UNCHANGED Promise!inboxVars
BY DEF Promise!inboxVars, Watchers, Standings, Standing, Outstanding, RowsOf, Ids, Log

\* POST starts a row: the user watches, with nothing pending.
LEMMA AddItemWatches ==
    ASSUME IInv, PendingStands, PendingStands', NEW u \in Users, AddItem(u)
    PROVE  Promise!Watch(u)
<1> DEFINE new == NextId
           row == [user |-> u, added |-> now + 1, seen |-> now + 1]
<1>1. /\ TypeOK /\ RowsOf(u) = {} /\ now \in Nat
      /\ rows' = [i \in Ids \cup {new} |-> IF i = new THEN row ELSE rows[i]]
      /\ UNCHANGED <<events, answered, late>>
  BY DEF IInv, TypeOK, AddItem
<1>2. new \notin Ids
  BY <1>1, FreshId
<1> HIDE DEF new
<1>3. /\ Ids' = Ids \cup {new} /\ rows'[new] = row
      /\ \A i \in Ids : rows'[i] = rows[i]
  BY <1>1, <1>2 DEF Ids
<1>4. RowsOf(u)' = {new} /\ \A v \in Users : v # u => RowsOf(v)' = RowsOf(v)
  BY <1>1, <1>2, <1>3 DEF RowsOf
<1>5. Watchers' = Watchers \cup {u}
  BY <1>4 DEF Watchers
<1>6. Log' = Log
  BY <1>1 DEF Log
<1>7. ASSUME NEW v \in Users, NEW e \in Log
      PROVE  Standing(v, e)' = Standing(v, e)
  <2>1. ~(rows'[new].added < events[e])
    BY <1>1, <1>3 DEF TypeOK, StampsWereTaken, Log
  <2>2. (\E i \in RowsOf(v)' : rows'[i].added < events'[e])
          <=> \E i \in RowsOf(v) : rows[i].added < events[e]
    BY <1>1, <1>3, <1>4, <2>1 DEF RowsOf
  <2>3. QED
    BY <1>1, <1>6, <2>2 DEF PendingStands
<1>8. \A v \in Users, e \in 1..MaxStamp : Standing(v, e)' = Standing(v, e)
  BY <1>6, <1>7 DEF Standing
<1>9. Standings' = Standings
  BY <1>8 DEF Standings
<1>10. QED
  BY <1>5, <1>9 DEF Promise!Watch

\* DELETE takes the row: the user leaves, and nothing stays pending.
LEMMA RemoveItemLeaves ==
    ASSUME IInv, NEW u \in Users, RemoveItem(u)
    PROVE  Promise!Leave(u)
<1>1. /\ RowsOf(u) # {} /\ rows' = [i \in Ids \ RowsOf(u) |-> rows[i]]
      /\ UNCHANGED <<events, answered, late>>
  BY DEF RemoveItem
<1>2. /\ Ids' = Ids \ RowsOf(u) /\ \A i \in Ids' : rows'[i] = rows[i]
      /\ Log' = Log
  BY <1>1 DEF Ids, Log
<1>3. RowsOf(u)' = {} /\ \A v \in Users : v # u => RowsOf(v)' = RowsOf(v)
  BY <1>2 DEF RowsOf
<1>4. u \in Watchers /\ Watchers' = Watchers \ {u}
  BY <1>1, <1>3 DEF Watchers
<1>5. ASSUME NEW v \in Users, v # u, NEW e \in 1..MaxStamp
      PROVE  Standing(v, e)' = Standing(v, e)
  <2>1. \A i \in RowsOf(v) : rows'[i] = rows[i]
    BY <1>2, <1>3, <1>5 DEF RowsOf
  <2>2. (\E i \in RowsOf(v)' : Outstanding(i, e)') <=> \E i \in RowsOf(v) : Outstanding(i, e)
    BY <1>1, <1>3, <1>5, <2>1 DEF Outstanding
  <2>3. QED
    BY <1>1, <1>2, <2>2 DEF Standing
<1>6. ASSUME NEW e \in 1..MaxStamp
      PROVE  Standing(u, e)' =
               IF Standing(u, e) = "pending" THEN "excused" ELSE Standing(u, e)
  BY <1>1, <1>2, <1>3 DEF Standing
<1>7. Standings' = [Standings EXCEPT ![u] = [e \in 1..MaxStamp |->
          IF e \in Promise!Pending(u) THEN "excused" ELSE Standings[u][e]]]
  BY <1>5, <1>6 DEF Standings, Promise!Pending
<1>8. QED
  BY <1>4, <1>7 DEF Promise!Leave

\* Those whose checkpoint has passed the event, and those who add the symbol
\* after its stamp, are the ones it comes too late for.
LEMMA FireRecords ==
    ASSUME IInv, Log' \subseteq 1..MaxStamp, NEW p \in Polls, Fire(p)
    PROVE  \E e \in 1..MaxStamp, S \in SUBSET Users : Promise!Record(e, S)
<1>0. PICK n \in Nat : n = Len(events) + 1
  BY DEF IInv, TypeOK
<1>1. /\ TypeOK /\ events' = Append(events, poll[p].ts)
      /\ late' = [u \in Users |->
             IF Overtaken(u, poll[p].ts) THEN late[u] \cup {n} ELSE late[u]]
      /\ UNCHANGED <<rows, answered>>
  BY <1>0 DEF IInv, Fire
<1>2. /\ Log' = Log \cup {n} /\ n \notin Log
      /\ \A e \in Log : events'[e] = events[e]
  BY <1>0, <1>1 DEF TypeOK, Log
<1>3. n \in 1..MaxStamp
  BY <1>2
<1>4. \A u \in Users : \A e \in Log : e \in late'[u] <=> e \in late[u]
  BY <1>1, <1>2 DEF TypeOK
<1>5. /\ Watchers' = Watchers /\ \A u \in Users : RowsOf(u)' = RowsOf(u)
  BY <1>1 DEF Watchers, RowsOf, Ids
<1>6. ASSUME NEW u \in Users, NEW e \in 1..MaxStamp, e # n
      PROVE  Standing(u, e)' = Standing(u, e)
  <2>1. CASE e \in Log
    BY <1>1, <1>2, <1>4, <1>5, <2>1 DEF Standing, Outstanding
  <2>2. CASE e \notin Log
    BY <1>2, <1>6, <2>2 DEF Standing
  <2>3. QED
    BY <2>1, <2>2
<1>7. \A u \in Users : /\ Standing(u, n) = "none"
                       /\ Standing(u, n)' \in {"pending", "excused"}
                       /\ Standing(u, n)' = "pending" => u \in Watchers
  <2>1. \A u \in Users : n \notin answered[u]
    BY <1>1, <1>2 DEF TypeOK
  <2>2. QED
    BY <1>1, <1>2, <1>5, <2>1 DEF Standing, Watchers
<1> DEFINE S == {u \in Users : Standing(u, n)' # "pending"}
<1>8. ASSUME NEW u \in Users
      PROVE  Standing(u, n)' = IF u \in Watchers \ S THEN "pending" ELSE "excused"
  BY <1>7
<1> HIDE DEF S
<1>9. Standings' = [u \in Users |-> [Standings[u] EXCEPT ![n] =
          IF u \in Watchers \ S THEN "pending" ELSE "excused"]]
  BY <1>3, <1>6, <1>8 DEF Standings
<1>10. \A u \in Users : Standings[u][n] = "none"
  BY <1>3, <1>7 DEF Standings
<1>11. Promise!Record(n, S)
  BY <1>5, <1>9, <1>10 DEF Promise!Record
<1>12. S \in SUBSET Users
  BY DEF S
<1>13. QED
  BY <1>3, <1>11, <1>12

\* The answer shows what was found, whosever row the checkpoint is written to.
LEMMA AcknowledgeShows ==
    ASSUME IInv, PendingStands, PendingStands', Log \subseteq 1..MaxStamp,
           NEW g \in Gets, Acknowledge(g)
    PROVE  \E S \in SUBSET (1..MaxStamp) : Promise!Show(Owner[g], S)
<1> DEFINE u == Owner[g]
           S == get[g].found
<1>1. /\ TypeOK /\ u \in Users /\ S \subseteq Log
      /\ rows' = [i \in Ids |->
             IF i = get[g].id THEN [rows[i] EXCEPT !.seen = get[g].stamp] ELSE rows[i]]
      /\ answered' = [answered EXCEPT ![u] = @ \cup S]
      /\ UNCHANGED <<events, late>>
  BY DEF IInv, TypeOK, Acknowledge
<1>2. /\ answered'[u] = answered[u] \cup S
      /\ \A v \in Users : v # u => answered'[v] = answered[v]
  BY <1>1 DEF TypeOK
<1>3. /\ Ids' = Ids /\ Log' = Log
      /\ \A i \in Ids : rows'[i].added = rows[i].added /\ rows'[i].user = rows[i].user
  <2>1. \A i \in Ids : rows[i] \in Row
    BY <1>1 DEF TypeOK
  <2>2. QED
    BY <1>1, <2>1 DEF Ids, Log, Row
<1>4. \A v \in Users : RowsOf(v)' = RowsOf(v) /\ RowsOf(v) \subseteq Ids
  <2>1. \A v \in Users : \A i \in Ids : rows'[i].user = v <=> rows[i].user = v
    BY <1>3
  <2>2. QED
    BY <1>3, <2>1 DEF RowsOf
<1>5. Watchers' = Watchers
  BY <1>4 DEF Watchers
<1>6. ASSUME NEW v \in Users, NEW e \in Log
      PROVE  Standing(v, e)' = IF v = u /\ e \in S THEN "shown" ELSE Standing(v, e)
  <2>1. (\E i \in RowsOf(v)' : rows'[i].added < events'[e])
          <=> \E i \in RowsOf(v) : rows[i].added < events[e]
    BY <1>1, <1>3, <1>4
  <2>2. e \in answered'[v] <=> e \in answered[v] \/ (v = u /\ e \in S)
    BY <1>2
  <2>3. QED
    BY <1>1, <1>3, <2>1, <2>2 DEF PendingStands
<1>7. \A v \in Users, e \in 1..MaxStamp :
        Standing(v, e)' = IF v = u /\ e \in S THEN "shown" ELSE Standing(v, e)
  BY <1>1, <1>3, <1>6 DEF Standing
<1>8. \A e \in S : e \in 1..MaxStamp /\ Standing(u, e) # "none"
  BY <1>1 DEF Standing
<1> HIDE DEF S
<1>9. Standings' = [Standings EXCEPT ![u] = [e \in 1..MaxStamp |->
          IF e \in S THEN "shown" ELSE Standings[u][e]]]
  BY <1>1, <1>7 DEF Standings
<1>10. S \subseteq Promise!Recorded(u)
  BY <1>1, <1>8 DEF Promise!Recorded, Standings
<1>11. Promise!Show(u, S)
  BY <1>5, <1>9, <1>10 DEF Promise!Show
<1>12. QED
  BY <1>8, <1>11

\* Each step of the feed is one of the inbox, or leaves it as it is.
LEMMA StepIsPromised ==
    ASSUME IInv, PendingStands, PendingStands', Log \subseteq 1..MaxStamp,
           Log' \subseteq 1..MaxStamp, [Next]_vars
    PROVE  [Promise!Next]_(Promise!inboxVars)
<1>1. ASSUME NEW p \in Polls, Fire(p) PROVE Promise!Next
  BY <1>1, FireRecords DEF Promise!Next
<1>2. ASSUME NEW u \in Users, AddItem(u) PROVE Promise!Next
  BY <1>2, AddItemWatches DEF Promise!Next
<1>3. ASSUME NEW u \in Users, RemoveItem(u) PROVE Promise!Next
  BY <1>3, RemoveItemLeaves DEF Promise!Next
<1>4. ASSUME NEW g \in Gets, Acknowledge(g) PROVE Promise!Next
  <2>1. Owner[g] \in Users
    OBVIOUS
  <2>2. QED
    BY <1>4, <2>1, AcknowledgeShows DEF Promise!Next
<1>5. ASSUME UNCHANGED <<rows, events, answered, late>>
      PROVE  UNCHANGED Promise!inboxVars
  BY <1>5, SameStandings
<1>6. ASSUME NEW p \in Polls, Resolve(p, TRUE) \/ Resolve(p, FALSE) \/ NoEvent(p)
      PROVE  UNCHANGED <<rows, events, answered, late>>
  BY <1>6 DEF Resolve, NoEvent
<1>7. ASSUME NEW g \in Gets, Load(g) \/ Scan(g) \/ Stamp(g)
      PROVE  UNCHANGED <<rows, events, answered, late>>
  BY <1>7 DEF Load, Scan, Stamp
<1>8. Restart \/ UNCHANGED vars => UNCHANGED <<rows, events, answered, late>>
  BY DEF Restart, vars
<1>9. QED
  BY <1>1, <1>2, <1>3, <1>4, <1>5, <1>6, <1>7, <1>8 DEF Next

\* What a user sees of an event, requests and polls in any order, is an inbox's:
\* pending from its commit until it is shown or the symbol is removed, or not
\* owed from the start.
THEOREM TheFeedIsAnInbox == Spec => FeedIsInbox
<1>1. Init => Promise!Init
  <2> SUFFICES ASSUME Init PROVE Promise!Init
    OBVIOUS
  <2>1. Log = {} /\ \A u \in Users : RowsOf(u) = {}
    BY DEF Init, Log, Ids, RowsOf
  <2>2. QED
    BY <2>1 DEF Promise!Init, Watchers, Standings, Standing
<1> DEFINE Fits == Log \subseteq 1..MaxStamp
<1>2. IInv => PendingStands /\ Fits
  BY NothingIsHidden, LogFits
<1>3. /\ IInv /\ PendingStands /\ PendingStands' /\ Fits /\ Fits' /\ [Next]_vars
      => [Promise!Next]_(Promise!inboxVars)
  BY StepIsPromised
<1> HIDE DEF Fits
<1>4. QED
  BY <1>1, <1>2, <1>3, InvariantIInv, PTL DEF Spec, FeedIsInbox, Promise!Spec
-----------------------------------------------------------------------------
(* What a user may rely on, whatever implements the inbox.                  *)

\* One step of the inbox: nothing pending is dropped, nothing settled returns.
LEMMA InboxStep ==
    ASSUME Promise!InboxOK, [Promise!Next]_(Promise!inboxVars)
    PROVE  Promise!InboxOK' /\ Promise!DropsNothing /\ Promise!KeepsSettled
<1> USE DEF Promise!Pending, Promise!Recorded
<1>1. ASSUME NEW u \in Users, Promise!Watch(u)
      PROVE  Promise!InboxOK' /\ Promise!DropsNothing /\ Promise!KeepsSettled
  BY <1>1 DEF Promise!Watch, Promise!InboxOK, Promise!DropsNothing, Promise!KeepsSettled
<1>2. ASSUME NEW u \in Users, Promise!Leave(u)
      PROVE  Promise!InboxOK' /\ Promise!DropsNothing /\ Promise!KeepsSettled
  BY <1>2 DEF Promise!Leave, Promise!InboxOK, Promise!DropsNothing, Promise!KeepsSettled
<1>3. ASSUME NEW u \in Users, NEW S \in SUBSET (1..MaxStamp), Promise!Show(u, S)
      PROVE  Promise!InboxOK' /\ Promise!DropsNothing /\ Promise!KeepsSettled
  BY <1>3 DEF Promise!Show, Promise!InboxOK, Promise!DropsNothing, Promise!KeepsSettled
<1>4. ASSUME NEW e \in 1..MaxStamp, NEW S \in SUBSET Users, Promise!Record(e, S)
      PROVE  Promise!InboxOK' /\ Promise!DropsNothing /\ Promise!KeepsSettled
  BY <1>4 DEF Promise!Record, Promise!InboxOK, Promise!DropsNothing, Promise!KeepsSettled
<1>5. CASE UNCHANGED Promise!inboxVars
  BY <1>5 DEF Promise!inboxVars, Promise!InboxOK, Promise!DropsNothing,
     Promise!KeepsSettled
<1>6. QED
  BY <1>1, <1>2, <1>3, <1>4, <1>5 DEF Promise!Next

\* A user's own events are pending only while that user watches, stay pending
\* until they are shown or the user leaves, and are settled for good.
THEOREM TheInboxKeepsItsWord ==
    Promise!Spec => /\ []Promise!InboxOK
                    /\ Promise!NothingOwedIsDropped
                    /\ Promise!SettledStaysSettled
<1>1. Promise!Init => Promise!InboxOK
  BY DEF Promise!Init, Promise!InboxOK, Promise!Pending
<1>2. /\ Promise!InboxOK /\ [Promise!Next]_(Promise!inboxVars)
      => Promise!InboxOK' /\ Promise!DropsNothing /\ Promise!KeepsSettled
  BY InboxStep
<1>3. QED
  BY <1>1, <1>2, PTL
  DEF Promise!Spec, Promise!NothingOwedIsDropped, Promise!SettledStaysSettled

\* So does the feed, in rows and checkpoints: an event beyond a user's checkpoint
\* that was not overtaken stays there until a GET answers with it or the symbol is
\* removed; and no checkpoint that is turned back brings one back.
THEOREM TheFeedDropsNothingOwed ==
    Spec => Promise!NothingOwedIsDropped /\ Promise!SettledStaysSettled
  BY TheFeedIsAnInbox, TheInboxKeepsItsWord, PTL DEF FeedIsInbox

\* The inbox of one of the users, which is all that user's page knows.
Mine(u) == INSTANCE Inbox WITH
    Users <- {u}, Events <- 1..MaxStamp, watching <- Watchers \cap {u},
    inbox <- [v \in {u} |-> Standings[v]]

\* What happens to others' events is no step of it, or one that is its own.
LEMMA OthersAreNoConcern ==
    ASSUME NEW u \in Users, Promise!InboxOK, [Promise!Next]_(Promise!inboxVars)
    PROVE  [Mine(u)!Next]_(Mine(u)!inboxVars)
<1> DEFINE mine == [v \in {u} |-> Standings[v]]
<1>1. mine[u] = Standings[u] /\ mine'[u] = Standings'[u]
  OBVIOUS
<1> USE DEF Promise!Pending, Promise!Recorded, Mine!Pending, Mine!Recorded
<1>2. ASSUME NEW v \in Users, Promise!Watch(v)
      PROVE  Mine(u)!Watch(u) \/ UNCHANGED Mine(u)!inboxVars
  BY <1>2 DEF Promise!Watch, Mine!Watch, Mine!inboxVars
<1>3. ASSUME NEW v \in Users, Promise!Leave(v)
      PROVE  Mine(u)!Leave(u) \/ UNCHANGED Mine(u)!inboxVars
  <2>1. CASE v = u
    BY <1>3, <2>1 DEF Promise!InboxOK, Promise!Leave, Mine!Leave
  <2>2. CASE v # u
    BY <1>3, <2>2 DEF Promise!InboxOK, Promise!Leave, Mine!inboxVars
  <2>3. QED
    BY <2>1, <2>2
<1>4. ASSUME NEW v \in Users, NEW S \in SUBSET (1..MaxStamp), Promise!Show(v, S)
      PROVE  Mine(u)!Show(u, S) \/ UNCHANGED Mine(u)!inboxVars
  <2>1. CASE v = u
    BY <1>4, <2>1 DEF Promise!InboxOK, Promise!Show, Mine!Show
  <2>2. CASE v # u
    BY <1>4, <2>2 DEF Promise!InboxOK, Promise!Show, Mine!inboxVars
  <2>3. QED
    BY <2>1, <2>2
<1>5. ASSUME NEW e \in 1..MaxStamp, NEW S \in SUBSET Users, Promise!Record(e, S)
      PROVE  Mine(u)!Record(e, S \cap {u})
  BY <1>5 DEF Promise!InboxOK, Promise!Record, Mine!Record
<1>6. CASE UNCHANGED Promise!inboxVars
  BY <1>6 DEF Promise!inboxVars, Mine!inboxVars
<1>7. QED
  BY <1>2, <1>3, <1>4, <1>5, <1>6 DEF Promise!Next, Mine!Next

\* Any one user's part of the feed is an inbox too: the server that module Page
\* puts behind its tab.
THEOREM TheFeedServesEachUser ==
    ASSUME NEW CONSTANT u \in Users
    PROVE  Spec => Mine(u)!Spec
<1>1. Promise!Init => Mine(u)!Init
  BY DEF Promise!Init, Mine!Init
<1>2. Promise!InboxOK /\ [Promise!Next]_(Promise!inboxVars)
      => [Mine(u)!Next]_(Mine(u)!inboxVars)
  BY OthersAreNoConcern
<1>3. QED
  BY <1>1, <1>2, TheFeedIsAnInbox, TheInboxKeepsItsWord, PTL
  DEF FeedIsInbox, Promise!Spec, Mine!Spec
=============================================================================
