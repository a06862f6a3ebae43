----------------------------- MODULE TickQueue -----------------------------
(***************************************************************************)
(* The ingestion path of one symbol as market_data.py lays it out:         *)
(* poll_symbol passes the rate cap, awaits a reconciliation and puts the   *)
(* quote into the symbol's bounded queue, which drops its oldest entry when *)
(* it is full; consumers await dequeue().  Nothing in the running program  *)
(* calls poll_symbol: the pollers and consumers here are its callers-to-be. *)
(*                                                                         *)
(* Quotes are numbered in the order of resolved_at.  That is also the      *)
(* order they are queued in: between the stamp and enqueue() there is no   *)
(* await.                                                                  *)
(***************************************************************************)
EXTENDS Integers, Sequences, FiniteSets

CONSTANTS
    Pollers,    \* coroutines that may be inside poll_symbol at once
    Consumers,
    MaxSize,    \* maxsize of the queue
    Interval,   \* interval_s of the rate cap, in ticks
    Timeout,    \* the most ticks a reconciliation takes
    MaxQuotes   \* bound: quotes ever resolved

ASSUME SizeAssumption == MaxSize \in Nat \ {0} /\ MaxQuotes \in Nat
ASSUME TimeAssumption == Interval \in Nat \ {0} /\ Timeout \in Nat

VARIABLES
    sinceAllowed,   \* ticks since the rate cap last let a poll through
    age,            \* per poller: ticks in reconcile(), or Idle
    resolved,       \* how many quotes were ever resolved
    queue,          \* the symbol's asyncio.Queue
    getters,        \* the consumers waiting in it, first come first
    woken           \* those whose wait is over but who have not run yet

vars == <<sinceAllowed, age, resolved, queue, getters, woken>>

Idle == -1

Reconciling == {p \in Pollers : age[p] # Idle}

Waiting == {getters[i] : i \in 1..Len(getters)}

Init ==
    /\ sinceAllowed = Interval      \* no _last_at: the first poll passes
    /\ age = [p \in Pollers |-> Idle]
    /\ resolved = 0
    /\ queue = <<>>
    /\ getters = <<>>
    /\ woken = {}

\* poll_symbol up to its await.  A poll inside the interval returns None and
\* leaves nothing behind, the time of the last one included.  The mutant
\* forgets to store the time.
PollUnrecorded(p) ==
    /\ age[p] = Idle /\ sinceAllowed >= Interval
    /\ age' = [age EXCEPT ![p] = 0]
    /\ UNCHANGED <<sinceAllowed, resolved, queue, getters, woken>>

Poll(p) ==
    /\ age[p] = Idle /\ sinceAllowed >= Interval
    /\ sinceAllowed' = 0
    /\ age' = [age EXCEPT ![p] = 0]
    /\ UNCHANGED <<resolved, queue, getters, woken>>

\* enqueue(): the oldest quote makes room for the new one.  The mutant drops
\* the new one.
DropNewest(q, quote) == IF Len(q) = MaxSize THEN q ELSE Append(q, quote)

DropOldest(q, quote) == Append(IF Len(q) = MaxSize THEN Tail(q) ELSE q, quote)

\* The rest of poll_symbol; put_nowait ends the wait of the first getter.  The
\* mutant wakes a consumer only when nobody has been woken yet.
PutWakingOne(p) ==
    /\ p \in Reconciling /\ resolved < MaxQuotes
    /\ age' = [age EXCEPT ![p] = Idle]
    /\ resolved' = resolved + 1
    /\ queue' = DropOldest(queue, resolved + 1)
    /\ IF getters = <<>> \/ woken # {} THEN UNCHANGED <<getters, woken>>
       ELSE getters' = Tail(getters) /\ woken' = woken \cup {Head(getters)}
    /\ UNCHANGED sinceAllowed

Put(p) ==
    /\ p \in Reconciling /\ resolved < MaxQuotes
    /\ age' = [age EXCEPT ![p] = Idle]
    /\ resolved' = resolved + 1
    /\ queue' = DropOldest(queue, resolved + 1)
    /\ IF getters = <<>> THEN UNCHANGED <<getters, woken>>
       ELSE getters' = Tail(getters) /\ woken' = woken \cup {Head(getters)}
    /\ UNCHANGED sinceAllowed

\* dequeue() by a newcomer or by a woken consumer takes the oldest quote, or
\* waits (again) at the end of the line: what woke it may have been taken by
\* a newcomer or displaced.
Get(c) ==
    /\ c \notin Waiting
    /\ woken' = woken \ {c}
    /\ IF queue = <<>>
       THEN getters' = Append(getters, c) /\ UNCHANGED queue
       ELSE queue' = Tail(queue) /\ UNCHANGED getters
    /\ UNCHANGED <<sinceAllowed, age, resolved>>

Tick ==
    /\ \A p \in Reconciling : age[p] < Timeout
    /\ age' = [p \in Pollers |-> IF age[p] = Idle THEN Idle ELSE age[p] + 1]
    /\ sinceAllowed' = IF sinceAllowed < Interval THEN sinceAllowed + 1 ELSE Interval
    /\ UNCHANGED <<resolved, queue, getters, woken>>

Next ==
    \/ \E p \in Pollers : Poll(p) \/ Put(p)
    \/ \E c \in Consumers : Get(c)
    \/ Tick

Spec == Init /\ [][Next]_vars
-----------------------------------------------------------------------------
(* Properties *)

TypeOK ==
    /\ sinceAllowed \in 0..Interval
    /\ age \in [Pollers -> Idle..Timeout]
    /\ resolved \in 0..MaxQuotes
    /\ queue \in Seq(1..MaxQuotes) /\ Len(queue) <= MaxSize
    /\ getters \in Seq(Consumers)
    /\ \A i, j \in 1..Len(getters) : getters[i] = getters[j] => i = j
    /\ woken \subseteq Consumers \ Waiting

\* "Bounds reconciler work regardless of ingest burst rate": the rate cap only
\* spaces out the starts, yet with the reconciler's deadline it bounds how many
\* reconciliations of a symbol run at the same time.
WorkBounded == Cardinality(Reconciling) <= Timeout \div Interval + 1

\* The queue always holds the newest quotes, all of them from some point on, in
\* order: consumers and displacements in any order leave no gap and keep no
\* quote older than a dropped one.
QueueIsNewest ==
    queue = [i \in 1..Len(queue) |-> resolved - Len(queue) + i]

\* While a consumer waits, every quote in the queue has a woken consumer coming
\* for it: although enqueue() takes quotes back out, no wake-up is lost.
NoLostWakeup == getters # <<>> => Len(queue) <= Cardinality(woken)
=============================================================================
