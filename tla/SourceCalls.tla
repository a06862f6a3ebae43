----------------------------- MODULE SourceCalls -----------------------------
(***************************************************************************)
(* One market data source, its circuit breaker and the coroutines that     *)
(* call it: Reconciler._fetch_one, run concurrently by the scheduler's     *)
(* cycle and by every POST /api/dev/populate in flight.  The breaker is    *)
(* consulted before the call and told of the outcome after it, and the     *)
(* await in between lets any number of other calls start and finish.       *)
(***************************************************************************)
EXTENDS Source, FiniteSets

CONSTANTS
    Calls,      \* coroutines that may be inside _fetch_one at once
    Poller      \* the one of them that always comes back: the scheduler's

ASSUME CallsAssumption == Poller \in Calls /\ IsFiniteSet(Calls)

\* The shortest cooldown a breaker can ever be open with: record_failure
\* doubles the base before it is used once.
FirstCooldown == AtMost(2 * BaseCooldown, MaxCooldown)

\* 12 s against 60 s.  The code never states this relation between the
\* reconciler's deadline and the breaker's cooldown; ProbeExclusive needs it.
ASSUME DeadlineBeforeCooldown == Timeout < FirstCooldown

VARIABLES
    call,       \* per coroutine: "fetching", or how its last call ended
    age         \* ticks since a fetching coroutine was admitted

vars == <<breaker, call, age, healthy>>

Outcomes == {"none", "ok", "failed", "circuit_open"}

TypeOK ==
    /\ breaker \in Breaker
    /\ call \in [Calls -> Outcomes \cup {"fetching"}]
    /\ age \in [Calls -> 0..Timeout]
    /\ healthy \in BOOLEAN

InFlight == {c \in Calls : call[c] = "fetching"}

Init ==
    /\ breaker = NewBreaker
    /\ call = [c \in Calls |-> "none"]
    /\ age = [c \in Calls |-> 0]
    /\ healthy = TRUE

\* _fetch_one up to its await: ask the breaker; a refusal is an error reading
\* that is NOT reported to the breaker as a failure.
FetchOne(c) ==
    /\ call[c] # "fetching"
    /\ breaker' = AfterAllow(breaker)
    /\ call' = [call EXCEPT ![c] =
                    IF Grants(breaker) THEN "fetching" ELSE "circuit_open"]
    /\ UNCHANGED <<age, healthy>>

\* The adapter returned a reading with a price (reading.ok).
Answer(c) ==
    /\ call[c] = "fetching"
    /\ breaker' = AfterSuccess(breaker)
    /\ call' = [call EXCEPT ![c] = "ok"]
    /\ age' = [age EXCEPT ![c] = 0]
    /\ UNCHANGED healthy

Failure(c) ==
    /\ call[c] = "fetching"
    /\ breaker' = AfterFailure(breaker)
    /\ call' = [call EXCEPT ![c] = "failed"]
    /\ age' = [age EXCEPT ![c] = 0]
    /\ UNCHANGED healthy

\* The adapter returned an error reading, or leaked an exception.
Fail(c) == ~healthy /\ Failure(c)

\* wait_for fired: the adapter is still hanging at the reconciler's deadline.
Expire(c) == ~healthy /\ age[c] = Timeout /\ Failure(c)

\* wait_for bounds the life of a call: time does not run past a deadline.
Tick ==
    /\ \A c \in InFlight : age[c] < Timeout
    /\ breaker' = Elapse(breaker)
    /\ age' = [c \in Calls |-> IF c \in InFlight THEN age[c] + 1 ELSE 0]
    /\ UNCHANGED <<call, healthy>>

Outage == healthy /\ healthy' = FALSE /\ UNCHANGED <<breaker, call, age>>
Heal   == ~healthy /\ healthy' = TRUE /\ UNCHANGED <<breaker, call, age>>

Next ==
    \/ \E c \in Calls :
         FetchOne(c) \/ Answer(c) \/ Fail(c) \/ Expire(c)
    \/ Tick \/ Outage \/ Heal

Spec == Init /\ [][Next]_vars

\* Time passes, the scheduler's job keeps coming back, a deadline fires when
\* it is due and a healthy source answers.  Nothing is assumed of populate's
\* callers, nor of an unhealthy source.
Fairness ==
    /\ WF_vars(Tick)
    /\ WF_vars(FetchOne(Poller))
    /\ \A c \in Calls : WF_vars(healthy /\ Answer(c)) /\ WF_vars(Expire(c))

FairSpec == Spec /\ Fairness
-----------------------------------------------------------------------------
(* Properties *)

\* A half-open breaker has exactly one call in flight, its probe: no call
\* placed before the trip is still out to decide the probe's verdict for it
\* (CircuitBreaker.record_* cannot tell the two apart).
ProbeExclusive ==
    breaker.state = "half_open" => Cardinality(InFlight) = 1

\* "closed" and "fewer than Threshold consecutive failures" are the same
\* thing, however the outcomes of concurrent calls interleave: a breaker is
\* never left closed over a dead source, nor open over one that answered last.
TrippedIffThreshold ==
    breaker.state = "closed" <=> breaker.failures < Threshold

\* Every call still out while the breaker is open was placed before the trip:
\* nothing is sent to a source between its trip and its probe.
StragglersPredateTrip ==
    breaker.state = "open" => \A c \in InFlight : age[c] >= breaker.openFor

\* Once the calls placed before a trip have had their deadline, an open
\* breaker is left only through the probe after the full cooldown, and no
\* longer has its cooldown touched.
SettledOpenWaits ==
    [][ breaker.state = "open" /\ breaker.openFor > Timeout
        => /\ breaker'.cooldown = breaker.cooldown
           /\ breaker'.state # "open" =>
                 breaker'.state = "half_open" /\ CooledDown(breaker)
      ]_vars

\* A source that stays healthy is let back in for good (chaos scenario 8).
HealedIsReadmitted == <>[]healthy => <>[](breaker.state = "closed")
=============================================================================
