-------------------------- MODULE SourceCallsProofs --------------------------
(***************************************************************************)
(* What TLC checks of SourceCalls on three coroutines, proved for every    *)
(* finite set of them and every threshold, cooldown and deadline that      *)
(* satisfy the named assumptions.                                          *)
(*                                                                         *)
(* The last two sections are about what lies on either side of these       *)
(* calls: the job that makes them (module Scheduler, with the same source) *)
(* and the session they use (module Adapter).                              *)
(***************************************************************************)
EXTENDS SourceCalls, Scheduler, Adapter, FiniteSetTheorems, WellFoundedInduction, TLAPS

(* The inductive invariant                                                  *)

\* What is behind ProbeExclusive: a straggler is at least as
\* old as the trip, its deadline is shorter than any cooldown, so all of them
\* are gone when the cooldown ends and the probe goes out alone.
OneProbe ==
    breaker.state = "half_open" =>
        breaker.probeInflight /\ \E c \in Calls : InFlight = {c}

\* A breaker that has tripped is open for the first cooldown at least.
CooldownFloor == breaker.state # "closed" => breaker.cooldown >= FirstCooldown

IInv ==
    /\ TypeOK
    /\ TrippedIffThreshold
    /\ StragglersPredateTrip
    /\ CooldownFloor
    /\ OneProbe
-----------------------------------------------------------------------------

USE DEF CircuitStates, Outcomes

\* What the breaker's operations do to a breaker of the right type: none of
\* them leaves the type, so no counter runs away and no cooldown passes the cap.
LEMMA BreakerType ==
    ASSUME NEW b \in Breaker
    PROVE  /\ AfterAllow(b) \in Breaker
           /\ AfterSuccess(b) \in Breaker
           /\ AfterFailure(b) \in Breaker
           /\ Elapse(b) \in Breaker
<1>0. 0 \in 0..Threshold /\ BaseCooldown \in BaseCooldown..MaxCooldown
  BY ThresholdAssumption, CooldownAssumption
<1>1. AfterAllow(b) \in Breaker
  BY DEF AfterAllow, Grants, CooledDown, Breaker
<1>2. AfterSuccess(b) \in Breaker
  BY <1>0 DEF AfterSuccess, Breaker
<1>3. AfterFailure(b) \in Breaker
  <2> USE ThresholdAssumption, CooldownAssumption DEF Breaker, AtMost
  <2>1. /\ AtMost(b.failures + 1, Threshold) \in 0..Threshold
        /\ AtMost(2 * b.cooldown, MaxCooldown) \in BaseCooldown..MaxCooldown
    OBVIOUS
  <2>2. CASE Trips(b)
    <3>1. AfterFailure(b) =
            [state |-> "open",
             failures |-> AtMost(b.failures + 1, Threshold),
             openFor |-> 0,
             cooldown |-> AtMost(2 * b.cooldown, MaxCooldown),
             probeInflight |-> FALSE]
      BY <2>2 DEF AfterFailure, NextCooldown
    <3>2. QED
      BY <2>1, <3>1
  <2>3. CASE ~Trips(b)
    <3>1. AfterFailure(b) =
            [state |-> b.state,
             failures |-> AtMost(b.failures + 1, Threshold),
             openFor |-> b.openFor,
             cooldown |-> b.cooldown,
             probeInflight |-> FALSE]
      BY <2>3 DEF AfterFailure, NextCooldown
    <3>2. QED
      BY <2>1, <3>1
  <2>4. QED
    BY <2>2, <2>3
<1>4. Elapse(b) \in Breaker
  BY CooldownAssumption DEF Elapse, Breaker, AtMost
<1>5. QED
  BY <1>1, <1>2, <1>3, <1>4

\* A new breaker is one.
LEMMA InitialBreaker == NewBreaker \in Breaker
  BY ThresholdAssumption, CooldownAssumption DEF NewBreaker, Breaker

\* The invariant holds at the start.
LEMMA InitIInv == Init => IInv
  BY ThresholdAssumption, CooldownAssumption, TimeoutAssumption
  DEF Init, IInv, TypeOK, Breaker, NewBreaker, TrippedIffThreshold,
      StragglersPredateTrip, CooldownFloor, OneProbe, InFlight

\* Asking the breaker: the case that matters is the probe, sent when the
\* cooldown is over and therefore when every straggler is past its deadline.
LEMMA FetchOneIInv ==
    ASSUME IInv, NEW c \in Calls, FetchOne(c)
    PROVE  IInv'
<1> USE ThresholdAssumption, CooldownAssumption, TimeoutAssumption
<1>1. TypeOK'
  BY BreakerType DEF IInv, TypeOK, FetchOne
<1>2. CASE breaker.state = "closed"
  <2>1. breaker' = breaker
    BY <1>2 DEF FetchOne, AfterAllow
  <2>2. QED
    BY <1>1, <1>2, <2>1 DEF IInv, TypeOK, Breaker, TrippedIffThreshold,
       StragglersPredateTrip, CooldownFloor, OneProbe
<1>3. CASE breaker.state # "closed" /\ ~Grants(breaker)
  <2>1. breaker' = breaker /\ call' = [call EXCEPT ![c] = "circuit_open"]
    BY <1>3 DEF FetchOne, AfterAllow
  <2>2. InFlight' = InFlight /\ age' = age
    BY <2>1 DEF IInv, TypeOK, FetchOne, InFlight
  <2>3. QED
    BY <1>1, <2>1, <2>2 DEF IInv, TrippedIffThreshold,
       StragglersPredateTrip, CooldownFloor, OneProbe
<1>4. CASE breaker.state # "closed" /\ Grants(breaker)
  <2>1. breaker.state = "open" /\ breaker.openFor >= breaker.cooldown
    BY <1>4 DEF IInv, TypeOK, Breaker, OneProbe, Grants, CooledDown
  <2>2. InFlight = {}
    <3>1. SUFFICES ASSUME NEW d \in InFlight PROVE FALSE
      OBVIOUS
    <3>2. age[d] >= breaker.openFor /\ breaker.cooldown >= FirstCooldown
      BY <2>1 DEF IInv, StragglersPredateTrip, CooldownFloor
    <3>3. /\ age[d] \in 0..Timeout
          /\ breaker.openFor \in Nat /\ breaker.cooldown \in Nat
      BY DEF IInv, TypeOK, InFlight, Breaker
    <3>4. FirstCooldown \in Nat
      BY DEF FirstCooldown, AtMost
    <3>5. QED
      BY <2>1, <3>2, <3>3, <3>4, DeadlineBeforeCooldown
  <2>3. /\ breaker' = [breaker EXCEPT !.state = "half_open",
                                      !.probeInflight = TRUE]
        /\ call' = [call EXCEPT ![c] = "fetching"]
    BY <1>4 DEF FetchOne, AfterAllow
  <2>4. InFlight' = {c}
    BY <2>2, <2>3 DEF IInv, TypeOK, InFlight
  <2>5. /\ breaker'.state = "half_open" /\ breaker'.probeInflight
        /\ breaker'.failures = breaker.failures
        /\ breaker'.cooldown = breaker.cooldown
    BY <2>3 DEF IInv, TypeOK, Breaker
  <2>6. QED
    BY <1>1, <2>1, <2>4, <2>5 DEF IInv, TrippedIffThreshold,
       StragglersPredateTrip, CooldownFloor, OneProbe
<1>5. QED
  BY <1>2, <1>3, <1>4

\* An answer closes the breaker, whatever state it was in.
LEMMA AnswerIInv ==
    ASSUME IInv, NEW c \in Calls, Answer(c)
    PROVE  IInv'
<1>1. TypeOK'
  BY BreakerType, TimeoutAssumption DEF IInv, TypeOK, Answer
<1>2. breaker'.state = "closed" /\ breaker'.failures = 0
  BY DEF IInv, TypeOK, Breaker, Answer, AfterSuccess
<1>3. QED
  BY <1>1, <1>2, ThresholdAssumption DEF IInv, TrippedIffThreshold,
     StragglersPredateTrip, CooldownFloor, OneProbe

\* A failure, returned or enforced by the deadline: it counts, trips the
\* breaker at the threshold, and re-trips an open or half-open one.
LEMMA FailureIInv ==
    ASSUME IInv, NEW c \in Calls, Failure(c)
    PROVE  IInv'
<1> USE ThresholdAssumption, CooldownAssumption, TimeoutAssumption
<1>1. TypeOK'
  BY BreakerType DEF IInv, TypeOK, Failure
<1>2. CASE Trips(breaker)
  <2>1. /\ breaker'.state = "open" /\ breaker'.openFor = 0
        /\ breaker'.cooldown = AtMost(2 * breaker.cooldown, MaxCooldown)
        /\ breaker'.failures = AtMost(breaker.failures + 1, Threshold)
    BY <1>2 DEF IInv, TypeOK, Breaker, Failure, AfterFailure, NextCooldown
  <2>2. breaker'.failures = Threshold
    BY <1>2, <2>1
    DEF IInv, TypeOK, Breaker, Trips, TrippedIffThreshold, AtMost
  <2>3. breaker'.cooldown >= FirstCooldown
    BY <2>1 DEF IInv, TypeOK, Breaker, FirstCooldown, AtMost
  <2>4. StragglersPredateTrip'
    BY <1>1, <2>1 DEF StragglersPredateTrip, TypeOK, InFlight
  <2>5. QED
    BY <1>1, <2>1, <2>2, <2>3, <2>4
    DEF IInv, TrippedIffThreshold, CooldownFloor, OneProbe
<1>3. CASE ~Trips(breaker)
  <2>1. breaker.state = "closed" /\ breaker.failures + 1 < Threshold
    BY <1>3 DEF IInv, TypeOK, Breaker, Trips, TrippedIffThreshold
  <2>2. /\ breaker'.state = "closed"
        /\ breaker'.failures = breaker.failures + 1
    BY <1>3, <2>1
    DEF IInv, TypeOK, Breaker, Failure, AfterFailure, NextCooldown, AtMost
  <2>3. QED
    BY <1>1, <2>1, <2>2 DEF IInv, TrippedIffThreshold,
       StragglersPredateTrip, CooldownFloor, OneProbe
<1>4. QED
  BY <1>2, <1>3

\* Time: a straggler ages as fast as the trip it predates.
LEMMA TickIInv ==
    ASSUME IInv, Tick
    PROVE  IInv'
<1> USE ThresholdAssumption, CooldownAssumption, TimeoutAssumption
<1>1. TypeOK'
  <2>1. breaker' \in Breaker
    BY BreakerType DEF IInv, TypeOK, Tick
  <2>2. age' \in [Calls -> 0..Timeout]
    BY DEF IInv, TypeOK, Tick, InFlight
  <2>3. QED
    BY <2>1, <2>2 DEF IInv, TypeOK, Tick
<1>2. /\ breaker'.state = breaker.state /\ breaker'.failures = breaker.failures
      /\ breaker'.cooldown = breaker.cooldown
      /\ breaker'.probeInflight = breaker.probeInflight
      /\ InFlight' = InFlight
  BY DEF IInv, TypeOK, Breaker, Tick, Elapse, InFlight
<1>3. StragglersPredateTrip'
  <2>1. SUFFICES ASSUME breaker.state = "open", NEW c \in InFlight
                 PROVE  age'[c] >= breaker'.openFor
    BY <1>2 DEF StragglersPredateTrip
  <2>2. age[c] >= breaker.openFor /\ age[c] \in Nat /\ breaker.openFor \in Nat
    BY <2>1 DEF IInv, StragglersPredateTrip, TypeOK, Breaker, InFlight
  <2>3. age'[c] = age[c] + 1
    BY DEF Tick, InFlight
  <2>4. breaker'.openFor <= breaker.openFor + 1 /\ breaker'.openFor \in Nat
    BY <2>1, <2>2 DEF IInv, TypeOK, Breaker, Tick, Elapse, AtMost
  <2>5. QED
    BY <2>2, <2>3, <2>4
<1>4. QED
  BY <1>1, <1>2, <1>3 DEF IInv, TrippedIffThreshold, CooldownFloor, OneProbe

\* Each action keeps it.
LEMMA NextIInv == IInv /\ [Next]_vars => IInv'
<1> SUFFICES ASSUME IInv, [Next]_vars PROVE IInv'
  OBVIOUS
<1>1. ASSUME NEW c \in Calls, FetchOne(c) PROVE IInv'
  BY <1>1, FetchOneIInv
<1>2. ASSUME NEW c \in Calls, Answer(c) PROVE IInv'
  BY <1>2, AnswerIInv
<1>3. ASSUME NEW c \in Calls, Fail(c) \/ Expire(c) PROVE IInv'
  BY <1>3, FailureIInv DEF Fail, Expire
<1>4. CASE Tick
  BY <1>4, TickIInv
<1>5. CASE Outage \/ Heal \/ UNCHANGED vars
  BY <1>5 DEF Outage, Heal, vars, IInv, TypeOK, TrippedIffThreshold,
     StragglersPredateTrip, CooldownFloor, OneProbe, InFlight
<1>6. QED
  BY <1>1, <1>2, <1>3, <1>4, <1>5 DEF Next

\* So it holds throughout.
LEMMA InvariantIInv == Spec => []IInv
  BY InitIInv, NextIInv, PTL DEF Spec
-----------------------------------------------------------------------------
\* Every variable keeps its type: failures and cooldowns stay in bounds and no
\* call outlives the reconciler's deadline.
THEOREM TypeCorrect == Spec => []TypeOK
<1>1. IInv => TypeOK
  BY DEF IInv
<1>2. QED
  BY <1>1, InvariantIInv, PTL

\* While a breaker is half-open its probe is the only call to the source.
THEOREM ProbeIsExclusive == Spec => []ProbeExclusive
<1>1. IInv => ProbeExclusive
  BY FS_Singleton DEF IInv, OneProbe, ProbeExclusive
<1>2. QED
  BY <1>1, InvariantIInv, PTL

\* A breaker is closed exactly when fewer than Threshold failures have been
\* recorded since the source last answered.
THEOREM TripsAtThreshold == Spec => []TrippedIffThreshold
<1>1. IInv => TrippedIffThreshold
  BY DEF IInv
<1>2. QED
  BY <1>1, InvariantIInv, PTL

\* Nothing is sent to a source between its trip and its probe.
THEOREM NoCallSinceTrip == Spec => []StragglersPredateTrip
<1>1. IInv => StragglersPredateTrip
  BY DEF IInv
<1>2. QED
  BY <1>1, InvariantIInv, PTL

\* Once every call placed before the trip has had its deadline, only the probe
\* after the full cooldown takes the breaker out of "open".
THEOREM OpenWaitsOutItsCooldown == Spec => SettledOpenWaits
<1> DEFINE Settled == breaker.state = "open" /\ breaker.openFor > Timeout
           Waits == /\ breaker'.cooldown = breaker.cooldown
                    /\ breaker'.state # "open" =>
                          breaker'.state = "half_open" /\ CooledDown(breaker)
<1>1. ASSUME IInv, Settled, [Next]_vars
      PROVE  Waits
  <2>1. InFlight = {}
    <3>1. SUFFICES ASSUME NEW c \in InFlight PROVE FALSE
      OBVIOUS
    <3>2. age[c] >= breaker.openFor
      BY <1>1 DEF IInv, StragglersPredateTrip
    <3>3. age[c] \in 0..Timeout /\ breaker.openFor \in Nat
      BY <1>1 DEF IInv, TypeOK, InFlight, Breaker
    <3>4. QED
      BY <1>1, <3>2, <3>3, TimeoutAssumption
  <2>2. ASSUME NEW c \in Calls, FetchOne(c) PROVE Waits
    <3>1. breaker' = AfterAllow(breaker)
      BY <2>2 DEF FetchOne
    <3>2. QED
      BY <1>1, <3>1 DEF IInv, TypeOK, Breaker, AfterAllow, Grants
  <2>3. ASSUME NEW c \in Calls, Answer(c) \/ Fail(c) \/ Expire(c) PROVE FALSE
    BY <2>1, <2>3 DEF Answer, Fail, Expire, Failure, InFlight
  <2>4. CASE Tick
    BY <1>1, <2>4 DEF IInv, TypeOK, Breaker, Tick, Elapse
  <2>5. CASE Outage \/ Heal \/ UNCHANGED vars
    BY <1>1, <2>5 DEF Outage, Heal, vars
  <2>6. QED
    BY <1>1, <2>2, <2>3, <2>4, <2>5 DEF Next
<1>2. IInv /\ [Next]_vars => [Settled => Waits]_vars
  BY <1>1
<1>3. QED
  BY <1>2, InvariantIInv, PTL DEF Spec, SettledOpenWaits
-----------------------------------------------------------------------------
(* The job that polls                                                       *)

\* The symbol that is being called for counts as attempted.
CalledIsAttempted == cycle.at = "calling" => First(cycle.todo) \in attempted

JobIInv == JobTypeOK /\ ProbeIsReported /\ CalledIsAttempted

\* A set of natural numbers has a least element.
LEMMA LeastNatural ==
    ASSUME NEW S \in SUBSET Nat, S # {}
    PROVE  \E m \in S : \A n \in S : m <= n
<1> DEFINE R == {ss \in Nat \X Nat : ss[1] < ss[2]}
<1>1. IsWellFoundedOn(R, Nat)
  BY NatLessThanWellFounded DEF OpToRel
<1>2. PICK m \in S : \A n \in S : <<n, m>> \notin R
  <2> HIDE DEF R
  <2>1. QED
    BY <1>1, WFMin
<1>3. \A n \in S : ~(n < m)
  BY <1>2
<1>4. QED
  BY <1>3

\* There is a first one among the symbols that are left to poll.
LEMMA FirstOfTodo ==
    ASSUME Symbols \in Nat, NEW S \in SUBSET (1..Symbols), S # {}
    PROVE  First(S) \in S
<1>1. \E m \in S : \A n \in S : m <= n
  <2>1. S \in SUBSET Nat
    OBVIOUS
  <2>2. QED
    BY <2>1, LeastNatural
<1>2. QED
  BY <1>1 DEF First

\* The cycle moves on to the symbols that are left.
LEMMA MovesOn ==
    ASSUME JobTypeOK
    PROVE  Move(cycle) \in Cycle /\ Move(cycle).at = "between"
<1>1. cycle \in Cycle
  BY DEF JobTypeOK
<1> DEFINE left == cycle.todo \ {First(cycle.todo)}
<1>2. left \in SUBSET (1..Symbols)
  BY <1>1 DEF Cycle
<1>3. Move(cycle) = [cycle EXCEPT !.at = "between", !.todo = left, !.age = 0]
  BY DEF Move
<1>4. 0 \in 0..Timeout
  BY TimeoutAssumption
<1> HIDE DEF left
<1>5. QED
  BY <1>1, <1>2, <1>3, <1>4 DEF Cycle

\* A step of the job and its world keeps the invariant: only Call grants a
\* probe, and the cycle then waits for it.
LEMMA JobStep ==
    ASSUME JobIInv, [JobNext]_JobVars
    PROVE  JobIInv'
<1> USE DEF JobIInv, JobTypeOK, ProbeIsReported, CalledIsAttempted
<1>1. Symbols \in Nat /\ Interval \in Nat \ {0} /\ Timeout \in Nat
  BY SymbolsAssumption, IntervalAssumption, TimeoutAssumption
<1>2. CASE Fire \/ SkipFire \/ EndCycle
  <2>1. NoCycle \in Cycle /\ NoCycle.at = "idle"
    BY <1>1 DEF NoCycle, Cycle
  <2>2. [at |-> "between", todo |-> watched, age |-> 0] \in Cycle
    BY <1>1 DEF Cycle
  <2>3. CASE Fire
    BY <1>1, <2>1, <2>2, <2>3 DEF Fire
  <2>4. CASE SkipFire
    BY <1>1, <2>4 DEF SkipFire
  <2>5. CASE EndCycle
    BY <2>1, <2>5 DEF EndCycle
  <2>6. QED
    BY <1>2, <2>3, <2>4, <2>5
<1>3. CASE Call
  <2>1. breaker' \in Breaker
    BY <1>3, BreakerType DEF Call
  <2>2. attempted' \subseteq 1..Symbols
    BY <1>1, <1>3, FirstOfTodo DEF Call, Cycle
  <2>3. CASE Grants(breaker)
    BY <1>3, <2>1, <2>2, <2>3 DEF Call, Cycle
  <2>4. CASE ~Grants(breaker)
    <3>1. breaker' = breaker /\ cycle' = Move(cycle)
      BY <1>3, <2>4 DEF Call, AfterAllow
    <3>2. QED
      BY <1>1, <1>3, <2>1, <2>2, <3>1, MovesOn DEF Call
  <2>5. QED
    BY <2>3, <2>4
<1>4. CASE Answered \/ Failed
  <2>1. breaker' \in Breaker /\ cycle' = Move(cycle)
    BY <1>4, BreakerType DEF Answered, Failed
  <2>2. breaker'.state # "half_open"
    BY <1>4 DEF Answered, Failed, Breaker, AfterSuccess, AfterFailure, Trips
  <2>3. QED
    BY <1>1, <1>4, <2>1, <2>2, MovesOn DEF Answered, Failed
<1>5. CASE JobTick
  <2>1. breaker' \in Breaker /\ breaker'.state = breaker.state
    BY <1>5, BreakerType DEF JobTick, Elapse, Breaker
  <2>2. cycle' \in Cycle /\ cycle'.at = cycle.at /\ cycle'.todo = cycle.todo
    BY <1>1, <1>5 DEF JobTick, Cycle
  <2>3. QED
    BY <1>1, <1>5, <2>1, <2>2 DEF JobTick
<1>6. CASE World \/ UNCHANGED JobVars
  BY <1>6 DEF World, JobVars
<1>7. QED
  BY <1>2, <1>3, <1>4, <1>5, <1>6 DEF JobNext

\* So it holds throughout.
LEMMA JobInvariant == JobSpec => []JobIInv
<1>1. JobInit => JobIInv
  BY InitialBreaker, SymbolsAssumption, IntervalAssumption, TimeoutAssumption
  DEF JobInit, JobIInv, JobTypeOK, ProbeIsReported, CalledIsAttempted, NoCycle, Cycle,
      NewBreaker
<1>2. JobIInv /\ [JobNext]_JobVars => JobIInv'
  BY JobStep
<1>3. QED
  BY <1>1, <1>2, PTL DEF JobSpec

\* Whatever fails in mid-cycle and however many firings are skipped: a breaker
\* is half-open only while the job waits for the probe it sent.
THEOREM ProbesAreReported == JobSpec => []ProbeIsReported
<1>1. JobIInv => ProbeIsReported
  BY DEF JobIInv
<1>2. QED
  BY <1>1, JobInvariant, PTL

\* No cycle passes over a symbol: it sets out with the watched ones, each of
\* its steps keeps them among those it got to or has left, and it ends when
\* none is left.
NoneIsSkipped ==
    [][ /\ cycle.at = "idle" /\ cycle'.at # "idle" =>
             attempted' \cup cycle'.todo = watched
        /\ cycle.at # "idle" =>
             /\ attempted' \cup cycle'.todo = attempted \cup cycle.todo
             /\ cycle'.at = "idle" => cycle'.todo = {}
      ]_JobVars

\* Whatever fails in it, and however the breaker answers, a cycle gets to every
\* symbol it set out with: the safety behind WatchedIsPolled.
THEOREM CyclesSkipNobody == JobSpec => NoneIsSkipped
<1> DEFINE A == /\ cycle.at = "idle" /\ cycle'.at # "idle" =>
                     attempted' \cup cycle'.todo = watched
                /\ cycle.at # "idle" =>
                     /\ attempted' \cup cycle'.todo = attempted \cup cycle.todo
                     /\ cycle'.at = "idle" => cycle'.todo = {}
<1>1. ASSUME JobIInv, JobNext PROVE A
  <2> USE DEF JobIInv, JobTypeOK, CalledIsAttempted
  <2>1. CASE Fire \/ SkipFire \/ EndCycle
    BY <2>1 DEF Fire, SkipFire, EndCycle, NoCycle
  <2>2. CASE Call \/ Answered \/ Failed
    <3>1. /\ cycle \in Cycle /\ cycle.at # "idle" /\ cycle.todo # {}
          /\ cycle.todo \in SUBSET (1..Symbols)
      BY <1>1, <2>2 DEF Call, Answered, Failed, Cycle
    <3>2. First(cycle.todo) \in cycle.todo
      BY <3>1, FirstOfTodo, SymbolsAssumption
    <3>3. attempted' = attempted \cup {First(cycle.todo)}
      BY <1>1, <2>2 DEF Call, Answered, Failed
    <3>4. /\ cycle'.at # "idle"
          /\ cycle'.todo = cycle.todo \/ cycle'.todo = cycle.todo \ {First(cycle.todo)}
      <4>1. CASE cycle' = Move(cycle)
        BY <3>1, <4>1 DEF Move, Cycle
      <4>2. CASE cycle' = [cycle EXCEPT !.at = "calling"]
        BY <3>1, <4>2 DEF Cycle
      <4>3. QED
        BY <2>2, <4>1, <4>2 DEF Call, Answered, Failed
    <3>5. QED
      BY <3>1, <3>2, <3>3, <3>4
  <2>3. CASE JobTick
    BY <1>1, <2>3 DEF JobTick, Cycle
  <2>4. CASE World
    BY <2>4 DEF World
  <2>5. QED
    BY <1>1, <2>1, <2>2, <2>3, <2>4 DEF JobNext
<1>2. JobIInv /\ [JobNext]_JobVars => [A]_JobVars
  BY <1>1
<1>3. QED
  BY <1>2, JobInvariant, PTL DEF JobSpec, NoneIsSkipped

\* The breaker of a poller that nobody else calls beside: while it is open no call
\* is out, and it is closed exactly while its failures are below the threshold.
PollersBreaker ==
    /\ TrippedIffThreshold
    /\ breaker.state = "open" => cycle.at # "calling"

\* An open breaker that only the poller uses is left by the probe and after its full
\* cooldown, which nothing lengthens or cuts short.
OpenWaitsForThePoller ==
    [][ breaker.state = "open" =>
          /\ breaker'.cooldown = breaker.cooldown
          /\ breaker'.state # "open" =>
                breaker'.state = "half_open" /\ CooledDown(breaker)
      ]_JobVars

\* The calls of the poller, as the breaker sees them.
LEMMA PollersBreakerStep ==
    ASSUME JobIInv, PollersBreaker, JobNext
    PROVE  /\ PollersBreaker'
           /\ breaker.state = "open" =>
                /\ breaker'.cooldown = breaker.cooldown
                /\ breaker'.state # "open" =>
                      breaker'.state = "half_open" /\ CooledDown(breaker)
<1> USE ThresholdAssumption DEF PollersBreaker, TrippedIffThreshold
<1>1. breaker \in Breaker /\ cycle \in Cycle
  BY DEF JobIInv, JobTypeOK
<1>2. CASE Call
  <2>1. CASE breaker.state # "closed" /\ Grants(breaker)
    <3>1. breaker.state = "open" /\ CooledDown(breaker)
      BY <1>1, <1>2, <2>1 DEF JobIInv, ProbeIsReported, Call, Grants, Breaker
    <3>2. /\ breaker'.state = "half_open" /\ breaker'.failures = breaker.failures
          /\ breaker'.cooldown = breaker.cooldown
      BY <1>1, <1>2, <2>1 DEF Call, AfterAllow, Breaker
    <3>3. QED
      BY <3>1, <3>2
  <2>2. CASE breaker.state = "closed"
    BY <1>2, <2>2 DEF Call, AfterAllow
  <2>3. CASE ~Grants(breaker)
    <3>1. breaker' = breaker /\ cycle' = Move(cycle)
      BY <1>2, <2>3 DEF Call, AfterAllow
    <3>2. cycle'.at # "calling"
      BY <1>1, <3>1, MovesOn DEF JobIInv
    <3>3. QED
      BY <3>1, <3>2
  <2>4. QED
    BY <2>1, <2>2, <2>3
<1>3. CASE Answered \/ Failed
  <2>1. /\ breaker.state # "open" /\ cycle'.at # "calling"
        /\ breaker' \in {AfterSuccess(breaker), AfterFailure(breaker)}
    BY <1>1, <1>3, MovesOn DEF Answered, Failed, JobIInv
  <2>2. CASE breaker' = AfterSuccess(breaker)
    BY <1>1, <2>1, <2>2 DEF AfterSuccess, Breaker
  <2>3. CASE breaker' = AfterFailure(breaker)
    <3>1. CASE Trips(breaker)
      <4>1. /\ breaker'.state = "open"
            /\ breaker'.failures = AtMost(breaker.failures + 1, Threshold)
        BY <1>1, <2>3, <3>1 DEF AfterFailure, Breaker
      <4>2. breaker.failures \in 0..Threshold
        BY <1>1 DEF Breaker
      <4>3. breaker.failures + 1 >= Threshold
        BY <3>1, <4>2 DEF Trips
      <4>4. QED
        BY <2>1, <4>1, <4>2, <4>3 DEF AtMost
    <3>2. CASE ~Trips(breaker)
      <4>1. /\ breaker'.state = breaker.state
            /\ breaker'.failures = AtMost(breaker.failures + 1, Threshold)
        BY <1>1, <2>3, <3>2 DEF AfterFailure, Breaker
      <4>2. breaker.failures \in 0..Threshold /\ breaker.failures + 1 < Threshold
        BY <1>1, <3>2 DEF Trips, Breaker
      <4>3. QED
        BY <2>1, <4>1, <4>2 DEF AtMost
    <3>3. QED
      BY <3>1, <3>2
  <2>4. QED
    BY <2>1, <2>2, <2>3
<1>4. CASE JobTick
  <2>1. /\ breaker'.state = breaker.state /\ breaker'.failures = breaker.failures
        /\ breaker'.cooldown = breaker.cooldown
    BY <1>1, <1>4 DEF JobTick, Elapse, Breaker
  <2>2. cycle'.at = cycle.at
    BY <1>1, <1>4 DEF JobTick, Cycle
  <2>3. QED
    BY <2>1, <2>2
<1>5. CASE Fire \/ SkipFire \/ EndCycle \/ World
  BY <1>5 DEF Fire, SkipFire, EndCycle, World, NoCycle
<1>6. QED
  BY <1>2, <1>3, <1>4, <1>5 DEF JobNext

\* What SourceCalls promises of concurrent callers, the cycle has in full although
\* it asks for symbols that the source does not know.
THEOREM ThePollersBreakerWaits ==
    JobSpec => []TrippedIffThreshold /\ OpenWaitsForThePoller
<1> DEFINE Waits == breaker.state = "open" =>
                      /\ breaker'.cooldown = breaker.cooldown
                      /\ breaker'.state # "open" =>
                            breaker'.state = "half_open" /\ CooledDown(breaker)
<1>1. JobInit => PollersBreaker
  BY ThresholdAssumption DEF JobInit, NewBreaker, PollersBreaker, TrippedIffThreshold
<1>2. JobIInv /\ PollersBreaker /\ [JobNext]_JobVars => PollersBreaker' /\ [Waits]_JobVars
  <2>1. ASSUME JobIInv, PollersBreaker, JobNext PROVE PollersBreaker' /\ Waits
    BY <2>1, PollersBreakerStep
  <2>2. ASSUME PollersBreaker, UNCHANGED JobVars PROVE PollersBreaker'
    BY <2>2 DEF JobVars, PollersBreaker, TrippedIffThreshold
  <2>3. QED
    BY <2>1, <2>2
<1>3. PollersBreaker => TrippedIffThreshold
  BY DEF PollersBreaker
<1>4. QED
  BY <1>1, <1>2, <1>3, JobInvariant, PTL DEF JobSpec, OpenWaitsForThePoller
-----------------------------------------------------------------------------
(* The session behind the calls                                             *)

\* A fetch that found the session warm makes one request, its quote's.
WarmAsksOnce ==
    \A f \in Fetches : fetch[f].at # "idle" /\ ~fetch[f].cold =>
        Quoting(f) /\ fetch[f].age = fetch[f].waited

SessionIInv == SessionTypeOK /\ WarmAsksOnce /\ DeadlineSparesWarmFetch

\* One fetch changes to r, the others do not.
LEMMA FetchChanges ==
    ASSUME SessionIInv, NEW f \in Fetches, NEW r \in Fetch,
           fetch' = [fetch EXCEPT ![f] = r], warmed' \in BOOLEAN,
           r.at = "warming" <=> r.left # 0,
           r.at # "idle" /\ ~r.cold => r.at = "quoting" /\ r.age = r.waited,
           r.outcome = "reconciler_timeout" => r.cold
    PROVE  SessionIInv'
<1>1. fetch' \in [Fetches -> Fetch]
  BY DEF SessionIInv, SessionTypeOK
<1>2. \A g \in Fetches : fetch'[g] = IF g = f THEN r ELSE fetch[g]
  BY DEF SessionIInv, SessionTypeOK
<1>3. QED
  BY <1>1, <1>2 DEF SessionIInv, SessionTypeOK, WarmAsksOnce,
     DeadlineSparesWarmFetch, Warming, Quoting

\* Steps of the fetches and of time keep the invariant.
LEMMA SessionStep ==
    ASSUME SessionIInv, [SessionNext]_SessionVars
    PROVE  SessionIInv'
<1>1. /\ WarmRequests \in Nat \ {0} /\ RequestTimeout \in Nat /\ Deadline \in Nat
      /\ RequestTimeout < Deadline
  BY RequestAssumption, DeadlineAssumption
<1>0. /\ {0, WarmRequests} \subseteq 0..WarmRequests
      /\ 0 \in 0..RequestTimeout /\ 0 \in 0..Deadline
  BY <1>1
<1>2. ASSUME NEW outcome \in {"none", "ok", "error", "raised", "reconciler_timeout"}
      PROVE  Idle(outcome) \in Fetch
  BY <1>0 DEF Idle, Fetch
<1>3. ASSUME NEW f \in Fetches, Begin(f)
      PROVE  SessionIInv'
  <2> DEFINE quoting == [Idle("none") EXCEPT !.at = "quoting"]
             warming == [Idle("none") EXCEPT
                            !.at = "warming", !.left = WarmRequests, !.cold = TRUE]
  <2>1. /\ quoting \in Fetch /\ quoting.at = "quoting" /\ quoting.left = 0
        /\ quoting.waited = 0 /\ quoting.age = 0 /\ quoting.outcome = "none"
    BY <1>0 DEF Idle, Fetch
  <2>2. /\ warming \in Fetch /\ warming.at = "warming"
        /\ warming.left = WarmRequests /\ warming.cold
    BY <1>0 DEF Idle, Fetch
  <2>3. /\ warmed' \in BOOLEAN
        /\ fetch' = [fetch EXCEPT ![f] = IF warmed THEN quoting ELSE warming]
    BY <1>3 DEF Begin, SessionIInv, SessionTypeOK
  <2> HIDE DEF quoting, warming
  <2>4. CASE warmed
    <3>1. fetch' = [fetch EXCEPT ![f] = quoting]
      BY <2>3, <2>4
    <3>2. QED
      BY <2>1, <2>3, <3>1, FetchChanges
  <2>5. CASE ~warmed
    <3>1. fetch' = [fetch EXCEPT ![f] = warming]
      BY <2>3, <2>5
    <3>2. QED
      BY <1>1, <2>2, <2>3, <3>1, FetchChanges
  <2>6. QED
    BY <2>4, <2>5
<1>4. ASSUME NEW f \in Fetches, NEW outcome \in {"ok", "error", "raised"},
             fetch' = [fetch EXCEPT ![f] = Idle(outcome)], warmed' \in BOOLEAN
      PROVE  SessionIInv'
  <2>1. /\ Idle(outcome) \in Fetch
        /\ Idle(outcome).at = "idle" /\ Idle(outcome).left = 0
        /\ Idle(outcome).outcome # "reconciler_timeout"
    BY <1>2 DEF Idle
  <2>2. QED
    BY <1>4, <2>1, FetchChanges
<1>5. ASSUME NEW f \in Fetches, WarmReply(f)
      PROVE  SessionIInv'
  <2> DEFINE fewer == [fetch[f] EXCEPT !.left = fetch[f].left - 1, !.waited = 0]
             asking == [fetch[f] EXCEPT !.at = "quoting", !.left = 0, !.waited = 0]
  <2>1. /\ fetch[f] \in Fetch /\ fetch[f].at = "warming"
        /\ fetch[f].cold
    BY <1>5 DEF WarmReply, SessionIInv, SessionTypeOK, WarmAsksOnce,
       Warming, Quoting
  <2>2. /\ asking \in Fetch /\ asking.at = "quoting" /\ asking.left = 0
        /\ asking.cold
    BY <1>0, <2>1 DEF Fetch
  <2>3. ASSUME fetch[f].left > 1
        PROVE  /\ fewer \in Fetch /\ fewer.at = "warming" /\ fewer.left # 0
               /\ fewer.cold
    <3>1. fetch[f].left - 1 \in 0..WarmRequests /\ fetch[f].left - 1 # 0
      BY <1>1, <2>1, <2>3 DEF Fetch
    <3>2. /\ fewer \in Fetch /\ fewer.at = "warming" /\ fewer.cold
          /\ fewer.left = fetch[f].left - 1
      BY <1>0, <2>1, <3>1 DEF Fetch
    <3>3. QED
      BY <3>1, <3>2
  <2>4. /\ fetch' = [fetch EXCEPT ![f] = IF fetch[f].left > 1 THEN fewer ELSE asking]
        /\ warmed' = (warmed \/ fetch[f].left = 1)
    BY <1>5 DEF WarmReply
  <2>5. warmed' \in BOOLEAN
    BY <2>4
  <2> HIDE DEF fewer, asking
  <2>6. CASE fetch[f].left > 1
    <3>1. fetch' = [fetch EXCEPT ![f] = fewer]
      BY <2>4, <2>6
    <3>2. QED
      BY <2>3, <2>5, <2>6, <3>1, FetchChanges
  <2>7. CASE ~(fetch[f].left > 1)
    <3>1. fetch' = [fetch EXCEPT ![f] = asking]
      BY <2>4, <2>7
    <3>2. QED
      BY <2>2, <2>5, <3>1, FetchChanges
  <2>8. QED
    BY <2>6, <2>7
<1>6. ASSUME NEW f \in Fetches, Cancel(f)
      PROVE  SessionIInv'
  <2> DEFINE r == [Idle("reconciler_timeout") EXCEPT !.cold = fetch[f].cold]
  <2>1. fetch[f] \in Fetch /\ fetch[f].age = Deadline /\ fetch[f].at # "idle"
    BY <1>6 DEF Cancel, SessionIInv, SessionTypeOK
  <2>2. fetch[f].cold
    BY <1>1, <2>1 DEF SessionIInv, WarmAsksOnce, Fetch
  <2>3. fetch' = [fetch EXCEPT ![f] = r] /\ warmed' \in BOOLEAN
    BY <1>6 DEF Cancel, SessionIInv, SessionTypeOK
  <2>4. fetch[f].cold \in BOOLEAN /\ Idle("reconciler_timeout") \in Fetch
    BY <1>2, <2>1 DEF Fetch
  <2>5. r \in Fetch /\ r.at = "idle" /\ r.left = 0 /\ r.cold = fetch[f].cold
    BY <2>4 DEF Idle, Fetch
  <2> HIDE DEF r
  <2>6. QED
    BY <2>2, <2>3, <2>5, FetchChanges
<1>7. CASE SessionTick
  <2>1. ASSUME NEW f \in Fetches, fetch[f].at # "idle"
        PROVE  /\ fetch'[f] = [fetch[f] EXCEPT !.waited = fetch[f].waited + 1,
                                               !.age = fetch[f].age + 1]
               /\ fetch[f] \in Fetch
               /\ fetch[f].waited < RequestTimeout /\ fetch[f].age < Deadline
    BY <1>7, <2>1 DEF SessionTick, SessionIInv, SessionTypeOK
  <2>2. ASSUME NEW f \in Fetches
        PROVE  /\ fetch'[f] \in Fetch
               /\ fetch'[f].at = fetch[f].at /\ fetch'[f].left = fetch[f].left
               /\ fetch'[f].cold = fetch[f].cold /\ fetch'[f].outcome = fetch[f].outcome
               /\ fetch[f].at # "idle" /\ fetch[f].age = fetch[f].waited
                    => fetch'[f].age = fetch'[f].waited
    <3>1. CASE fetch[f].at = "idle"
      BY <1>7, <3>1 DEF SessionTick, SessionIInv, SessionTypeOK
    <3>2. CASE fetch[f].at # "idle"
      <4> DEFINE r == [fetch[f] EXCEPT !.waited = fetch[f].waited + 1,
                                       !.age = fetch[f].age + 1]
      <4>1. fetch'[f] = r /\ fetch[f] \in Fetch
        BY <2>1, <3>2
      <4>2. /\ fetch[f].waited + 1 \in 0..RequestTimeout
            /\ fetch[f].age + 1 \in 0..Deadline
        <5>1. fetch[f].waited \in 0..RequestTimeout /\ fetch[f].age \in 0..Deadline
          BY <2>1, <3>2 DEF Fetch
        <5>2. fetch[f].waited < RequestTimeout /\ fetch[f].age < Deadline
          BY <2>1, <3>2
        <5>3. QED
          BY <1>1, <5>1, <5>2
      <4>3. /\ r \in Fetch /\ r.at = fetch[f].at /\ r.left = fetch[f].left
            /\ r.cold = fetch[f].cold /\ r.outcome = fetch[f].outcome
            /\ r.waited = fetch[f].waited + 1 /\ r.age = fetch[f].age + 1
        BY <4>1, <4>2 DEF Fetch
      <4> HIDE DEF r
      <4>4. QED
        BY <4>1, <4>3
    <3>3. QED
      BY <3>1, <3>2
  <2>3. fetch' \in [Fetches -> Fetch] /\ warmed' = warmed
    BY <1>7, <2>2 DEF SessionTick
  <2>4. QED
    BY <2>2, <2>3 DEF SessionIInv, SessionTypeOK, WarmAsksOnce,
       DeadlineSparesWarmFetch, Warming, Quoting
<1>8. CASE UNCHANGED SessionVars
  BY <1>8 DEF SessionVars, SessionIInv, SessionTypeOK, WarmAsksOnce,
     DeadlineSparesWarmFetch, Warming, Quoting
<1>9. QED
  BY <1>3, <1>4, <1>5, <1>6, <1>7, <1>8
  DEF SessionNext, Unlisted, WarmRaises, QuoteReply,
      QuoteRejected, SessionIInv, SessionTypeOK

\* When the reconciler cuts a fetch off, it had to warm the session: the one
\* request of any other is over before the deadline.
THEOREM WarmFetchesAreSpared == SessionSpec => []DeadlineSparesWarmFetch
<1>1. SessionInit => SessionIInv
  <2>1. /\ Idle("none") \in Fetch
        /\ Idle("none").at = "idle" /\ Idle("none").left = 0
        /\ Idle("none").outcome = "none"
    BY RequestAssumption, DeadlineAssumption DEF Idle, Fetch
  <2>2. QED
    BY <2>1 DEF SessionInit, SessionIInv, SessionTypeOK, WarmAsksOnce,
       DeadlineSparesWarmFetch, Warming, Quoting
<1>2. SessionIInv /\ [SessionNext]_SessionVars => SessionIInv'
  BY SessionStep
<1>3. SessionIInv => DeadlineSparesWarmFetch
  BY DEF SessionIInv
<1>4. QED
  BY <1>1, <1>2, <1>3, PTL DEF SessionSpec
=============================================================================
