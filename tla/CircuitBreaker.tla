--------------------------- MODULE CircuitBreaker ---------------------------
(***************************************************************************)
(* The per-source circuit breaker of market_data.py (class                 *)
(* CircuitBreaker): a record and the three operations its owner calls.     *)
(* The module has no variables, so that every module with a source in it   *)
(* (Source, and with it SourceCalls and Scheduler) can hold its breaker.     *)
(*                                                                         *)
(* Time is relative.  The code stores _opened_at and compares              *)
(* time.monotonic() - _opened_at with the cooldown; the record keeps that  *)
(* difference, openFor, which Elapse advances.  Nothing reads it beyond    *)
(* the longest cooldown, so it stops at MaxCooldown; likewise nothing      *)
(* reads the failure count beyond the threshold, so it stops there.        *)
(***************************************************************************)
EXTENDS Integers

CONSTANTS
    Threshold,      \* failure_threshold: consecutive failures that trip it
    BaseCooldown,   \* base_cooldown_s, in ticks
    MaxCooldown     \* max_cooldown_s, in ticks

ASSUME ThresholdAssumption == Threshold \in Nat \ {0}
ASSUME CooldownAssumption ==
    /\ BaseCooldown \in Nat \ {0}
    /\ MaxCooldown \in Nat
    /\ BaseCooldown <= MaxCooldown

CircuitStates == {"closed", "open", "half_open"}

Breaker ==
    [state : CircuitStates,
     failures : 0..Threshold,
     openFor : 0..MaxCooldown,
     cooldown : BaseCooldown..MaxCooldown,
     probeInflight : BOOLEAN]

AtMost(n, cap) == IF n <= cap THEN n ELSE cap

\* __init__.  _opened_at is None: openFor is read only once the breaker opened.
NewBreaker ==
    [state |-> "closed", failures |-> 0, openFor |-> 0,
     cooldown |-> BaseCooldown, probeInflight |-> FALSE]

CooledDown(b) == b.openFor >= b.cooldown

\* allow() returns a verdict and may move the breaker: Grants is the verdict,
\* AfterAllow the breaker it leaves behind.
\* Mutants of Grants: a probe beside the probe; no cooldown.
GrantsEveryProbe(b) ==
    b.state # "open" \/ CooledDown(b)

GrantsWhileOpen(b) ==
    b.state # "half_open" \/ ~b.probeInflight

Grants(b) ==
    \/ b.state = "closed"
    \/ b.state = "open" /\ CooledDown(b)
    \/ b.state = "half_open" /\ ~b.probeInflight

\* Mutants of AfterAllow: the granted probe leaves the state alone; a refusal
\* starts the cooldown anew.
AfterAllowStaysOpen(b) ==
    [b EXCEPT !.probeInflight = b.state # "closed" /\ Grants(b)]

AfterAllowRestartsClock(b) ==
    IF b.state = "closed" THEN b
    ELSE IF Grants(b) THEN [b EXCEPT !.state = "half_open", !.probeInflight = TRUE]
    ELSE [b EXCEPT !.openFor = 0]

AfterAllow(b) ==
    IF b.state = "closed" \/ ~Grants(b)
    THEN b
    ELSE [b EXCEPT !.state = "half_open", !.probeInflight = TRUE]

\* Mutants of AfterSuccess: the count survives; the state does.
AfterSuccessKeepsFailures(b) ==
    [b EXCEPT !.state = "closed", !.cooldown = BaseCooldown,
              !.probeInflight = FALSE]

AfterSuccessStaysHalfOpen(b) ==
    [b EXCEPT !.failures = 0, !.cooldown = BaseCooldown, !.probeInflight = FALSE]

AfterSuccess(b) ==
    [b EXCEPT !.state = "closed", !.failures = 0,
              !.cooldown = BaseCooldown, !.probeInflight = FALSE]

Trips(b) == b.state = "half_open" \/ b.failures + 1 >= Threshold

\* Mutant of NextCooldown: the doubling has no cap.
NextCooldownUncapped(b) == 2 * b.cooldown

NextCooldown(b) == AtMost(2 * b.cooldown, MaxCooldown)

AfterFailure(b) ==
    LET counted == [b EXCEPT !.failures = AtMost(b.failures + 1, Threshold),
                             !.probeInflight = FALSE]
    IN  IF Trips(b)
        THEN [counted EXCEPT !.state = "open", !.openFor = 0,
                             !.cooldown = NextCooldown(b)]
        ELSE counted

\* One tick of time.monotonic(): openFor is only ever read of an open breaker.
Elapse(b) ==
    IF b.state = "open"
    THEN [b EXCEPT !.openFor = AtMost(b.openFor + 1, MaxCooldown)]
    ELSE b
=============================================================================
