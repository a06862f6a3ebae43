------------------------------- MODULE Source -------------------------------
(***************************************************************************)
(* One market data source as its callers see it: its circuit breaker,      *)
(* whether it answers, and the deadline the reconciler gives every call.   *)
(***************************************************************************)
EXTENDS CircuitBreaker

CONSTANT
    Timeout     \* PER_SOURCE_TIMEOUT_S, in ticks: the most a call takes

ASSUME TimeoutAssumption == Timeout \in Nat

VARIABLES
    breaker,    \* source.breaker
    healthy     \* the world: does the source answer with a price in time, for
                \* the symbols it knows?
=============================================================================
