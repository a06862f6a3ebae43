------------------------------ MODULE Adapter ------------------------------
(***************************************************************************)
(* The session-keeping adapters, sources/bse.py and sources/nse.py: a      *)
(* fetch warms the shared HTTP session if it is cold, then asks for the    *)
(* quote.  Each request has the adapter's own timeout; the whole fetch     *)
(* runs under the reconciler's deadline, whose cancellation no             *)
(* "except Exception" of an adapter sees.                                  *)
(***************************************************************************)
EXTENDS Integers

CONSTANTS
    Fetches,        \* fetches that may overlap: scheduler, populate
    WarmRequests,   \* requests it takes to warm a session: 1 (BSE), 2 (NSE)
    RequestTimeout, \* timeout_s, in ticks
    Deadline        \* PER_SOURCE_TIMEOUT_S, in ticks

ASSUME RequestAssumption == WarmRequests \in Nat \ {0} /\ RequestTimeout \in Nat
ASSUME DeadlineAssumption == Deadline \in Nat /\ RequestTimeout < Deadline

VARIABLES
    warmed,     \* _session_warmed
    fetch       \* per fetch: [at, left, waited, age, cold, outcome]

SessionVars == <<warmed, fetch>>

\* at: "idle", "warming" (left requests to go, this one included) or "quoting";
\* waited is the age of the current request, age that of the fetch; cold says
\* whether the fetch had to warm the session; outcome is the last one's.
Idle(outcome) == [at |-> "idle", left |-> 0, waited |-> 0, age |-> 0,
                  cold |-> FALSE, outcome |-> outcome]

Warming(f) == fetch[f].at = "warming"
Quoting(f) == fetch[f].at = "quoting"

SessionInit ==
    /\ warmed = FALSE
    /\ fetch = [f \in Fetches |-> Idle("none")]

\* fetch() up to its first request; _ensure_session skips a warm session.
Begin(f) ==
    /\ fetch[f].at = "idle"
    /\ fetch' = [fetch EXCEPT ![f] =
           IF warmed
           THEN [Idle("none") EXCEPT !.at = "quoting"]
           ELSE [Idle("none") EXCEPT !.at = "warming", !.left = WarmRequests,
                                     !.cold = TRUE]]
    /\ UNCHANGED warmed

\* No scrip code (BSE): an error reading without any request.
Unlisted(f) ==
    /\ fetch[f].at = "idle"
    /\ fetch' = [fetch EXCEPT ![f] = Idle("error")]
    /\ UNCHANGED warmed

WarmReply(f) ==
    /\ Warming(f)
    /\ fetch' = [fetch EXCEPT ![f] =
           IF fetch[f].left > 1 THEN [@ EXCEPT !.left = fetch[f].left - 1, !.waited = 0]
           ELSE [@ EXCEPT !.at = "quoting", !.left = 0, !.waited = 0]]
    /\ warmed' = (warmed \/ fetch[f].left = 1)

\* A warming request raises, at its timeout at the latest: session_warm_failed.
WarmRaises(f) ==
    /\ Warming(f)
    /\ fetch' = [fetch EXCEPT ![f] = Idle("error")]
    /\ UNCHANGED warmed

\* A 200: with a price, with a body that has none, or with one of another
\* shape, which raises out of the adapter.
QuoteReply(f, outcome) ==
    /\ Quoting(f) /\ outcome \in {"ok", "error", "raised"}
    /\ fetch' = [fetch EXCEPT ![f] = Idle(outcome)]
    /\ UNCHANGED warmed

\* The quote request raises or is answered with another status: the session is
\* no longer trusted.
QuoteRejected(f) ==
    /\ Quoting(f)
    /\ fetch' = [fetch EXCEPT ![f] = Idle("error")]
    /\ warmed' = FALSE

\* wait_for cancels the fetch where it stands; nothing is cleaned up.
Cancel(f) ==
    /\ fetch[f].at # "idle" /\ fetch[f].age = Deadline
    /\ fetch' = [fetch EXCEPT ![f] =
           [Idle("reconciler_timeout") EXCEPT !.cold = fetch[f].cold]]
    /\ UNCHANGED warmed

\* Mutant of SessionTick: a request without a timeout of its own.
SessionTickPatient ==
    /\ \A f \in Fetches : fetch[f].at # "idle" => fetch[f].age < Deadline
    /\ fetch' = [f \in Fetches |->
           IF fetch[f].at = "idle" THEN fetch[f]
           ELSE [fetch[f] EXCEPT !.waited = @ + 1, !.age = @ + 1]]
    /\ UNCHANGED warmed

\* Every request honours its own timeout, every fetch its deadline.
SessionTick ==
    /\ \A f \in Fetches : fetch[f].at # "idle" =>
         fetch[f].waited < RequestTimeout /\ fetch[f].age < Deadline
    /\ fetch' = [f \in Fetches |->
           IF fetch[f].at = "idle" THEN fetch[f]
           ELSE [fetch[f] EXCEPT !.waited = @ + 1, !.age = @ + 1]]
    /\ UNCHANGED warmed

SessionNext ==
    \/ \E f \in Fetches :
         \/ Begin(f) \/ Unlisted(f) \/ WarmReply(f) \/ WarmRaises(f)
         \/ QuoteReply(f, "ok") \/ QuoteReply(f, "error") \/ QuoteReply(f, "raised")
         \/ QuoteRejected(f) \/ Cancel(f)
    \/ SessionTick

SessionSpec == SessionInit /\ [][SessionNext]_SessionVars
-----------------------------------------------------------------------------
(* Properties *)

Fetch == [at : {"idle", "warming", "quoting"}, left : 0..WarmRequests,
          waited : 0..RequestTimeout, age : 0..Deadline, cold : BOOLEAN,
          outcome : {"none", "ok", "error", "raised", "reconciler_timeout"}]

SessionTypeOK ==
    /\ warmed \in BOOLEAN
    /\ fetch \in [Fetches -> Fetch]
    /\ \A f \in Fetches : Warming(f) <=> fetch[f].left # 0

\* The reconciler's deadline never cuts off a fetch that found the session
\* warm: one request honouring its timeout fits in it.
DeadlineSparesWarmFetch ==
    \A f \in Fetches :
        fetch[f].outcome = "reconciler_timeout" => fetch[f].cold
=============================================================================
