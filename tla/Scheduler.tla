----------------------------- MODULE Scheduler -----------------------------
(***************************************************************************)
(* The background poller of scheduler.py over one source and its breaker:  *)
(* an interval job that, when the market is open, takes the distinct       *)
(* watched symbols and polls them one after the other.  The breaker        *)
(* belongs to the source and is shared by all symbols, the ones the source *)
(* has never heard of included.                                            *)
(*                                                                         *)
(* Symbols are numbered in the order SELECT DISTINCT returns them, which   *)
(* is that of the index on watchlist_items.symbol: the same every cycle.   *)
(***************************************************************************)
EXTENDS Source

CONSTANTS
    Symbols,    \* the number of symbols users may watch
    Known,      \* those of 1..Symbols the source can answer for
    Interval    \* POLL_INTERVAL_MINUTES, in ticks

ASSUME SymbolsAssumption == Symbols \in Nat /\ Known \subseteq 1..Symbols
ASSUME IntervalAssumption == Interval \in Nat \ {0}

VARIABLES
    watched,    \* the distinct symbols of watchlist_items
    marketOpen,
    sinceFire,  \* ticks since the job last came due
    cycle,      \* the running cycle: [at, todo, age], see NoCycle
    attempted   \* history: the symbols the running or last cycle got to

JobVars == <<breaker, watched, marketOpen, healthy, sinceFire, cycle, attempted>>

\* at is "idle", "between" two symbols, or "calling" for the first of todo,
\* the rest of what distinct_watched_symbols returned.
NoCycle == [at |-> "idle", todo |-> {}, age |-> 0]

First(S) == CHOOSE k \in S : \A j \in S : k <= j

JobInit ==
    /\ breaker = NewBreaker
    /\ watched \in SUBSET (1..Symbols)
    /\ marketOpen \in BOOLEAN
    /\ healthy = TRUE
    /\ sinceFire = Interval         \* next_run_time = now: fires on startup
    /\ cycle = NoCycle
    /\ attempted = {}

\* poll_all_watched_symbols begins: the market is looked at once per cycle.
Fire ==
    /\ sinceFire = Interval /\ cycle.at = "idle"
    /\ sinceFire' = 0
    /\ cycle' = IF marketOpen /\ watched # {}
                THEN [at |-> "between", todo |-> watched, age |-> 0]
                ELSE NoCycle
    /\ attempted' = {}
    /\ UNCHANGED <<breaker, watched, marketOpen, healthy>>

\* APScheduler runs one instance of the job: a firing that finds the last
\* cycle still running is skipped.
SkipFire ==
    /\ sinceFire = Interval /\ cycle.at # "idle"
    /\ sinceFire' = 0
    /\ UNCHANGED <<breaker, watched, marketOpen, healthy, cycle, attempted>>

Move(c) == [c EXCEPT !.at = "between", !.todo = @ \ {First(@)}, !.age = 0]

\* poll_and_detect of the next symbol reaches the source's breaker.
Call ==
    /\ cycle.at = "between" /\ cycle.todo # {}
    /\ breaker' = AfterAllow(breaker)
    /\ attempted' = attempted \cup {First(cycle.todo)}
    /\ cycle' = IF Grants(breaker) THEN [cycle EXCEPT !.at = "calling"]
                ELSE Move(cycle)
    /\ UNCHANGED <<watched, marketOpen, healthy, sinceFire>>

Answered ==
    /\ cycle.at = "calling" /\ First(cycle.todo) \in Known
    /\ breaker' = AfterSuccess(breaker)
    /\ cycle' = Move(cycle)
    /\ UNCHANGED <<watched, marketOpen, healthy, sinceFire, attempted>>

\* Mutants of Failed: a call that ran into its deadline reports nothing; a
\* failure escapes the loop over the symbols.
FailedTimeoutUnreported ==
    /\ cycle.at = "calling" /\ (healthy => First(cycle.todo) \notin Known)
    /\ breaker' = IF cycle.age = Timeout THEN breaker ELSE AfterFailure(breaker)
    /\ cycle' = Move(cycle)
    /\ UNCHANGED <<watched, marketOpen, healthy, sinceFire, attempted>>

FailedEndsCycle ==
    /\ cycle.at = "calling" /\ (healthy => First(cycle.todo) \notin Known)
    /\ breaker' = AfterFailure(breaker)
    /\ cycle' = NoCycle
    /\ UNCHANGED <<watched, marketOpen, healthy, sinceFire, attempted>>

\* An error reading: the source is down, or has no such symbol
\* ("symbol_not_found", "unknown_scrip_code").  The breaker cannot tell.
\* What the rest of the poll raises is logged and ends it the same way.
Failed ==
    /\ cycle.at = "calling" /\ (healthy => First(cycle.todo) \notin Known)
    /\ breaker' = AfterFailure(breaker)
    /\ cycle' = Move(cycle)
    /\ UNCHANGED <<watched, marketOpen, healthy, sinceFire, attempted>>

EndCycle ==
    /\ cycle.at = "between" /\ cycle.todo = {}
    /\ cycle' = NoCycle
    /\ UNCHANGED <<breaker, watched, marketOpen, healthy, sinceFire, attempted>>

\* Time: the job is fired when it is due, and a call has its deadline.
JobTick ==
    /\ sinceFire < Interval
    /\ cycle.at = "calling" => cycle.age < Timeout
    /\ sinceFire' = sinceFire + 1
    /\ breaker' = Elapse(breaker)
    /\ cycle' = IF cycle.at = "calling" THEN [cycle EXCEPT !.age = @ + 1] ELSE cycle
    /\ UNCHANGED <<watched, marketOpen, healthy, attempted>>

\* The world: users edit their lists, the market and the source come and go.
World ==
    \/ /\ \E k \in 1..Symbols :
            watched' = IF k \in watched THEN watched \ {k} ELSE watched \cup {k}
       /\ UNCHANGED <<breaker, marketOpen, healthy, sinceFire, cycle, attempted>>
    \/ /\ marketOpen' = ~marketOpen
       /\ UNCHANGED <<breaker, watched, healthy, sinceFire, cycle, attempted>>
    \/ /\ healthy' = ~healthy
       /\ UNCHANGED <<breaker, watched, marketOpen, sinceFire, cycle, attempted>>

JobNext ==
    \/ Fire \/ SkipFire \/ Call \/ Answered \/ Failed \/ EndCycle
    \/ JobTick \/ World

JobSpec == JobInit /\ [][JobNext]_JobVars

\* Time passes, the job fires, the event loop runs the cycle on, and a call
\* returns: an unhealthy source fails by its deadline.
JobFairness ==
    /\ WF_JobVars(JobTick) /\ WF_JobVars(Fire) /\ WF_JobVars(SkipFire) /\ WF_JobVars(Call)
    /\ WF_JobVars(Answered \/ Failed) /\ WF_JobVars(EndCycle)

JobFairSpec == JobSpec /\ JobFairness
-----------------------------------------------------------------------------
(* Properties *)

Cycle == [at : {"idle", "between", "calling"}, todo : SUBSET (1..Symbols),
          age : 0..Timeout]

JobTypeOK ==
    /\ breaker \in Breaker
    /\ watched \subseteq 1..Symbols /\ attempted \subseteq 1..Symbols
    /\ marketOpen \in BOOLEAN /\ healthy \in BOOLEAN
    /\ sinceFire \in 0..Interval
    /\ cycle \in Cycle
    /\ cycle.at = "calling" => cycle.todo # {}

\* The breaker is half-open exactly while the poller's one call is its probe:
\* no cycle ends, and no job is skipped, leaving a probe that nobody reports.
ProbeIsReported == breaker.state = "half_open" => cycle.at = "calling"

\* A symbol that stays watched is polled again and again while the market is
\* open, whatever fails before it in the cycle.
WatchedIsPolled ==
    \A k \in 1..Symbols :
        <>[](marketOpen /\ k \in watched) => []<>(k \in attempted)

\* README.md:182 (chaos scenario 8): "Source recovers | Breaker half-opens and
\* re-admits it".  Here: a source that is healthy for good does not stay shut
\* out while the poller keeps having a symbol to ask it for that it knows.
HealedGetsBackIn ==
    \A W \in SUBSET (1..Symbols) : W \cap Known # {} =>
        (<>[](healthy /\ marketOpen /\ watched = W)
            => []<>(breaker.state = "closed"))
=============================================================================
