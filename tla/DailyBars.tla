----------------------------- MODULE DailyBars -----------------------------
(***************************************************************************)
(* The stored daily bars of one symbol and what prices are compared with:  *)
(* every poll fetches the bars (history.py), stores all but the last,      *)
(* which it takes for today's (pipeline.py, _upsert_daily_bars), and       *)
(* detects against the newest one stored.  The watchlist's day change and  *)
(* POST .../narrate-today compare the tick with it as well.                *)
(*                                                                         *)
(* A price or a bar is known by the trading session it belongs to.         *)
(***************************************************************************)
EXTENDS Integers, FiniteSetsExt

CONSTANTS
    Polls,          \* polls of the symbol that may overlap
    Viewers,        \* requests that compare the tick with the bars
    FirstSession,   \* the session the program is first started in
    LastSession     \* bound: the last session of the model

ASSUME SessionAssumption ==
    /\ FirstSession \in Nat \ {0} /\ LastSession \in Nat
    /\ FirstSession <= LastSession

VARIABLES
    session,    \* the current trading session; it begins in the early morning
    phase,      \* "pre" before the open, "open", "closed"
    bars,       \* daily_bars: session -> is the stored close final?
    tick,       \* the session the price tick's price is from, 0 without price
    poll,       \* per poll: [at, price, rows, straddles, baseline]
    view,       \* per viewer: [at, price, baseline, overtaken]
    mixed       \* history: has a poll that ran into the open stored its bars
                \* since the tick was written?

vars == <<session, phase, bars, tick, poll, view, mixed>>

NoRows == [s \in {} |-> TRUE]
IdlePoll == [at |-> "idle", price |-> 0, rows |-> NoRows, straddles |-> FALSE,
             baseline |-> 0]
IdleView == [at |-> "idle", price |-> 0, baseline |-> 0, overtaken |-> FALSE]

\* Mutant of LastBar: the oldest.
LastBarAscending(stored) == IF DOMAIN stored = {} THEN 0 ELSE Min(DOMAIN stored)

\* The newest stored bar; 0 when there is none.
LastBar(stored) == IF DOMAIN stored = {} THEN 0 ELSE Max(DOMAIN stored)

Init ==
    /\ session = FirstSession /\ phase = "pre"
    /\ bars = NoRows
    /\ tick = 0
    /\ poll = [p \in Polls |-> IdlePoll]
    /\ view = [v \in Viewers |-> IdleView]
    /\ mixed = FALSE

\* The last traded price is today's once the market has opened.
PricedSession == IF phase = "pre" THEN session - 1 ELSE session

\* poll_and_detect up to the history: a quote, usable or not, and the tick.
Resolve(p, usable) ==
    LET price == IF usable THEN PricedSession ELSE 0
    IN  /\ poll[p].at \in {"idle", "judged"}
        /\ poll' = [poll EXCEPT ![p] =
               [IdlePoll EXCEPT !.at = "resolved", !.price = price]]
        /\ tick' = price
        /\ mixed' = FALSE
        /\ view' = [v \in Viewers |->
               IF view[v].at = "reading" THEN [view[v] EXCEPT !.overtaken = TRUE]
               ELSE view[v]]
        /\ UNCHANGED <<session, phase, bars>>

\* The sessions the provider has a row for.
Listed == 1..(IF phase = "pre" THEN session - 1 ELSE session)

\* fetch_daily_bars asks the provider, whose rows for some sessions may be
\* missing or blank, and are dropped; today's close is final after the close.
FetchDailyBars(p, blank) ==
    /\ poll[p].at = "resolved" /\ blank \subseteq Listed
    /\ poll' = [poll EXCEPT ![p] = [@ EXCEPT !.at = "fetched",
           !.rows = [s \in Listed \ blank |-> s < session \/ phase = "closed"]]]
    /\ UNCHANGED <<session, phase, bars, tick, view, mixed>>

\* Any failure is an empty list.
FetchFails(p) ==
    /\ poll[p].at = "resolved"
    /\ poll' = [poll EXCEPT ![p].at = "fetched"]
    /\ UNCHANGED <<session, phase, bars, tick, view, mixed>>

\* Mutants of ToStore: today's bar is not left out; the oldest is.
ToStoreAll(rows) == rows
ToStoreTail(rows) == [s \in DOMAIN rows \ {Min(DOMAIN rows)} |-> rows[s]]

\* bars[:-1]
ToStore(rows) == [s \in DOMAIN rows \ {Max(DOMAIN rows)} |-> rows[s]]

\* _upsert_daily_bars: a row that is there is overwritten.
Upsert(rows) == [s \in DOMAIN rows \cup DOMAIN bars |->
                    IF s \in DOMAIN rows THEN rows[s] ELSE bars[s]]

\* Store the bars, if any came, and detect against the newest stored close.
Stored(rows) == IF DOMAIN rows = {} THEN bars ELSE Upsert(ToStore(rows))

StoreAndDetect(p) ==
    LET stored == Stored(poll[p].rows)
    IN  /\ poll[p].at = "fetched"
        /\ bars' = stored
        /\ poll' = [poll EXCEPT ![p].at = "judged", ![p].baseline = LastBar(stored)]
        /\ mixed' = (mixed \/ poll[p].straddles)
        /\ UNCHANGED <<session, phase, tick, view>>

\* narrate_today runs on the event loop and reads both rows at once; without a
\* price or a bar it is a 404.
NarrateToday(v) ==
    /\ view[v].at = "idle" /\ tick > 0 /\ DOMAIN bars # {}
    /\ view' = [view EXCEPT ![v] =
           [at |-> "shown", price |-> tick, baseline |-> LastBar(bars),
            overtaken |-> FALSE]]
    /\ UNCHANGED <<session, phase, bars, tick, poll, mixed>>

\* _diff_summary runs in a thread: the tick first ...
ReadTick(v) ==
    /\ view[v].at = "idle" /\ tick > 0
    /\ view' = [view EXCEPT ![v].at = "reading", ![v].price = tick]
    /\ UNCHANGED <<session, phase, bars, tick, poll, mixed>>

\* ... then _day_change reads the newest bar.
DayChange(v) ==
    /\ view[v].at = "reading"
    /\ view' = [view EXCEPT ![v] =
           IF DOMAIN bars = {} THEN IdleView
           ELSE [@ EXCEPT !.at = "shown", !.baseline = LastBar(bars)]]
    /\ UNCHANGED <<session, phase, bars, tick, poll, mixed>>

Close(v) ==
    /\ view[v].at = "shown"
    /\ view' = [view EXCEPT ![v] = IdleView]
    /\ UNCHANGED <<session, phase, bars, tick, poll, mixed>>

\* The exchange: a poll takes seconds, so it may run into the open or the
\* close, never through a whole phase.
MarketMoves ==
    LET underway(p) == poll[p].at \in {"resolved", "fetched"}
    IN  /\ \A p \in Polls : ~(underway(p) /\ poll[p].straddles)
        /\ \/ phase = "pre" /\ phase' = "open" /\ UNCHANGED session
           \/ phase = "open" /\ phase' = "closed" /\ UNCHANGED session
           \/ /\ phase = "closed" /\ session < LastSession
              /\ phase' = "pre" /\ session' = session + 1
        /\ poll' = [p \in Polls |->
               [poll[p] EXCEPT !.straddles = @ \/ underway(p)]]
        /\ UNCHANGED <<bars, tick, view, mixed>>

Next ==
    \/ \E p \in Polls :
         \/ Resolve(p, TRUE) \/ Resolve(p, FALSE)
         \/ \E blank \in SUBSET {session - 1, session} : FetchDailyBars(p, blank)
         \/ FetchFails(p) \/ StoreAndDetect(p)
    \/ \E v \in Viewers :
         NarrateToday(v) \/ ReadTick(v) \/ DayChange(v) \/ Close(v)
    \/ MarketMoves

Spec == Init /\ [][Next]_vars
-----------------------------------------------------------------------------
(* Properties *)

Table == UNION {[S -> BOOLEAN] : S \in SUBSET (1..LastSession)}
Poll == [at : {"idle", "resolved", "fetched", "judged"}, price : 0..LastSession,
         rows : Table, straddles : BOOLEAN, baseline : 0..LastSession]
View == [at : {"idle", "reading", "shown"}, price : 0..LastSession,
         baseline : 0..LastSession, overtaken : BOOLEAN]

TypeOK ==
    /\ session \in FirstSession..LastSession /\ phase \in {"pre", "open", "closed"}
    /\ bars \in Table
    /\ tick \in 0..LastSession /\ mixed \in BOOLEAN
    /\ poll \in [Polls -> Poll]
    /\ view \in [Viewers -> View]

\* The bar of a session still being traded never enters the table, whenever
\* polls run and whatever rows the provider leaves out: a volatility is
\* computed from closes alone.
OnlyFinalCloses == \A s \in DOMAIN bars : bars[s]

Judged(p) == poll[p].at = "judged" /\ poll[p].price > 0

\* A move is measured against an earlier session's close, not against the
\* price's own, which would hide it: unless the market opened during the poll.
BaselinePrecedesPrice ==
    \A p \in Polls : Judged(p) /\ ~poll[p].straddles =>
        poll[p].baseline < poll[p].price

\* It is measured against the session right before, when the fetch brought the
\* rows of both.  (When it failed, or today's row was blank, the baseline is
\* what earlier polls left: two days' moves pass for one.)
BaselineIsPrevious ==
    \A p \in Polls : Judged(p) /\ ~poll[p].straddles =>
        LET rows == poll[p].rows IN
        {poll[p].price, poll[p].price - 1} \subseteq DOMAIN rows
            => poll[p].baseline = poll[p].price - 1

\* The change "today" that a card shows, or a narration explains, is one
\* between two sessions in their order, unless a new quote came between the
\* two reads, or a poll that ran into the open has stored its bars and the
\* price is still from before.
ShownChangeIsForward ==
    [][ \A v \in Viewers :
          view[v].at # "shown" /\ view'[v].at = "shown" =>
              \/ view'[v].baseline < view'[v].price
              \/ view'[v].overtaken \/ mixed ]_vars
=============================================================================
