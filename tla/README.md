# Smart Market Watchlist in TLA+

The program (`src/backend/app`) polls several market data sources for every
watched stock, reconciles their prices into one quote with a confidence tier,
decides whether the move is significant for that stock, records an event, pushes
it to the watchers' browsers and shows each user what happened since the last
visit. This directory models the parts of it whose correctness depends on
order: coroutines of one event loop, request threads, deadlines, crashes and a
shared database.

## 1. Inventory

| Part | State | Operations | What is hard about it | What makes it correct |
|---|---|---|---|---|
| circuit breaker, `market_data.py:133-206` | state, consecutive failures, time of the trip, cooldown, probe flag | `allow`, `record_success`, `record_failure` | consulted before an await, told after it, by concurrent callers | one probe at a time; a trip at the threshold; full cooldown; recovery |
| reconciler, `market_data.py:289-400` | the sources and their breakers | `_fetch_one`, `reconcile` | deadline against adapter, partial failure | median not moved by a minority; no price from nothing |
| confidence and tiers, `market_data.py:37-73, 230-282` | none | `compute_confidence`, `tier_for` | weights and thresholds that meet exactly | `verified` means two agreeing sources |
| significance, `significance.py` | none | `detect_significance` | a ladder of gates | more trust never needs a bigger move; nothing fires unconfirmed |
| pipeline, `pipeline.py` | tables of readings, ticks, bars, events | `poll_and_detect` | two awaits between the quote's stamp and the event's commit | event durable before it is pushed; not lost to readers |
| watchlist router, `routers/watchlist.py` | `watchlist_items` with a checkpoint per row | add, remove, list with diff, day change, explanations | read, stamp and write are separate statements; rows found by owner and written by id | no event hidden from a user who has not seen it; rows belong to one user |
| notifications, `notifications.py`, `main.py:94-108` | registry of sockets per user | `connect`, `disconnect`, `push`, `notify_significant_event` | every send is an await; sockets come and go meanwhile | live sockets stay registered and are reached; dead ones go |
| scheduler, `scheduler.py` | the job, the running cycle | `poll_all_watched_symbols` | skipped firings, failures in mid-cycle, one breaker for all symbols | every watched symbol gets its turn; no probe is lost |
| BSE and NSE adapters, `sources/bse.py`, `sources/nse.py` | HTTP session, warmed flag | `_ensure_session`, `fetch`, `close` | concurrent fetches on one session, cancellation | own timeouts fit the reconciler's deadline |
| Yahoo adapter, `sources/yahoo.py` | none | one call in a thread | a timed-out call keeps its thread | errors contained |
| daily history, `history.py` | table of daily bars | fetch, upsert all but the last | sessions, blank rows, failed fetches, polls across the open | closes only; a move is measured against the session before |
| narrator, `narrator.py` | none | `narrate_event` | two stages that may each fail | cites all it may name; falls back |
| queues, rate cap, `market_data.py:407-528` | queue per symbol, time of last pass | `enqueue`, `dequeue`, `allow`, `poll_symbol` | limits | not used by the running program |
| accounts, `auth.py`, `routers/auth.py` | `users`, the clients' tokens | register, login, demo login, `get_current_user` | check-then-insert; ids that outlive their rows | one account per address; a token only for who knows the password |
| dev router | - | `populate` | a second caller of the pipeline beside the scheduler | - |
| catalog, schemas, database session | static data, declarations | - | - | - |
| browser page, `static/index.html` | the list on screen, one socket | refresh, add, remove, refresh price, push, reconnect | refreshes answered out of order, several tabs on one checkpoint | what is acknowledged was on some screen |

How they interact: the scheduler and `populate` both call `poll_and_detect`,
which awaits the reconciler (which awaits every source through its breaker),
commits readings and the tick, awaits the history, detects, commits the event
and awaits the fan-out. All of this runs as coroutines of one event loop; the
watchlist requests run in worker threads and meet it only in the database. The
browser page reloads the list when a push arrives.

## 2. Modules

| Module | Models | Extends |
|---|---|---|
| `CircuitBreaker` | a breaker as a record with its operations; no variables | |
| `Source` | a source as its callers see it: breaker, health, deadline; no actions | `CircuitBreaker` |
| `SourceCalls` | one source, its breaker, concurrent `_fetch_one` calls, deadlines, outages | `Source` |
| `Quote` | median, confidence, tier, the reconciled quote as operators | |
| `Significance` | the gates of `detect_significance` and `priority_for` as operators | |
| `Narrator` | `narrate_event` as operators: news, provider, transports, fallbacks | |
| `Detection` | one symbol from the sources' answers to an event and its narration | `Quote`, `Significance`, `Narrator` |
| `Inbox` | the promise: an event is pending for a watcher until shown or given up | |
| `WatchlistFeed` | polls appending events, requests showing them and moving checkpoints, restarts; implements `Inbox` | instance of `Inbox` |
| `Page` | one tab over the server, the server being an `Inbox` with a fan-out | instance of `Inbox` |
| `Notifications` | commits, fan-outs, registry, WebSocket endpoints, the end of the process | |
| `DailyBars` | fetch and upsert of daily bars over sessions, and what prices are compared with | |
| `Accounts` | users, tokens, rows of the watchlist, by requests in worker threads | |
| `Scheduler` | the job, its cycles, one breaker under several symbols | `Source` |
| `TickQueue` | rate cap, `poll_symbol` and the bounded queue of one symbol with its consumers | |
| `Adapter` | warming and quoting on a shared session under two timeouts | |
| `MC...` | constants for TLC | |
| `...Proofs` | the theorems about `SourceCalls` (with those about `Scheduler` and `Adapter`), `Detection`, `WatchlistFeed`, `Page`, `Notifications`, `TickQueue`, `DailyBars`, `Accounts` | the modules they are about |

`SourceCallsProofs` extends `SourceCalls`, `Scheduler` and `Adapter` together: the
proofs share the lemmas about the breaker and the constants' assumptions. That is
why the definitions of a specification are called `JobInit`, `JobNext`, ... in
`Scheduler` and `SessionInit`, `SessionNext`, ... in `Adapter`.

How state and actions correspond to the code:

- **Breaker.** The record has the fields of the class. `_opened_at` appears as
  `openFor`, the time since the trip, which is all the code computes from it.
  It and the failure count stop at the largest value anything compares them
  with (`MaxCooldown`, `Threshold`). `allow()` both answers and changes the
  breaker: `Grants` and `AfterAllow`.
- **SourceCalls.** `FetchOne` is the code up to the await (a refused call is
  not reported as a failure), `Answer`, `Fail` and `Expire` what follows it:
  a price, an error reading or exception, the reconciler's deadline. There is
  no further action on a call: nothing in the code awaits in between.
- **Detection.** Prices and volumes are small integers, medians are kept
  doubled, a confidence is an exact ratio, and thresholds are compared by
  cross-multiplication. The code uses floats; at the one place where the
  difference could matter, `0.35 + 0.45 + 0.0`, IEEE arithmetic gives 0.8 as
  well. `trailing_volatility` is abstracted to its result, in basis points.
- **WatchlistFeed.** The statements of a GET are `Load` (the items), `Scan`
  (the diff), `Stamp` (the new checkpoint's value) and `Acknowledge` (UPDATE
  and commit); a poll is `Resolve` and `Fire` or `NoEvent`. Stamps count the
  timestamps taken, so two are never equal (the code's have microseconds).
  The tick and the events are read in one step. The response is taken to reach
  the browser when the commit succeeds. One symbol is modelled: a request over
  several repeats the same steps per item, and its one UPDATE has one stamp.
  `FeedIsInbox` maps rows and checkpoints to an inbox: an event is pending for
  a user while it lies beyond the checkpoint of the user's row, shown once a
  request answered with it, excused when it was overtaken or the symbol was
  taken off the list. `Overtaken` says what that takes, at the event's commit:
  the checkpoint has passed the event's time already; a request of the user has
  scanned the log without it, or has loaded a checkpoint past it (a GET that
  finishes after a younger one turns the checkpoint back); or a request of
  another user holds the id that the user's row was given when it was used again.
- **Inbox, Page.** `Page` does not repeat rows and checkpoints: it uses the
  inbox they were shown to implement, so the two runs together say what a
  browser on top of the real watchlist sees. A GET is `Load` (with the
  checkpoint it starts from) and `Answer`, then `Render` in the tab, in any
  order with others; the awaits inside `renderCard` only wait for work of the
  page, so a render is one step. `Poll` makes the quote fit or unfit to be
  shown. The user's other tabs are `ChangeElsewhere` and `ShowElsewhere`.
  `own`, `overtaken`, `displayed`, `elsewhere` and `lost` are history only.
- **Notifications.** A fan-out starts with its poll's commit and reads the
  watchers once; each `send_text` is a step of its own; `connect` is split at
  its await. A vanished browser may or may not have been noticed by the server
  when a send is tried, so such a send may succeed or raise; one that stopped
  reading keeps a send waiting. `ProcessEnds` loses connections and fan-outs.
  `reached` and `owed` are history.
- **Narrator.** Headlines are tokens, and so are an entry without a title and one that
  is not built as the code expects; a reply is text, blank or a failure; the
  fields of a narration are those the endpoint hands on. The prompt is left
  out but for the headlines it carries, which are those the text may name.
- **DailyBars.** A bar or a price is known by its trading session, a stored
  close by whether it was final when fetched. A session begins in the early
  morning; before the open the last traded price is the previous session's. A
  poll may run into the open or the close, not through a whole phase. Listings
  and suspensions are missing rows.
- **Accounts.** Statements that only read open no transaction in SQLite as it
  is used here, so that other requests commit between any two statements of
  one; every endpoint is split there. Row ids follow SQLite's rule for tables without
  AUTOINCREMENT. The two addresses of the model cannot be mixed up: the demo
  account's domain is reserved and `EmailStr` refuses it, so nobody registers
  it. A token is the id it encodes. Requests answered with 401, 404 or 409
  change nothing and are guards.
- **Scheduler.** Symbols are numbered in the order of `SELECT DISTINCT`, which
  walks the index on the symbol and is the same in every cycle. `populate` is
  left out here; SourceCalls has it. Lag of the event loop is part of the
  call's time.
- **TickQueue.** `Put` is everything `poll_symbol` does after its await.
  `asyncio.Queue` is modelled with its line of waiting getters and the gap
  between a wake-up and the woken coroutine's next step, which is where
  `enqueue` may take the quote back.
- **Adapter.** The warmed flag is shared; a fetch remembers in `cold` whether
  it had to warm. `WarmRequests` is 1 for BSE and 2 for NSE. `close()` only
  runs at shutdown and is left out.

Definitions marked as mutants beside the ones they vary are plausible bugs of
the code. They are not used by the model: each shows that a property would
notice the bug.

## 3. Runs

All bounds are in the `.cfg` files and are named by a constant. Every module
with variables but `Inbox` states its type invariant. Two runs list it
(`source_calls`, `watchlist_feed`), the others leave it to what says more: in the
proofs it is part of the inductive invariant `IInv`, or follows from it.
`NarrationIsHonest` is a conjunction of three named parts: nothing passes for a
model's words that is not, what a narration names it cites, and what fails
degrades.

| Run | Checks | Shows |
|---|---|---|
| `source_calls` | `TypeOK`, `ProbeExclusive`, `TrippedIffThreshold`, `StragglersPredateTrip`, `SettledOpenWaits`, `HealedIsReadmitted` | three callers at the deployed constants in ticks of 6 s (threshold 3, cooldowns 30 to 300 s, deadline 12 s) |
| `detection` | `MajorityBoundsPrice`, `VerifiedMeansAgreement`, `EventNotMinority`, `TrustIsMonotone`, `DigestIsWeakest`, `ToldTierIsTheEvents`, `NarrationIsHonest` | all answers of the two default sources and of all three out of 18 readings, all of 24 histories, six configurations, five news feeds, three replies |
| `watchlist_feed` | `TypeOK`, `MissedWasLate`, `EveryEventIsShown`, `FeedIsInbox` | two polls, two tabs of one user and one of another, removal and re-adding by the first, row ids used again, restarts, four stamps before the world stops |
| `notifications` | `LiveStaysRegistered`, `PresentAreReached`, `DeadIsDropped`, `FanoutEnds` | two events at once, two tabs of one user, one of which may stop reading, and a watcher without a page |
| `scheduler` | `ProbeIsReported`, `WatchedIsPolled`, `HealedGetsBackIn` | two symbols, both known to the source |
| `tick_queue` | `WorkBounded`, `QueueIsNewest`, `NoLostWakeup` | four pollers, three consumers, queue of two, rate cap of two ticks, reconciliations of up to five |
| `adapter` | `DeadlineSparesWarmFetch` | two fetches on one NSE session, ticks of 4 s |
| `daily_bars` | `OnlyFinalCloses`, `BaselinePrecedesPrice`, `BaselineIsPrevious`, `ShownChangeIsForward` | two polls and a viewer, two sessions of three phases after one that is history, any of the last two rows blank |
| `accounts` | `TokenNeedsPassword`, `KeysAreUnique`, `AnswerIsTheRowAdded`, `OnlyOwnerDeletes`, `EveryoneSignsIn` | two tabs of one person and another who tries her address, two row ids, one restart |
| `page` | `AcknowledgedIsSeen`, `OwnChangesShow`, `PushIsShown` | two GETs of a tab on their way at once, other tabs, one event, two changes of the list, one fault |
| `event_lost` | `NextEventLandsAfterCheckpoint`, violated | an event hidden by a checkpoint taken before its commit |
| `healed_starved` | `HealedGetsBackIn`, violated | an unknown symbol takes every probe of a healthy source |

Why the bounds are enough. In `SourceCalls` three callers allow a straggler, a
probe and a call beside both; four trips reach the longest cooldown. In
`Detection` the readings include agreement, disagreements just below and above
the verified limit, moves, nonsense, failure, and ages on either side of
the staleness cap; two sources and three are what the program can have. The news include
more headlines than are taken and a broken entry among and beyond those. In
`WatchlistFeed` losing an event takes an add, two polls and one request; four
stamps also leave room for removal and re-adding or a restart, requests go
on beyond the bound, and the second user's request may hold the id of a row the
first one gets. What takes more stamps than that (three requests of one user around
two checkpoints) is beyond this run and within the theorems. In `Notifications` one socket that stalls or dies and one
that does not are what a push can meet, and a second fan-out cleans up beside
it. In `TickQueue` the deadline spans two intervals and a half,
so three reconciliations overlap and a fourth poller tests the bound; five quotes
overflow the queue of two. In `Scheduler` the cooldowns are shorter than the interval,
as in the deployment (300 s against 10 min). In `DailyBars` a baseline depends
on the bars of the two sessions before a price, all of which exist in the last
of the three sessions. In `Accounts` a wrong deletion takes two requests on one
id and a third that is given it, which is what three clients and two ids allow. In
`Page` two GETs are answered in either order, and a change, a push and another
tab lie in between. `CHECK_DEADLOCK FALSE` is set
where the modelled world ends: `WatchlistFeed` after its last stamp,
`Notifications` when all sockets and fan-outs are done, `TickQueue` after its
last quote, `DailyBars` after its last close, `Accounts` when its ids and
`Page` when its events, changes and faults are used up.

Fairness. `SourceCalls` and `Scheduler`: time passes, APScheduler fires the job,
the event loop runs a coroutine that is ready, `asyncio.wait_for` ends a call
at its deadline, a healthy source answers. Nothing is assumed of `populate`'s
callers. `WatchlistFeed`: requests are served and users come back; polls and
restarts are not fair. `Notifications`: the event loop runs the fan-outs;
browsers need not read, leave or come back, and `FanoutEnds` excuses a fan-out
that waits for one that has stopped reading, because no timeout bounds a send.
`Accounts`: requests that were started are served and a page without a token
asks for the demo account, as `ensureSession` does on every load. `Page`: the
server answers, the tab renders and handles messages; reconnecting, commands,
polls and fan-outs are not fair. `healed_starved` refutes recovery under the
fairness of `scheduler`: the loop goes on for ever and every cycle polls the
unknown symbol first.

## 4. Findings

The two violated properties above, each with the sentence of the repository it
comes from, are recorded in `PROJECT.json`. An event can be hidden for good
(`event_lost`: the event's timestamp is taken before the history fetch, the
checkpoint after the scan), and a watched symbol nobody knows can keep a healthy
source shut out (`healed_starved`).

Seen while modelling, without a run of their own.

Where code and documentation part:

- Two agreeing sources with hours-old prices score 0.35 + 0.45 + 0 = 0.80, which
  is verified (`market_data.py:281`); `README.md:180` says such quotes cannot be.
  It takes a source that reports its price's own time: the adapters here stamp a
  reading when they make it.
- The narrate endpoint makes the tier up from the confidence (`stocks.py:171`):
  one source of two can score 0.825 and is described to the model as verified,
  against `README.md:30`. `ToldTierIsTheEvents` says that this is the only way in
  which the told tier is not the event's.
- A GET's late UPDATE goes by row id (`watchlist.py:237`); the id may be another
  user's by then, against "a per-user, per-symbol checkpoint" (`README.md:28`):
  that user's checkpoint then passes events nobody has shown her. An attempt to
  prove `MissedWasLate` without this case fails in `Acknowledge`.
- The exchange-circuit gate is never fed (`pipeline.py:167` passes no
  `is_in_circuit`, against `market_data.py:11`).
- With the two default sources the median is the mean, so one wild price moves
  the quote (`market_data.py:298-300`).
- A cold fetch makes two or three requests of up to 8 s each, so the 12 s deadline
  also cuts off adapters that honoured their own timeout (`market_data.py:310-312`,
  `bse.py:121`; `DeadlineSparesWarmFetch` says what is left of the claim).
- The market's hours are checked once per cycle, so polls may run past the close
  (`scheduler.py:5-6, 52`).
- A news entry whose content is no object, or one with a title whose provider or
  link is neither an object nor empty, makes `fetch_recent_news` raise
  (`narrator.py:122-133`), whose docstring says it never does; the part
  `FailureDegrades` of `NarrationIsHonest` says that entries of another shape are
  the only way.
- Bars are fetched with every poll (`pipeline.py:154`), not once a day
  (`history.py:3-5`).

What a reader of the code may not expect:

- When today's row is blank the bar dropped is yesterday's, and when the fetch
  fails nothing is stored: two days' moves then pass for one. A poll that runs
  into the open may compare a price with its own session's close. The properties
  of `DailyBars` name both cases as their only exceptions.
- A GET that finishes after a younger one turns the checkpoint back
  (`watchlist.py:236-240` writes its own stamp, whatever the row holds). What the
  younger one showed appears again; and an event committed meanwhile lies beyond
  the row's checkpoint, yet a third request that loaded the later checkpoint will
  not find it and may acknowledge past it. The step of the proof that a scan
  misses nothing pointed at this; `Overtaken` names it.
- Nothing keeps two polls of one move from recording it twice.
- A move on a flat history is stored with z = 0: lowest priority, never the
  biggest event, and the narrator is told "z=+0.00".
- With NSE enabled, two sources that disagree and one that times out are
  explained as "All data sources are temporarily unreachable"
  (`watchlist.py:72-76`); and NSE's own "not found" counts although the number it
  is compared with leaves NSE out (`watchlist.py:58, 65`).
- The page's own "refresh price" that records an event refreshes twice, once for
  the push; the second response holds no event and replaces the card that
  showed it (`index.html:754, 780, 827`). A second tab does the same.
- A reconnected socket does not refresh (`index.html:819-822`): what was pushed
  meanwhile appears with the next push or click.
- A row is deleted, and read back after its insertion, by id alone after a
  lookup (`watchlist.py:199, 255`): `OnlyOwnerDeletes` and `AnswerIsTheRowAdded`
  name the one race in which the row is another user's.
- A browser that stops reading holds up the fan-out and with it the poll cycle
  (`notifications.py:89`); what a process did not send before it ended is never
  sent (`pipeline.py:183-185`).

## 5. Proofs

Every safety property and the refinement that the passing runs check is a
theorem, for all values of the constants: any number of callers, polls, users,
sockets, events, rows and any bound. The theorems are listed in `PROJECT.json`.
All proofs have one form. `IInv` stands at the beginning of the component's module
of proofs as a conjunction of named parts, each with a comment that says why it is
there; TLC checked it on the component's run before it was proved. There is a lemma per action or group of actions, with a step per conjunct that it may
disturb; `NextIInv` collects them, and each theorem is a temporal step from
`InvariantIInv`. Action properties use the same invariant on both sides of a step.
The assumptions on constants are named in the component's module.
Beyond the runs' properties, a few action properties say of every step what the
liveness properties say of the end: `NothingOwedIsDropped`, `NoneSlipsBy`,
`NoneIsSkipped`, `OpenWaitsForThePoller`. They belong to no run.

- **`SourceCallsProofs`**: `TypeCorrect`, `ProbeIsExclusive`,
  `TripsAtThreshold`, `NoCallSinceTrip`, `OpenWaitsOutItsCooldown`. Assumed: a
  positive threshold, a positive base cooldown not above the longest, finitely
  many callers, and `DeadlineBeforeCooldown`: the reconciler's deadline (12 s) is
  shorter than the shortest cooldown a breaker can be open with (60 s). The code
  relies on the last one without saying so. `ProbeExclusive` alone is not
  inductive: when a probe goes out, calls placed before the trip could still be
  in flight and decide it. `StragglersPredateTrip` (a call in flight while the
  breaker is open is at least as old as the trip) and `CooldownFloor` close the
  gap: a call's age is at most the deadline, so that when the cooldown has
  passed none of the old calls is left. Two more sections prove what lies on
  either side of a call.
  Of `Scheduler`: `ProbesAreReported` (`ProbeIsReported` is inductive once the types
  are known); `CyclesSkipNobody`, the safety half of `WatchedIsPolled`: a cycle sets
  out with every watched symbol, each of its steps keeps them among those it has got
  to or has left, and it ends when none is left (`CalledIsAttempted` is what this
  needs of the state); and `ThePollersBreakerWaits`: a breaker that only the poller
  uses is closed exactly while its failures are below the threshold, and leaves the
  open state by a probe after its full cooldown. With nobody calling beside it
  `PollersBreaker` is enough for that (no call is out while the breaker is open), and
  `DeadlineBeforeCooldown` is not needed: the assumption is about `populate` only.
  Of `Adapter`: `WarmFetchesAreSpared`, which needs `WarmAsksOnce`: a fetch that
  found the session warm is as old as its one request, which ends before the
  deadline (8 s against 12 s).
- **`WatchlistFeedProofs`**: `FeedIsTyped`, `OnlyTheOvertakenAreMissed`,
  and the refinement `TheFeedIsAnInbox`. Assumed: requests have owners, and the
  bounds are numbers. `MissedWasLate` speaks of checkpoints; what keeps it true are the
  requests on their way to one. `ReadIsFoundOrLate`: what lies after the checkpoint
  a request loaded it has found when it has scanned, or the event was overtaken.
  `LoadedNeedsNoFinding`: what does not lie after it is settled already, which is
  what two requests that finish in the wrong order need.
  `StrayWritesAreExcused`: a row that a request of another user is going to write
  to owes its user nothing. `StampsDiffer` and `OneRowEach` make an event's place
  beyond or behind a checkpoint unique. The refinement maps the initial state to an
  empty inbox and then each action: adding and removing a row are `Watch` and
  `Leave`, a commit of an event is `Record`, an acknowledgement is `Show` of
  what was found, and every other step leaves all standings as they are, for which
  `NothingIsHidden` shows that no checkpoint passes a pending event.
  What the promise means is proved of `Inbox` itself in `TheInboxKeepsItsWord`: an
  event stops being pending only by being shown, or excused when its user leaves, and
  what is settled stays settled. The refinement carries both over to rows and
  checkpoints (`TheFeedDropsNothingOwed`), the safety half of `EveryEventIsShown`.
  `TheFeedServesEachUser` restricts the inbox of all users to that of one: what
  the others do becomes a stutter (`OthersAreNoConcern`). The result is the server that `Page` puts behind its tab.
- **`PageProofs`**: `WhatIsAcknowledgedIsSeen`, `OwnChangesAreShown`. Assumed: at
  least one GET may be on its way. The first needs `FoundIsAnswered` (a GET
  carries events only once it is answered), the second `ChangeIsOnItsWay`: until
  the grid shows the tab's last change, its command is running, or a GET is on
  its way that was sent late enough to see it. `ThePageLeavesTheInboxIntact`: seen
  from the server, a tab with its requests and faults does nothing that an inbox does
  not allow, so that `Page` assumes no more of the server than
  `TheFeedServesEachUser` gives it. Then `NoEventSlipsBy` puts the two together: an
  event that leaves the pending ones of a user who keeps watching
  (`ServerDropsNothing`: it was shown) is on display in a tab, in a response on its
  way, or in one that never came.
- **`NotificationsProofs`**: `LiveSocketsStay`, `EveryonePresentIsReached`,
  `FailedSocketIsDropped`. Assumed: sockets have owners, watchers are users. The key
  part is `OwedIsAccountedFor`: a socket that was registered when the fan-out read
  the watchers has got the message, or its user is still to come, or its send
  is, or it failed, or it has left the registry. `HeldHaveStarted` keeps sockets
  that never connected out of every list, `DeadStayDead` makes the clean-up
  harmless to a live one, and `HoldsOnlyWhenSending` empties the lists
  when a fan-out is done.
- **`DailyBarsProofs`**: `StoresFinalCloses`, `BaselineIsEarlier`,
  `BaselineIsTheDayBefore`, `ShownIsForward`. Assumed: a first session with one before it,
  and a last. `RowsAreListed` (a fetched row that is not final is the newest one, which
  the upsert drops) gives the first; `BarsTrailPrice` and `BarsTrailTick` (no stored close
  is as new as a price taken now) with `UnderWayIsCurrent` (what a poll holds is
  of now unless the open or the close fell into it) give the baselines; `ReadIsTheTick` ties
  what a viewer has read to the table.
- **`TickQueueProofs`**: `WorkIsBounded`, `QueueHoldsNewest`,
  `WakeupsAreNotLost`. Assumed: a queue of at least one, a positive interval.
  `YoungestIsLast` and `AgesAreSpaced` put running reconciliations an interval
  apart, so that their ages divided by the interval differ and there are at
  most `Timeout \div Interval + 1` of them. That the woken are finitely many, and that no
  getter waits twice, is what counting them against the queue needs.
- **`AccountsProofs`**: `TokensNeedPasswords`, `KeysStayUnique`,
  `AnswersWithTheRowAdded`, `OnlyOwnersDelete`. Assumed: nobody's address is the
  demo account's. A client may wait at the commit with what it looked up before, so
  the invariant says what of it still holds: it hashes the password it knows
  (`HashesItsPassword`), adds for an account that exists (`AddsForSomebody`), and
  the row it looked up is its user's unless marked stale (`RowIsTheRequests`).
  Accounts are never deleted, so their ids are never used again; rows' are.
- **`DetectionProofs`**: `QuotesAreTyped`, `MinorityCannotMoveThePrice`,
  `VerifiedSourcesAgree`, `EventsHaveHalfBehindThem`, `TrustNeverSilences`,
  `DigestsAreTheWeakest`, `TheNarratorHearsTheTier`, `NarrationsAreHonest`, for any
  finite sets of sources and any prices, volumes, ages and histories. The
  invariant is short (the quote is what the answers amount to, the event is one that
  this quote makes on some history, the narration is of this event); the work is in the
  operators. `RankedIsRanked` shows that the k-th of finitely many readings exists, by
  well-foundedness of their ranks; `MedianIsCentral` and `MajorityStraddles` that half
  of them lie on either side of the median; `WeightsAddUp` and
  `ConfidenceMeansAgreement` what 0.35, 0.45, 0.20 and 0.80 amount to together, also
  for a source that answers alone;
  `LowerThreshold` that a higher tier never has the higher threshold. Assumed: readings and
  histories are numbers, closes are positive, and `FeedsAssumption`, whose
  last conjunct spells out that the `SelectSeq` of a sequence is a sequence. It
  is true and TLC evaluates it on the run's feeds, but `SelectSeq` is defined by recursion
  over data, of which TLAPS proves nothing.

Only model-checked:

- All liveness (`HealedIsReadmitted`, `HealedGetsBackIn`, `EveryEventIsShown`,
  `FanoutEnds`, `EveryoneSignsIn`, `PushIsShown`, `WatchedIsPolled`): it rests on
  fairness and ENABLED, which these proofs do not reach. Of `EveryEventIsShown`
  and `WatchedIsPolled` the safety half is proved (see above).
- That the recursive parts of the narrator's filters take what they should from a
  feed, beyond being sequences.

## 6. Not modelled

- The Yahoo adapter: one call in a thread, no state of its own; its outcomes are
  the `Answer` and `Fail` of `SourceCalls`. That a timed-out call keeps a worker
  of the default executor, which the history fetch and the narrator share, is a
  hazard without a property.
- The calendar of `market_is_open`: an input of `Scheduler` and `DailyBars`.
- `trailing_volatility`: its result is an input of `Detection`.
- The search over the catalog, and the endpoints that read single rows.
- `close()` of the adapters and `shutdown_reconciler`, which run at shutdown.
- Password hashing and token signing, which are libraries'.
- The page's search, charts, drill-downs, the storage of its session, and the button
  that refreshes the list, which calls the refresh that `Page` has.
- What a card says for want of a price (`_explain_missing_data`) and the rows of the
  readings it is made from. They are read after the tick in a statement of their own,
  from the six newest of all polls, so that the words may be about another poll than
  the price beside them. It is listed as a hazard without a property.
- Schemas, and the test and load scripts.

`PROJECT.json` lists each with its reason, and under `hazards` what no property
covers.

## 7. Plan

Done: the core with the proofs of `SourceCalls`; the inbox and its refinement;
fan-outs from commit to end; daily bars; accounts; narration; the page; and the
safety of all of these, the refinement, and what it means for one user, proved.

Next:

1. The threads of the default executor, which quotes, history and news share and
   which hung calls keep (`yahoo.py:91`).
2. `trailing_volatility`, whose result is an input so far.
