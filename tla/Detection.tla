----------------------------- MODULE Detection -----------------------------
(***************************************************************************)
(* One symbol's way from the sources' answers to a significant event and   *)
(* its narration: Reconciler.reconcile, then the deciding part of          *)
(* pipeline.poll_and_detect, then POST .../events/{id}/narrate.  Sources   *)
(* answer in any order; breakers, storage and concurrent polls are the     *)
(* subject of SourceCalls and WatchlistFeed.                               *)
(***************************************************************************)
EXTENDS Quote, Significance, Narrator

CONSTANTS
    Deployments, \* the sets of sources the reconciler may have
    Readings,   \* what a source may answer: [price, volume, age]
    Histories,  \* what the stored bars may amount to (module Significance)
    Configs,    \* how the narrator may be configured (module Narrator)
    Feeds       \* the news it may find

ASSUME DeploymentsAssumption == \A D \in Deployments : IsFiniteSet(D) /\ D # {}
ASSUME ReadingsAssumption ==
    \A r \in Readings : r.price \in Nat /\ r.volume \in Nat /\ r.age \in Nat
ASSUME HistoriesAssumption ==
    \A h \in Histories : /\ h.bars \in Nat /\ h.prev \in Nat \ {0}
                         /\ h.mean \in Int /\ h.stddev \in Nat /\ h.avgVolume \in Nat
\* The last conjunct follows from the others; SelectSeq is defined by recursion
\* over its argument, which is why it is spelled out.
ASSUME FeedsAssumption ==
    \A feed \in Feeds : /\ feed.up \in BOOLEAN /\ feed.entries \in Seq(STRING)
                       /\ RecentNews(feed) \in Seq(STRING)

VARIABLES
    reading,    \* per configured source, what it answered in this poll, or Unanswered
    quote,      \* the ReconciledQuote, or None
    event,      \* the significant_events row of this poll, or None
    narration   \* a narration of it: what the narrator was given and what it
                \* answered; or None

vars == <<reading, quote, event, narration>>

Unanswered == [price |-> -1]
None == [tier |-> "none"]

\* self.sources, which get_reconciler fixes with the first poll.
Sources == DOMAIN reading

Init ==
    /\ \E D \in Deployments : reading = [s \in D |-> Unanswered]
    /\ quote = None
    /\ event = None
    /\ narration = None

Answer(s, r) ==
    /\ reading[s] = Unanswered
    /\ reading' = [reading EXCEPT ![s] = r]
    /\ UNCHANGED <<quote, event, narration>>

\* The gather is complete.
Resolve ==
    /\ quote = None
    /\ \A s \in Sources : reading[s] # Unanswered
    /\ quote' = Reconcile(reading)
    /\ UNCHANGED <<reading, event, narration>>

\* detect_significance; poll_and_detect passes no is_in_circuit, so it takes
\* its default.
Fires(h) == Significant(Verdict(quote, h, FALSE))

EventRow(h) ==
    [tier |-> quote.tier, verdict |-> Verdict(quote, h, FALSE),
     before |-> h.prev, price2 |-> quote.price2,
     direction |-> Direction(quote, h), bars |-> h,
     confidence |-> quote.confidence]

\* A verdict that is not significant leaves nothing behind.
Detect(h) ==
    /\ quote # None /\ event = None
    /\ Fires(h)
    /\ event' = EventRow(h)
    /\ UNCHANGED <<reading, quote, narration>>

\* Mutant of ToldTier: a threshold of its own.
ToldTierLoose ==
    IF ReachesThreeQuarters(event.confidence) THEN "verified" ELSE "best_available"

\* narrate_event_endpoint: the row stores no tier, so one is made up from the
\* stored confidence.  The configuration is the process's environment.  A call
\* leaves nothing behind for the next one, so one call per event is enough.
ToldTier == IF ReachesVerified(event.confidence) THEN "verified" ELSE "best_available"

Narrate(config, feed, reply) ==
    /\ event # None /\ narration = None
    /\ narration' = [tier |-> ToldTier, config |-> config, feed |-> feed,
                     reply |-> reply, answer |-> NarrateEvent(config, feed, reply)]
    /\ UNCHANGED <<reading, quote, event>>

NextPoll ==
    /\ quote # None
    /\ reading' = [s \in Sources |-> Unanswered]
    /\ quote' = None /\ event' = None /\ narration' = None

Next ==
    \/ \E s \in Sources, r \in Readings : Answer(s, r)
    \/ Resolve
    \/ \E h \in Histories : Detect(h)
    \/ \E config \in Configs, feed \in Feeds, reply \in {"text", "blank", "fails"} :
         Narrate(config, feed, reply)
    \/ NextPoll

Spec == Init /\ [][Next]_vars
-----------------------------------------------------------------------------
(* Properties *)

Resolved == quote # None

TypeOK ==
    /\ Sources \in Deployments
    /\ \A s \in Sources : reading[s] \in Readings \cup {Unanswered}
    /\ Resolved => /\ quote.tier \in {"verified", "best_available", "unconfirmed"}
                   /\ quote.price2 \in Nat /\ quote.volume2 \in Nat
                   /\ quote.confidence.num \in 0..quote.confidence.den
    /\ narration # None => narration.tier \in {"verified", "best_available"}

Within(price2, S) ==
    LET P == {2 * reading[s].price : s \in S}
    IN  Least(P) <= price2 /\ price2 <= Greatest(P)

\* The promise of the median: whatever a minority of the sources report, the
\* resolved price stays within the range of the majority's prices.
MajorityBoundsPrice ==
    Resolved => \A H \in SUBSET OkSources(reading) :
        2 * Cardinality(H) > Cardinality(OkSources(reading))
            => Within(quote.price2, H)

\* What the weights and thresholds amount to: a verified quote rests on at
\* least two prices, whose spread is below 8/9 of a percent of the median.
VerifiedMeansAgreement ==
    Resolved /\ quote.tier = "verified" =>
        /\ Cardinality(OkSources(reading)) >= 2
        /\ 2 * 900 * PriceSpread(reading) <= 8 * quote.price2

\* No event comes from a blackout, or is the claim of a minority: at least half
\* of the answering sources report a price at least as far out, in the event's
\* direction.
EventNotMinority ==
    event # None =>
        LET ok == OkSources(reading)
            agreeing == {s \in ok :
                IF event.direction = "up"
                THEN 2 * reading[s].price >= event.price2
                ELSE 2 * reading[s].price <= event.price2}
        IN  ok # {} /\ 2 * Cardinality(agreeing) >= Cardinality(ok)

\* More trust never silences a move: what fires on a best_available quote
\* would have fired on the same numbers at verified.
TrustIsMonotone ==
    event # None =>
        Significant(Verdict([quote EXCEPT !.tier = "verified"], event.bars, FALSE))

\* A push marked as a digest is the weakest kind of event there is: a move
\* below two sigma that took two agreeing sources and the volume to fire, or
\* one without a sigma.  A less trusted or a solo event is never one,
\* whatever the watcher's tag: thresholds and priorities are two tables in two
\* files.
DigestIsWeakest ==
    event # None => \A tag \in {"own_it", "none"} :
        PriorityFor(quote, event.bars, tag) = "P2" =>
            \/ event.verdict = "significant_flat_fallback"
            \/ event.verdict = "significant_z_and_volume" /\ event.tier = "verified"

Answered == narration # None

\* The tier is not stored with an event, and what the narrator is told instead
\* knows nothing of the number of sources (stocks.py:171 against
\* market_data.py:69).  It is nevertheless the tier the event fired at, unless a
\* single source answered where no more than two are configured: only there may a
\* solo claim pass for verified.
ToldTierIsTheEvents ==
    Answered =>
        \/ narration.tier = event.tier
        \/ /\ narration.tier = "verified" /\ event.tier = "best_available"
           /\ Cardinality(OkSources(reading)) = 1 /\ Cardinality(Sources) <= 2

\* Nothing is presented as a model's words that is not: a model was configured,
\* reachable and had news, and it wrote something.
ModelSpeaksForItself ==
    Answered /\ narration.answer.by \in {"groq-api", "anthropic-api"} =>
        /\ narration.reply = "text"
        /\ narration.config.pin # "none"
        /\ \E i \in DOMAIN RecentNews(narration.feed) : TRUE
        /\ narration.answer.by = "groq-api"
             => narration.config.groqKey /\ narration.config.pin # "anthropic"
        /\ narration.answer.by = "anthropic-api"
             => narration.config.anthropicKey /\ narration.config.pin # "groq"

\* Citation integrity (narrator.py:315-320): whatever headline a narration may
\* refer to, made by a model or not, its reader is given.
CitesWhatItNames ==
    Answered => \A i \in DOMAIN narration.answer.mayName :
        \E j \in DOMAIN narration.answer.cites :
            narration.answer.cites[j] = narration.answer.mayName[i]

\* A narration that raises was given a broken entry: no failure of the lookup,
\* the configuration, the client libraries or the model reaches the endpoint.
FailureDegrades ==
    Answered /\ narration.answer.by = "exception" =>
        \E i \in DOMAIN narration.feed.entries : narration.feed.entries[i] = "malformed"

\* What a reader may rely on, whatever is configured and whatever fails: the
\* three parts above.
NarrationIsHonest == ModelSpeaksForItself /\ CitesWhatItNames /\ FailureDegrades
=============================================================================
