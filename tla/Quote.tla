------------------------------- MODULE Quote -------------------------------
(***************************************************************************)
(* What Reconciler.reconcile computes from the readings of one fan-out:    *)
(* the median price, the confidence score and the confidence tier.  Pure   *)
(* operators, no variables.                                                *)
(*                                                                         *)
(* The code computes with floats; here every quantity is an exact ratio of *)
(* integers.  A median is kept doubled (the median of two prices is half   *)
(* of their sum), a confidence is a record [num, den].                     *)
(***************************************************************************)
EXTENDS Integers, FiniteSets

\* SourceReading: price 0 is an error reading, volume 0 stands for None (the
\* adapters turn a zero volume into None), age is now - fetched_at in seconds.
Usable(r) == r.price > 0

OkSources(readings) == {s \in DOMAIN readings : Usable(readings[s])}

\* statistics.median of f over S, doubled: the sum of the lower and the upper
\* middle element, which are the same one when S is odd.
Ranked(f, S, k) ==
    CHOOSE v \in {f[s] : s \in S} :
        /\ Cardinality({s \in S : f[s] < v}) < k
        /\ k <= Cardinality({s \in S : f[s] <= v})

TwiceMedian(f, S) ==
    LET n == Cardinality(S)
    IN  Ranked(f, S, (n + 1) \div 2) + Ranked(f, S, (n \div 2) + 1)

Prices(readings) == [s \in DOMAIN readings |-> readings[s].price]
Volumes(readings) == [s \in DOMAIN readings |-> readings[s].volume]

Least(V) == CHOOSE v \in V : \A w \in V : v <= w
Greatest(V) == CHOOSE v \in V : \A w \in V : v >= w

PriceSpread(readings) ==
    LET P == {readings[s].price : s \in OkSources(readings)}
    IN  Greatest(P) - Least(P)

StalenessCap == 90      \* STALENESS_CAP_S; SPREAD_CAP, 2%, is 2 * 100 / 200

NonNegative(n) == IF n >= 0 THEN n ELSE 0

\* _confidence_terms and compute_confidence: 0.35 coverage + 0.45 agreement
\* + 0.20 freshness, over the common denominator 900 * n * 2m, where 2m is the
\* doubled median: agreement is (2m - 100 * spread) / 2m.
Confidence(readings) ==
    LET configured == Cardinality(DOMAIN readings)
        ok         == OkSources(readings)
        median2    == TwiceMedian(Prices(readings), ok)
        agreement  == NonNegative(median2 - 100 * PriceSpread(readings))
        oldest     == Greatest({readings[s].age : s \in ok})
        freshness  == NonNegative(StalenessCap - oldest)
    IN  IF ok = {}
        THEN [num |-> 0, den |-> 1]
        ELSE [num |-> 315 * Cardinality(ok) * median2
                      + 405 * configured * agreement
                      + 2 * configured * median2 * freshness,
              den |-> 900 * configured * median2]

\* Mutant of ReachesVerified: a threshold of 0.75.
ReachesThreeQuarters(c) == 4 * c.num >= 3 * c.den

ReachesVerified(c) == 5 * c.num >= 4 * c.den    \* VERIFIED_THRESHOLD = 0.80
ReachesBest(c)     == 2 * c.num >= c.den        \* BEST_THRESHOLD = 0.50

TierFor(confidence, nOkSources) ==
    IF ReachesVerified(confidence) /\ nOkSources >= 2 THEN "verified"
    ELSE IF ReachesBest(confidence) THEN "best_available"
    ELSE "unconfirmed"

\* The resolved price, doubled, 0 when no source gave one.  The mutants resolve
\* to the lowest price, and to the middle of the range.
LowestPrice2(readings) ==
    IF OkSources(readings) = {} THEN 0
    ELSE 2 * Ranked(Prices(readings), OkSources(readings), 1)

MidrangePrice2(readings) ==
    LET ok == OkSources(readings) IN
    IF ok = {} THEN 0
    ELSE LET P == {readings[s].price : s \in ok} IN Least(P) + Greatest(P)

ResolvedPrice2(readings) ==
    LET ok == OkSources(readings) IN
    IF ok = {} THEN 0 ELSE TwiceMedian(Prices(readings), ok)

\* Reconciler.reconcile after the gather: the volume is a doubled median too.
Reconcile(readings) ==
    LET ok         == OkSources(readings)
        withVolume == {s \in ok : readings[s].volume # 0}
        confidence == Confidence(readings)
    IN  [price2  |-> ResolvedPrice2(readings),
         volume2 |-> IF withVolume = {} THEN 0
                     ELSE TwiceMedian(Volumes(readings), withVolume),
         confidence |-> confidence,
         tier    |-> TierFor(confidence, Cardinality(ok))]
=============================================================================
