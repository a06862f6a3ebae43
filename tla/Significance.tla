---------------------------- MODULE Significance ----------------------------
(***************************************************************************)
(* detect_significance of significance.py: the ladder of gates a resolved  *)
(* quote goes through before it becomes a significant event; and           *)
(* priority_for of notifications.py, which grades the event for a watcher. *)
(*                                                                         *)
(* A history is what the ladder reads of the stored daily bars:            *)
(*   bars    how many there are,                                           *)
(*   prev    the last close,                                               *)
(*   mean, stddev   of the trailing daily returns, in basis points (the    *)
(*           result of trailing_volatility, whose arithmetic is left out), *)
(*   avgVolume      mean of the recent volumes, 0 when there is none.      *)
(***************************************************************************)
EXTENDS Integers

MinHistoryBars == 5
FlatFallbackBp == 500       \* FLAT_HISTORY_FALLBACK_PCT, 5%

\* Mutant of ThresholdsFor: the two tables swapped.
ThresholdsSwapped(tier) ==
    IF tier = "verified"
    THEN [zSolo |-> 30, zCombined |-> 20, volumeRatio |-> 3]
    ELSE [zSolo |-> 20, zCombined |-> 12, volumeRatio |-> 2]

\* VERIFIED_THRESHOLDS and BEST_AVAILABLE_THRESHOLDS; z in tenths of a sigma.
ThresholdsFor(tier) ==
    IF tier = "verified"
    THEN [zSolo |-> 20, zCombined |-> 12, volumeRatio |-> 2]
    ELSE [zSolo |-> 30, zCombined |-> 20, volumeRatio |-> 3]

Magnitude(n) == IF n >= 0 THEN n ELSE -n

\* price - prev_close, doubled like the price.
Move2(quote, history) == quote.price2 - 2 * history.prev

\* |z| >= t / 10, multiplied out: z = (10000 * move / prev - mean) / stddev.
ZAtLeast(quote, history, t) ==
    10 * Magnitude(10000 * Move2(quote, history)
                   - history.mean * 2 * history.prev)
        >= t * history.stddev * 2 * history.prev

\* compute_volume_ratio >= k; the ratio is 1 when a volume is missing.
VolumeAtLeast(quote, history, k) ==
    /\ quote.volume2 > 0
    /\ history.avgVolume > 0
    /\ quote.volume2 >= 2 * k * history.avgVolume

FlatMove(quote, history) ==
    10000 * Magnitude(Move2(quote, history))
        >= FlatFallbackBp * 2 * history.prev

\* The reason the verdict carries; the three "significant" ones make an event.
Verdict(quote, history, inCircuit) ==
    LET t == ThresholdsFor(quote.tier)
    IN  IF inCircuit THEN "in_exchange_circuit"
        ELSE IF quote.tier = "unconfirmed" THEN "unconfirmed_quote"
        ELSE IF history.bars < MinHistoryBars THEN "insufficient_history"
        ELSE IF history.stddev = 0 THEN
            IF FlatMove(quote, history) THEN "significant_flat_fallback"
            ELSE "zero_volatility_no_move"
        ELSE IF ZAtLeast(quote, history, t.zSolo) THEN "significant_z"
        ELSE IF /\ ZAtLeast(quote, history, t.zCombined)
                /\ VolumeAtLeast(quote, history, t.volumeRatio)
             THEN "significant_z_and_volume"
        ELSE "below_threshold"

Significant(verdict) ==
    verdict \in {"significant_z", "significant_z_and_volume",
                 "significant_flat_fallback"}

Direction(quote, history) ==
    IF Move2(quote, history) >= 0 THEN "up" ELSE "down"

\* Mutant of PriorityFor: the limits themselves left out.
PriorityForBeyond(quote, history, tag) ==
    IF history.stddev = 0 THEN "P2"
    ELSE IF ZAtLeast(quote, history, 41) \/ (tag = "own_it" /\ ZAtLeast(quote, history, 31))
    THEN "P0"
    ELSE IF ZAtLeast(quote, history, 21) THEN "P1"
    ELSE "P2"

\* priority_for; an event without a z score is stored with z = 0.
PriorityFor(quote, history, tag) ==
    IF history.stddev = 0 THEN "P2"
    ELSE IF ZAtLeast(quote, history, 40) \/ (tag = "own_it" /\ ZAtLeast(quote, history, 30))
    THEN "P0"
    ELSE IF ZAtLeast(quote, history, 20) THEN "P1"
    ELSE "P2"
=============================================================================
