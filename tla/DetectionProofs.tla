-------------------------- MODULE DetectionProofs --------------------------
(***************************************************************************)
(* Detection, proved for any finite sets of sources and for all prices,    *)
(* volumes, ages and histories.  The first half is about the operators:    *)
(* the median of a finite set of readings exists and has half of them on   *)
(* either side; the weights of the confidence add up.  The second half     *)
(* carries what they compute from the answers to the event.                *)
(***************************************************************************)
EXTENDS Detection, FiniteSetTheorems, SequenceTheorems, WellFoundedInduction, TLAPS

(* The inductive invariant                                                  *)

\* The answers of all the sources that a deployment has.
Complete == UNION {[D -> Readings] : D \in Deployments}

\* The quote is what the answers of this poll amount to, all of them.
QuoteIsReconciled ==
    Resolved => reading \in Complete /\ quote = Reconcile(reading)

\* The event is one that this quote makes on some history.
EventIsDetected ==
    event # None => Resolved /\ \E h \in Histories : Fires(h) /\ event = EventRow(h)

\* The narration is of this event, and what the narrator makes of its input.
NarrationIsOfEvent ==
    Answered =>
        /\ event # None /\ narration.tier = ToldTier
        /\ narration.feed \in Feeds
        /\ narration.answer
             = NarrateEvent(narration.config, narration.feed, narration.reply)

IInv ==
    /\ \E D \in Deployments : reading \in [D -> Readings \cup {Unanswered}]
    /\ QuoteIsReconciled
    /\ EventIsDetected
    /\ NarrationIsOfEvent
-----------------------------------------------------------------------------

\* A set of natural numbers has a least element.
LEMMA LeastNatural ==
    ASSUME NEW S \in SUBSET Nat, S # {}
    PROVE  \E m \in S : \A n \in S : m <= n
<1> DEFINE R == {ss \in Nat \X Nat : ss[1] < ss[2]}
<1>1. IsWellFoundedOn(R, Nat)
  BY NatLessThanWellFounded DEF OpToRel
<1>2. PICK m \in S : \A n \in S : <<n, m>> \notin R
  <2> HIDE DEF R
  <2>1. QED
    BY <1>1, WFMin
<1>3. \A n \in S : ~(n < m)
  BY <1>2
<1>4. QED
  BY <1>3

\* On a finite set a function takes a least value ...
LEMMA SomeLeast ==
    ASSUME NEW S, IsFiniteSet(S), S # {}, NEW f, \A s \in S : f[s] \in Int
    PROVE  \E m \in S : \A s \in S : f[m] <= f[s]
<1> DEFINE Below(m) == {s \in S : f[s] < f[m]}
           N == {Cardinality(Below(m)) : m \in S}
<1>1. \A m \in S : IsFiniteSet(Below(m)) /\ Cardinality(Below(m)) \in Nat
  BY FS_Subset, FS_CardinalityType
<1>2. PICK m \in S : \A s \in S : Cardinality(Below(m)) <= Cardinality(Below(s))
  <2>1. N \in SUBSET Nat /\ N # {}
    BY <1>1
  <2>2. PICK c \in N : \A d \in N : c <= d
    <3> HIDE DEF N
    <3>1. QED
      BY <2>1, LeastNatural
  <2>3. PICK m \in S : c = Cardinality(Below(m))
    BY <2>2
  <2>4. \A s \in S : Cardinality(Below(s)) \in N
    OBVIOUS
  <2>5. QED
    BY <2>2, <2>3, <2>4
<1>3. ASSUME NEW s \in S, f[s] < f[m]
      PROVE  FALSE
  <2>1. Below(s) \subseteq Below(m) /\ s \in Below(m) /\ s \notin Below(s)
    BY <1>3
  <2>2. Below(s) # Below(m)
    BY <2>1
  <2>3. Cardinality(Below(s)) <= Cardinality(Below(m))
        /\ Cardinality(Below(s)) # Cardinality(Below(m))
    <3> HIDE DEF Below
    <3>1. QED
      BY <1>1, <2>1, <2>2, FS_Subset
  <2>4. Cardinality(Below(m)) <= Cardinality(Below(s))
    BY <1>2
  <2>5. Cardinality(Below(m)) \in Nat /\ Cardinality(Below(s)) \in Nat
    BY <1>1
  <2>6. QED
    <3> HIDE DEF Below
    <3>1. QED
      BY <2>3, <2>4, <2>5
<1>4. QED
  BY <1>3

\* ... and a greatest.
LEMMA SomeGreatest ==
    ASSUME NEW S, IsFiniteSet(S), S # {}, NEW f, \A s \in S : f[s] \in Int
    PROVE  \E m \in S : \A s \in S : f[s] <= f[m]
<1> DEFINE g == [s \in S |-> 0 - f[s]]
<1>1. \A s \in S : g[s] \in Int /\ g[s] = 0 - f[s]
  OBVIOUS
<1>2. PICK m \in S : \A s \in S : g[m] <= g[s]
  <2> HIDE DEF g
  <2>1. QED
    BY <1>1, SomeLeast
<1>3. QED
  BY <1>1, <1>2

\* The values of a function on a set.
ValuesOn(f, S) == {f[s] : s \in S}

\* Least and Greatest of the values are attained and bound them.
LEMMA Extremes ==
    ASSUME NEW S, IsFiniteSet(S), S # {}, NEW f, \A s \in S : f[s] \in Int
    PROVE  /\ Least(ValuesOn(f, S)) \in ValuesOn(f, S)
           /\ Greatest(ValuesOn(f, S)) \in ValuesOn(f, S)
           /\ \A s \in S : /\ Least(ValuesOn(f, S)) <= f[s]
                           /\ f[s] <= Greatest(ValuesOn(f, S))
<1> DEFINE V == {f[s] : s \in S}
<1>1. \E v \in V : \A w \in V : v <= w
  BY SomeLeast
<1>2. \E v \in V : \A w \in V : v >= w
  BY SomeGreatest
<1>3. \A s \in S : f[s] \in V
  OBVIOUS
<1>4. V \subseteq Int
  OBVIOUS
<1> HIDE DEF V
<1>5. Least(V) \in V /\ \A w \in V : Least(V) <= w
  BY <1>1 DEF Least
<1>6. Greatest(V) \in V /\ \A w \in V : Greatest(V) >= w
  BY <1>2 DEF Greatest
<1>7. /\ Least(V) \in V /\ Greatest(V) \in V
      /\ \A s \in S : Least(V) <= f[s] /\ f[s] <= Greatest(V)
  BY <1>3, <1>4, <1>5, <1>6
<1>8. QED
  BY <1>7 DEF V, ValuesOn

\* The members of a set on which a function is at most v, or below it.
AtMost(f, S, v) == {s \in S : f[s] <= v}
Beneath(f, S, v) == {s \in S : f[s] < v}

\* There is a value of every rank: fewer than k of the set are below it, at
\* least k are not above it.
LEMMA RankedIsRanked ==
    ASSUME NEW S, IsFiniteSet(S), NEW f, \A s \in S : f[s] \in Int,
           NEW k \in 1..Cardinality(S)
    PROVE  /\ \E s \in S : Ranked(f, S, k) = f[s]
           /\ Cardinality(Beneath(f, S, Ranked(f, S, k))) < k
           /\ k <= Cardinality(AtMost(f, S, Ranked(f, S, k)))
<1> DEFINE UpTo(v) == {s \in S : f[s] <= v}
           Below(v) == {s \in S : f[s] < v}
           G == {s \in S : k <= Cardinality(UpTo(f[s]))}
<1>1. \A T \in SUBSET S : IsFiniteSet(T) /\ Cardinality(T) \in Nat
  BY FS_Subset, FS_CardinalityType
<1>2. Cardinality(S) \in Nat /\ S # {}
  BY FS_CardinalityType, FS_EmptySet
<1>3. G # {}
  <2>1. PICK m \in S : \A s \in S : f[s] <= f[m]
    BY <1>2, SomeGreatest
  <2>2. UpTo(f[m]) = S
    BY <2>1
  <2>3. k <= Cardinality(UpTo(f[m]))
    BY <2>2
  <2>4. QED
    BY <2>3
<1>4. G \subseteq S
  OBVIOUS
<1>5. PICK v \in G : \A s \in G : f[v] <= f[s]
  <2> HIDE DEF G
  <2>1. QED
    BY <1>1, <1>3, <1>4, SomeLeast
<1>6. ASSUME ~(Cardinality(Below(f[v])) < k)
      PROVE  FALSE
  <2>1. Below(f[v]) \subseteq S
    OBVIOUS
  <2>2. IsFiniteSet(Below(f[v])) /\ Cardinality(Below(f[v])) \in Nat
    <3> HIDE DEF Below
    <3>1. QED
      BY <1>1, <2>1
  <2>3. k <= Cardinality(Below(f[v])) /\ Below(f[v]) # {}
    <3> HIDE DEF Below
    <3>1. QED
      BY <1>6, <2>2, FS_EmptySet
  <2>4. PICK w \in Below(f[v]) : \A s \in Below(f[v]) : f[s] <= f[w]
    <3> HIDE DEF Below
    <3>1. QED
      BY <2>1, <2>2, <2>3, SomeGreatest
  <2>5. w \in S /\ f[w] < f[v] /\ v \in S
    BY <1>4, <2>4
  <2>6. UpTo(f[w]) = Below(f[v])
    BY <2>4, <2>5
  <2>7. k <= Cardinality(UpTo(f[w]))
    <3> HIDE DEF Below, UpTo
    <3>1. QED
      BY <2>3, <2>6
  <2>8. w \in G
    BY <2>5, <2>7
  <2>9. f[v] <= f[w]
    BY <1>5, <2>8
  <2>10. QED
    BY <2>5, <2>9
<1>7. /\ f[v] \in {f[s] : s \in S}
      /\ Cardinality({s \in S : f[s] < f[v]}) < k
      /\ k <= Cardinality({s \in S : f[s] <= f[v]})
  BY <1>4, <1>5, <1>6
<1>8. /\ Ranked(f, S, k) \in {f[s] : s \in S}
      /\ Cardinality({s \in S : f[s] < Ranked(f, S, k)}) < k
      /\ k <= Cardinality({s \in S : f[s] <= Ranked(f, S, k)})
  BY <1>7 DEF Ranked
<1>9. QED
  BY <1>8 DEF AtMost, Beneath

\* The doubled median of the values over a finite set is the sum of two of them,
\* a and b, with half of the set on the near side of each.
LEMMA MedianIsCentral ==
    ASSUME NEW S, IsFiniteSet(S), S # {}, NEW f, \A s \in S : f[s] \in Int
    PROVE  \E x, y \in S :
               /\ TwiceMedian(f, S) = f[x] + f[y] /\ f[x] <= f[y]
               /\ Cardinality(S) <= 2 * Cardinality(AtMost(f, S, f[x]))
               /\ 2 * Cardinality(Beneath(f, S, f[y])) <= Cardinality(S)
<1> DEFINE UpTo(v) == AtMost(f, S, v)
           Below(v) == Beneath(f, S, v)
<1>1. PICK n \in Nat : n = Cardinality(S) /\ n > 0
  BY FS_CardinalityType, FS_EmptySet
<1>2. /\ (n + 1) \div 2 \in 1..n /\ (n \div 2) + 1 \in 1..n
      /\ n <= 2 * ((n + 1) \div 2) /\ 2 * (n \div 2) <= n
      /\ (n + 1) \div 2 <= (n \div 2) + 1
  BY <1>1
<1>3. \A k \in 1..n : /\ \E s \in S : Ranked(f, S, k) = f[s]
                      /\ Cardinality(Below(Ranked(f, S, k))) < k
                      /\ k <= Cardinality(UpTo(Ranked(f, S, k)))
  BY <1>1, RankedIsRanked
<1>4. PICK x \in S : /\ f[x] = Ranked(f, S, (n + 1) \div 2)
                     /\ Cardinality(Below(f[x])) < (n + 1) \div 2
                     /\ (n + 1) \div 2 <= Cardinality(UpTo(f[x]))
  BY <1>3, <1>2
<1>5. PICK y \in S : /\ f[y] = Ranked(f, S, (n \div 2) + 1)
                     /\ Cardinality(Below(f[y])) < (n \div 2) + 1
                     /\ (n \div 2) + 1 <= Cardinality(UpTo(f[y]))
  BY <1>3, <1>2
<1>6. \A v : /\ Cardinality(UpTo(v)) \in Nat /\ Cardinality(Below(v)) \in Nat
             /\ IsFiniteSet(UpTo(v)) /\ IsFiniteSet(Below(v))
  <2>1. \A v : UpTo(v) \in SUBSET S /\ Below(v) \in SUBSET S
    BY DEF AtMost, Beneath
  <2>2. QED
    BY <2>1, FS_Subset, FS_CardinalityType
<1>7. f[x] <= f[y]
  <2> SUFFICES ASSUME f[y] < f[x] PROVE FALSE
    OBVIOUS
  <2>1. UpTo(f[y]) \subseteq Below(f[x])
    BY DEF AtMost, Beneath
  <2>2. Cardinality(UpTo(f[y])) <= Cardinality(Below(f[x]))
    BY <1>6, <2>1, FS_Subset
  <2>3. (n + 1) \div 2 \in Nat /\ (n \div 2) + 1 \in Nat
    BY <1>2
  <2>4. QED
    BY <1>2, <1>4, <1>5, <1>6, <2>2, <2>3
<1>8. n <= 2 * Cardinality(UpTo(f[x])) /\ 2 * Cardinality(Below(f[y])) <= n
  <2>1. Cardinality(UpTo(f[x])) \in Nat /\ Cardinality(Below(f[y])) \in Nat
    BY <1>6
  <2>2. QED
    BY <1>1, <1>2, <1>4, <1>5, <2>1
<1>9. TwiceMedian(f, S) = f[x] + f[y]
  BY <1>1, <1>4, <1>5 DEF TwiceMedian
<1>10. QED
  BY <1>1, <1>7, <1>8, <1>9

\* A majority reaches to either side of both.
LEMMA MajorityStraddles ==
    ASSUME NEW S, IsFiniteSet(S), NEW f, NEW a, NEW b,
           Cardinality(S) <= 2 * Cardinality(AtMost(f, S, a)),
           2 * Cardinality(Beneath(f, S, b)) <= Cardinality(S),
           NEW H \in SUBSET S, 2 * Cardinality(H) > Cardinality(S)
    PROVE  (\E s \in H : f[s] <= a) /\ (\E s \in H : ~(f[s] < b))
<1> DEFINE UpTo == AtMost(f, S, a)
           Below == Beneath(f, S, b)
<1>1. UpTo \in SUBSET S /\ Below \in SUBSET S
  BY DEF AtMost, Beneath
<1>2. \A s \in S : (s \in UpTo <=> f[s] <= a) /\ (s \in Below <=> f[s] < b)
  BY DEF AtMost, Beneath
<1>3. \A T \in SUBSET S : IsFiniteSet(T) /\ Cardinality(T) \in Nat
  BY FS_Subset, FS_CardinalityType
<1>4. /\ Cardinality(H) \in Nat /\ Cardinality(S) \in Nat
      /\ Cardinality(UpTo) \in Nat /\ Cardinality(Below) \in Nat
  BY <1>1, <1>3
<1>5. H \cap UpTo # {}
  <2>1. Cardinality(H) + Cardinality(UpTo) > Cardinality(S)
    BY <1>4
  <2>2. QED
    BY <1>1, <2>1, FS_MajoritiesIntersect
<1>6. ~(H \subseteq Below)
  <2>1. H \subseteq Below => Cardinality(H) <= Cardinality(Below)
    BY <1>1, <1>3, FS_Subset
  <2>2. QED
    BY <1>4, <2>1
<1>7. QED
  BY <1>2, <1>5, <1>6

\* Multiplying by a natural number keeps the order.
LEMMA Product ==
    ASSUME NEW a \in Int, NEW b \in Int, a <= b, NEW c \in Nat
    PROVE  a * c \in Int /\ b * c \in Int /\ a * c <= b * c
<1>1. (b - a) * c >= 0
  <2>1. \A x, y \in Nat : x * y >= 0
    OBVIOUS
  <2>2. b - a \in Nat
    OBVIOUS
  <2>3. QED
    BY <2>1, <2>2
<1>2. (b - a) * c = b * c - a * c
  OBVIOUS
<1>3. QED
  BY <1>1, <1>2

\* A confidence as it is computed from whole numbers, and what it is a part of.
Weighted(c, k, m, a, f) == 315 * k * m + 405 * c * a + 2 * c * m * f
Whole(c, m) == 900 * c * m

\* The three weights of a confidence add up to one, and a confidence of at least
\* 0.80 needs an agreement of at least 5/9, and more than one answer when there are
\* three sources or more: here c sources are configured, k of
\* them answered, m is the doubled median, a the agreement times m and f the
\* freshness in seconds.
LEMMA WeightsAddUp ==
    ASSUME NEW c \in Nat \ {0}, NEW k \in 0..c, NEW m \in Nat \ {0},
           NEW a \in 0..m, NEW f \in 0..90
    PROVE  /\ Weighted(c, k, m, a, f) \in 0..Whole(c, m)
           /\ 5 * Weighted(c, k, m, a, f) >= 4 * Whole(c, m) =>
                5 * m <= 9 * a /\ (k = 1 => c <= 2)
<1> DEFINE num == Weighted(c, k, m, a, f)
           den == Whole(c, m)
<1>1. PICK p, q, r, s \in Int : p = c * m /\ q = k * m /\ r = c * a /\ s = c * m * f
  OBVIOUS
<1>2. 0 <= q /\ q <= p
  BY <1>1, Product
<1>3. 0 <= r /\ r <= p
  <2>1. 0 * c <= a * c /\ a * c <= m * c
    BY Product
  <2>2. QED
    BY <1>1, <2>1
<1>4. 0 <= s /\ s <= 90 * p
  <2>1. p \in Nat
    BY <1>1, <1>2
  <2>2. 0 * p <= f * p /\ f * p <= 90 * p
    BY <2>1, Product
  <2>3. QED
    BY <1>1, <2>2
<1>5. num = 315 * q + 405 * r + 2 * s /\ den = 900 * p
  BY <1>1 DEF Weighted, Whole
<1> HIDE DEF num, den
<1>6. num \in 0..den
  BY <1>2, <1>3, <1>4, <1>5
<1>7. ASSUME 5 * num >= 4 * den
      PROVE  5 * m <= 9 * a
  <2>1. 5 * p <= 9 * r
    BY <1>2, <1>3, <1>4, <1>5, <1>7
  <2>2. SUFFICES ASSUME 9 * a + 1 <= 5 * m PROVE FALSE
    OBVIOUS
  <2>3. (9 * a + 1) * c <= (5 * m) * c
    BY <2>2, Product
  <2>4. (9 * a + 1) * c = 9 * r + c /\ (5 * m) * c = 5 * p
    BY <1>1
  <2>5. QED
    BY <2>1, <2>3, <2>4
<1>8. ASSUME 5 * num >= 4 * den, k = 1
      PROVE  c <= 2
  <2>1. 675 * p <= 1575 * m
    <3>1. q = m
      BY <1>1, <1>8
    <3>2. QED
      BY <1>3, <1>4, <1>5, <1>8, <3>1
  <2>2. SUFFICES ASSUME 3 <= c PROVE FALSE
    OBVIOUS
  <2>3. 3 * m <= p
    BY <1>1, <2>2, Product
  <2>4. QED
    BY <2>1, <2>3, <1>1
<1>9. QED
  BY <1>6, <1>7, <1>8 DEF num, den
-----------------------------------------------------------------------------
(* What reconcile computes from the answers of all sources                  *)

\* The sources that answered with a price are some of the configured ones.
LEMMA OkSourcesAreSources ==
    ASSUME NEW R \in Complete
    PROVE  /\ IsFiniteSet(OkSources(R)) /\ OkSources(R) \in SUBSET DOMAIN R
           /\ DOMAIN R \in Deployments /\ IsFiniteSet(DOMAIN R) /\ DOMAIN R # {}
           /\ \A s \in DOMAIN R : /\ R[s].price \in Nat /\ R[s].volume \in Nat
                                 /\ R[s].age \in Nat /\ R[s] # Unanswered
           /\ \A s \in OkSources(R) : R[s].price > 0
<1>1. PICK D \in Deployments : R \in [D -> Readings]
  BY DEF Complete
<1>2. DOMAIN R = D /\ OkSources(R) \in SUBSET D
  BY <1>1 DEF OkSources
<1>3. IsFiniteSet(D) /\ D # {} /\ IsFiniteSet(OkSources(R))
  BY <1>2, DeploymentsAssumption, FS_Subset
<1>4. \A s \in D : R[s].price \in Nat /\ R[s].volume \in Nat /\ R[s].age \in Nat
  BY <1>1, ReadingsAssumption
<1>5. \A s \in D : R[s] # Unanswered
  <2>1. Unanswered.price \notin Nat
    BY DEF Unanswered
  <2>2. QED
    BY <1>4, <2>1
<1>6. \A s \in OkSources(R) : R[s].price > 0
  BY DEF OkSources, Usable
<1>7. QED
  BY <1>2, <1>3, <1>4, <1>5, <1>6

\* The resolved price is central among the prices of the sources that answered.
LEMMA PriceIsCentral ==
    ASSUME NEW R \in Complete, OkSources(R) # {}
    PROVE  \E x, y \in OkSources(R) :
               /\ ResolvedPrice2(R) = R[x].price + R[y].price
               /\ R[x].price <= R[y].price
               /\ Cardinality(OkSources(R))
                    <= 2 * Cardinality(AtMost(Prices(R), OkSources(R), R[x].price))
               /\ 2 * Cardinality(Beneath(Prices(R), OkSources(R), R[y].price))
                    <= Cardinality(OkSources(R))
<1> DEFINE f == Prices(R)
<1>1. \A s \in OkSources(R) : f[s] = R[s].price /\ f[s] \in Int
  BY OkSourcesAreSources DEF Prices
<1>2. ResolvedPrice2(R) = TwiceMedian(f, OkSources(R))
  BY DEF ResolvedPrice2
<1>3. IsFiniteSet(OkSources(R))
  BY OkSourcesAreSources
<1> HIDE DEF f
<1>4. PICK x, y \in OkSources(R) :
          /\ TwiceMedian(f, OkSources(R)) = f[x] + f[y] /\ f[x] <= f[y]
          /\ Cardinality(OkSources(R)) <= 2 * Cardinality(AtMost(f, OkSources(R), f[x]))
          /\ 2 * Cardinality(Beneath(f, OkSources(R), f[y])) <= Cardinality(OkSources(R))
  BY <1>1, <1>3, MedianIsCentral
<1>5. f[x] = R[x].price /\ f[y] = R[y].price
  BY <1>1
<1>6. QED
  BY <1>2, <1>4, <1>5 DEF f

\* The spread is the distance of two of the prices, the oldest age one of the ages.
LEMMA SpreadAndAge ==
    ASSUME NEW R \in Complete, OkSources(R) # {}
    PROVE  /\ PriceSpread(R) \in Nat
           /\ Greatest({R[s].age : s \in OkSources(R)}) \in Nat
<1> DEFINE p == [s \in OkSources(R) |-> R[s].price]
           g == [s \in OkSources(R) |-> R[s].age]
           ok == OkSources(R)
           P == {R[s].price : s \in OkSources(R)}
           A == {R[s].age : s \in OkSources(R)}
<1>1. /\ IsFiniteSet(ok)
      /\ \A s \in ok : /\ p[s] = R[s].price /\ p[s] \in Nat
                      /\ g[s] = R[s].age /\ g[s] \in Nat
  BY OkSourcesAreSources
<1>2. P = ValuesOn(p, ok) /\ A = ValuesOn(g, ok)
  BY <1>1 DEF ValuesOn
<1>3. /\ Least(P) \in P /\ Greatest(P) \in P
      /\ \A s \in ok : Least(P) <= p[s] /\ p[s] <= Greatest(P)
  <2> HIDE DEF p, g, P, A, ok
  <2>1. ok # {}
    BY DEF ok
  <2>2. QED
    BY <1>1, <1>2, <2>1, Extremes
<1>4. Greatest(A) \in A
  <2> HIDE DEF p, g, P, A, ok
  <2>1. ok # {}
    BY DEF ok
  <2>2. QED
    BY <1>1, <1>2, <2>1, Extremes
<1>5. P \subseteq Nat /\ A \subseteq Nat
  BY <1>1
<1>6. PriceSpread(R) = Greatest(P) - Least(P)
  BY DEF PriceSpread
<1>7. Greatest(P) - Least(P) \in Nat
  <2> HIDE DEF P, A, p, g
  <2>1. PICK s \in ok : TRUE
    OBVIOUS
  <2>2. Least(P) \in Nat /\ Greatest(P) \in Nat /\ p[s] \in Nat
    BY <1>1, <1>3, <1>5, <2>1
  <2>3. Least(P) <= p[s] /\ p[s] <= Greatest(P)
    BY <1>3, <2>1
  <2>4. QED
    BY <2>2, <2>3
<1>8. QED
  BY <1>4, <1>5, <1>6, <1>7

\* The confidence is a ratio between 0 and 1, and what reaches 0.80 agrees, and is
\* not the word of one source out of three or more.
LEMMA ConfidenceMeansAgreement ==
    ASSUME NEW R \in Complete
    PROVE  /\ Confidence(R).num \in 0..Confidence(R).den
           /\ OkSources(R) # {} /\ ReachesVerified(Confidence(R))
                => /\ 2 * 900 * PriceSpread(R) <= 8 * ResolvedPrice2(R)
                   /\ Cardinality(OkSources(R)) = 1 => Cardinality(DOMAIN R) <= 2
<1>1. CASE OkSources(R) = {}
  <2>1. Confidence(R) = [num |-> 0, den |-> 1]
    BY <1>1 DEF Confidence
  <2>2. QED
    BY <1>1, <2>1
<1>2. CASE OkSources(R) # {}
  <2>1. PICK m : m = ResolvedPrice2(R)
    OBVIOUS
  <2>2. m \in Nat \ {0} /\ m = TwiceMedian(Prices(R), OkSources(R))
    <3>1. m = TwiceMedian(Prices(R), OkSources(R))
      BY <1>2, <2>1 DEF ResolvedPrice2
    <3>2. PICK x, y \in OkSources(R) : m = R[x].price + R[y].price
      BY <1>2, <2>1, PriceIsCentral
    <3>3. /\ R[x].price \in Nat /\ R[x].price > 0
          /\ R[y].price \in Nat /\ R[y].price > 0
      BY <3>2, OkSourcesAreSources
    <3>4. QED
      BY <3>1, <3>2, <3>3
  <2>3. PICK c : c = Cardinality(DOMAIN R)
    OBVIOUS
  <2>4. PICK k : k = Cardinality(OkSources(R))
    OBVIOUS
  <2>5. c \in Nat \ {0} /\ k \in 0..c
    <3>1. c \in Nat /\ c # 0 /\ k \in Nat /\ k <= c
      BY <2>3, <2>4, OkSourcesAreSources, FS_CardinalityType,
         FS_EmptySet, FS_Subset
    <3>2. QED
      BY <3>1
  <2>6. PICK d : d = PriceSpread(R) /\ d \in Nat
    BY <1>2, SpreadAndAge
  <2>7. PICK o : o = Greatest({R[s].age : s \in OkSources(R)}) /\ o \in Nat
    BY <1>2, SpreadAndAge
  <2>8. PICK a : a = NonNegative(m - 100 * d)
    OBVIOUS
  <2>9. PICK f : f = NonNegative(90 - o)
    OBVIOUS
  <2>10. a \in 0..m /\ f \in 0..90
    BY <2>2, <2>6, <2>7, <2>8, <2>9 DEF NonNegative
  <2>11. Confidence(R) = [num |-> Weighted(c, k, m, a, f), den |-> Whole(c, m)]
    BY <1>2, <2>2, <2>3, <2>4, <2>6, <2>7, <2>8, <2>9
       DEF Confidence, StalenessCap, Weighted, Whole
  <2>12. PICK num, den : num = Weighted(c, k, m, a, f) /\ den = Whole(c, m)
    OBVIOUS
  <2>13. Confidence(R).num = num /\ Confidence(R).den = den
    BY <2>11, <2>12
  <2>14. /\ num \in 0..den
         /\ 5 * num >= 4 * den => 5 * m <= 9 * a /\ (k = 1 => c <= 2)
    BY <2>2, <2>5, <2>10, <2>12, WeightsAddUp
  <2>15. 5 * m <= 9 * a => 2 * 900 * d <= 8 * m
    BY <2>2, <2>6, <2>8 DEF NonNegative
  <2>16. QED
    BY <2>1, <2>3, <2>4, <2>6, <2>13, <2>14, <2>15 DEF ReachesVerified
<1>3. QED
  BY <1>1, <1>2

\* The volume is a doubled median too, or 0.
LEMMA VolumeIsNatural ==
    ASSUME NEW R \in Complete
    PROVE  Reconcile(R).volume2 \in Nat
<1> DEFINE W == {s \in OkSources(R) : R[s].volume # 0}
           f == Volumes(R)
<1>1. W \in SUBSET OkSources(R) /\ IsFiniteSet(W) /\ \A s \in W : f[s] \in Nat
  BY OkSourcesAreSources, FS_Subset DEF Volumes
<1>2. Reconcile(R).volume2 = IF W = {} THEN 0 ELSE TwiceMedian(f, W)
  BY DEF Reconcile
<1>3. CASE W = {}
  BY <1>2, <1>3
<1>4. CASE W # {}
  <2> HIDE DEF W, f
  <2>1. \E x, y \in W : TwiceMedian(f, W) = f[x] + f[y]
    BY <1>1, <1>4, MedianIsCentral
  <2>2. QED
    BY <1>1, <1>2, <1>4, <2>1
<1>5. QED
  BY <1>3, <1>4

\* A resolved price is a natural number, and 0 only in a blackout.
LEMMA PriceIsNatural ==
    ASSUME NEW R \in Complete
    PROVE  /\ ResolvedPrice2(R) \in Nat
           /\ ResolvedPrice2(R) > 0 <=> OkSources(R) # {}
<1>1. CASE OkSources(R) = {}
  BY <1>1 DEF ResolvedPrice2
<1>2. CASE OkSources(R) # {}
  <2>1. PICK x, y \in OkSources(R) : ResolvedPrice2(R) = R[x].price + R[y].price
    BY <1>2, PriceIsCentral
  <2>2. /\ R[x].price \in Nat /\ R[x].price > 0
        /\ R[y].price \in Nat /\ R[y].price > 0
    BY <2>1, OkSourcesAreSources
  <2>3. QED
    BY <1>2, <2>1, <2>2
<1>3. QED
  BY <1>1, <1>2

\* The fields of a resolved quote, and of the same one at verified.
LEMMA QuoteFields ==
    ASSUME NEW R \in Complete
    PROVE  /\ Reconcile(R).price2 = ResolvedPrice2(R)
           /\ Reconcile(R).confidence = Confidence(R)
           /\ Reconcile(R).tier \in {"verified", "best_available", "unconfirmed"}
           /\ Reconcile(R).tier = "verified"
                => ReachesVerified(Confidence(R)) /\ Cardinality(OkSources(R)) >= 2
           /\ Reconcile(R) # None
           /\ [Reconcile(R) EXCEPT !.tier = "verified"].tier = "verified"
           /\ [Reconcile(R) EXCEPT !.tier = "verified"].price2 = Reconcile(R).price2
           /\ [Reconcile(R) EXCEPT !.tier = "verified"].volume2 = Reconcile(R).volume2
<1>1. /\ Reconcile(R).price2 = ResolvedPrice2(R)
      /\ Reconcile(R).confidence = Confidence(R)
      /\ Reconcile(R).tier = TierFor(Confidence(R), Cardinality(OkSources(R)))
  BY DEF Reconcile
<1>2. /\ Reconcile(R).tier \in {"verified", "best_available", "unconfirmed"}
      /\ Reconcile(R).tier = "verified"
           => ReachesVerified(Confidence(R)) /\ Cardinality(OkSources(R)) >= 2
  BY <1>1 DEF TierFor
<1>3. None.tier = "none"
  BY DEF None
<1>4. Reconcile(R) # None
  BY <1>2, <1>3
<1>5. /\ [Reconcile(R) EXCEPT !.tier = "verified"].tier = "verified"
      /\ [Reconcile(R) EXCEPT !.tier = "verified"].price2 = Reconcile(R).price2
      /\ [Reconcile(R) EXCEPT !.tier = "verified"].volume2 = Reconcile(R).volume2
  BY DEF Reconcile
<1>6. QED
  BY <1>1, <1>2, <1>4, <1>5
-----------------------------------------------------------------------------
(* The gates                                                                *)

\* What reaches a threshold reaches every lower one.
LEMMA LowerThreshold ==
    ASSUME NEW q, q.price2 \in Nat, NEW h \in Histories,
           NEW t \in Nat, NEW u \in Nat, t <= u, ZAtLeast(q, h, u)
    PROVE  ZAtLeast(q, h, t)
<1>1. h.prev \in Nat /\ h.mean \in Int /\ h.stddev \in Nat
  BY HistoriesAssumption
<1>2. PICK w \in Nat : w = h.stddev * 2 * h.prev
  BY <1>1
<1>3. PICK L : L = 10 * Magnitude(10000 * Move2(q, h) - h.mean * 2 * h.prev)
  OBVIOUS
<1>4. \A n \in Nat : n * h.stddev * 2 * h.prev = n * w
  BY <1>1, <1>2
<1>5. L >= u * w
  BY <1>3, <1>4 DEF ZAtLeast
<1>6. L \in Int
  <2>1. Move2(q, h) \in Int
    BY <1>1 DEF Move2
  <2>2. PICK d \in Int : d = 10000 * Move2(q, h) - h.mean * 2 * h.prev
    BY <1>1, <2>1
  <2>3. Magnitude(d) \in Int
    BY <2>2 DEF Magnitude
  <2>4. QED
    BY <1>3, <2>2, <2>3
<1>7. t * w <= u * w /\ t * w \in Int /\ u * w \in Int
  BY <1>2, Product
<1>8. L >= t * w
  BY <1>5, <1>6, <1>7
<1>9. QED
  BY <1>3, <1>4, <1>8 DEF ZAtLeast

\* The gates read only the price and the volume of a quote, besides its tier.
LEMMA SameNumbersSameMove ==
    ASSUME NEW q, NEW r, q.price2 = r.price2, q.volume2 = r.volume2,
           NEW h, NEW t
    PROVE  /\ ZAtLeast(q, h, t) <=> ZAtLeast(r, h, t)
           /\ VolumeAtLeast(q, h, t) <=> VolumeAtLeast(r, h, t)
           /\ FlatMove(q, h) <=> FlatMove(r, h)
BY DEF ZAtLeast, VolumeAtLeast, FlatMove, Move2

\* What an event that fires says of the quote and the history, at either tier.
LEMMA WhatFires ==
    ASSUME NEW h, NEW v, v = Verdict(quote, h, FALSE), Fires(h),
           quote.tier \in {"verified", "best_available", "unconfirmed"}
    PROVE  /\ quote.tier \in {"verified", "best_available"}
           /\ ~(h.bars < MinHistoryBars)
           /\ h.stddev = 0 => v = "significant_flat_fallback" /\ FlatMove(quote, h)
           /\ h.stddev # 0 /\ quote.tier = "verified" =>
                \/ v = "significant_z" /\ ZAtLeast(quote, h, 20)
                \/ /\ v = "significant_z_and_volume"
                   /\ ZAtLeast(quote, h, 12) /\ VolumeAtLeast(quote, h, 2)
           /\ h.stddev # 0 /\ quote.tier = "best_available" =>
                \/ v = "significant_z" /\ ZAtLeast(quote, h, 30)
                \/ v = "significant_z_and_volume" /\ ZAtLeast(quote, h, 20)
BY DEF Fires, Verdict, Significant, ThresholdsFor
-----------------------------------------------------------------------------
(* The invariant                                                            *)

\* Before the first answer there is nothing to check.
LEMMA InitIInv == Init => IInv
BY DEF Init, IInv, QuoteIsReconciled, EventIsDetected, NarrationIsOfEvent, Answered, Resolved

\* Nothing is decided while an answer is missing.
LEMMA OpenMeansUndecided ==
    ASSUME IInv
    PROVE  /\ ~Resolved => event = None /\ narration = None
           /\ \A s \in Sources : reading[s] = Unanswered => ~Resolved
<1>1. ~Resolved => event = None /\ narration = None
  BY DEF IInv, EventIsDetected, NarrationIsOfEvent, Answered
<1>2. ASSUME NEW s \in Sources, reading[s] = Unanswered, Resolved
      PROVE  FALSE
  <2>1. reading \in Complete
    BY <1>2 DEF IInv, QuoteIsReconciled
  <2>2. QED
    BY <1>2, <2>1, OkSourcesAreSources DEF Sources
<1>3. QED
  BY <1>1, <1>2

\* Each action keeps the invariant.
LEMMA NextIInv == IInv /\ [Next]_vars => IInv'
<1> SUFFICES ASSUME IInv, [Next]_vars PROVE IInv'
  OBVIOUS
<1> PICK D \in Deployments : reading \in [D -> Readings \cup {Unanswered}]
  BY DEF IInv
<1>0. Sources = D
  BY DEF Sources
<1>1. ASSUME NEW s \in Sources, NEW r \in Readings, Answer(s, r)
      PROVE  IInv'
  <2>1. ~Resolved /\ event = None /\ narration = None
    BY <1>1, OpenMeansUndecided DEF Answer
  <2>2. reading' \in [D -> Readings \cup {Unanswered}]
    BY <1>1 DEF Answer
  <2>3. quote' = None /\ event' = None /\ narration' = None
    BY <1>1, <2>1 DEF Answer, Resolved
  <2>4. QED
    BY <2>2, <2>3
       DEF IInv, QuoteIsReconciled, EventIsDetected, NarrationIsOfEvent, Answered, Resolved
<1>2. CASE Resolve
  <2>1. ~Resolved /\ event = None /\ narration = None
    BY <1>2, OpenMeansUndecided DEF Resolve, Resolved
  <2>2. reading \in Complete
    BY <1>0, <1>2 DEF Resolve, Complete
  <2>3. QED
    BY <1>2, <2>1, <2>2
       DEF IInv, QuoteIsReconciled, EventIsDetected, NarrationIsOfEvent, Answered, Resolve
<1>3. ASSUME NEW h \in Histories, Detect(h)
      PROVE  IInv'
  <2>1. Resolved /\ narration' = None /\ UNCHANGED <<reading, quote>>
    BY <1>3 DEF IInv, NarrationIsOfEvent, Answered, Detect, Resolved
  <2>2. Fires(h)' /\ event' = EventRow(h)'
    BY <1>3 DEF Detect, Fires, EventRow
  <2>3. EventIsDetected'
    BY <2>1, <2>2 DEF EventIsDetected, Resolved
  <2>4. QED
    BY <2>1, <2>3 DEF IInv, QuoteIsReconciled, NarrationIsOfEvent, Answered, Resolved
<1>4. ASSUME NEW config \in Configs, NEW feed \in Feeds,
             NEW reply \in {"text", "blank", "fails"}, Narrate(config, feed, reply)
      PROVE  IInv'
  <2>1. UNCHANGED <<reading, quote, event>> /\ event # None
    BY <1>4 DEF Narrate
  <2>2. /\ narration'.tier = ToldTier /\ narration'.feed \in Feeds
        /\ narration'.answer
             = NarrateEvent(narration'.config, narration'.feed, narration'.reply)
    BY <1>4 DEF Narrate
  <2>3. EventIsDetected'
    BY <2>1 DEF IInv, EventIsDetected, Resolved, Fires, EventRow
  <2>4. NarrationIsOfEvent'
    BY <2>1, <2>2 DEF NarrationIsOfEvent, Answered, ToldTier
  <2>5. QED
    BY <2>1, <2>3, <2>4 DEF IInv, QuoteIsReconciled, Resolved
<1>5. CASE NextPoll
  <2>1. reading' \in [D -> Readings \cup {Unanswered}]
    BY <1>0, <1>5 DEF NextPoll
  <2>2. quote' = None /\ event' = None /\ narration' = None
    BY <1>5 DEF NextPoll
  <2>3. QED
    BY <2>1, <2>2
       DEF IInv, QuoteIsReconciled, EventIsDetected, NarrationIsOfEvent, Answered, Resolved
<1>6. CASE UNCHANGED vars
  <2>1. UNCHANGED <<reading, quote, event, narration>>
    BY <1>6 DEF vars
  <2>2. EventIsDetected'
    BY <2>1 DEF IInv, EventIsDetected, Resolved, Fires, EventRow
  <2>3. NarrationIsOfEvent'
    BY <2>1 DEF IInv, NarrationIsOfEvent, Answered, ToldTier
  <2>4. QED
    BY <2>1, <2>2, <2>3 DEF IInv, QuoteIsReconciled, Resolved
<1>7. QED
  BY <1>1, <1>2, <1>3, <1>4, <1>5, <1>6 DEF Next

\* The quote is made of the answers, the event of the quote, the narration of the
\* event, at all times.
LEMMA InvariantIInv == Spec => []IInv
BY InitIInv, NextIInv, PTL DEF Spec
-----------------------------------------------------------------------------
(* What it says of a quote                                                  *)

\* Within, said without the sets: some of the prices are not above the quote, and
\* some not below.
LEMMA StraddledIsWithin ==
    ASSUME NEW R \in Complete, reading = R,
           NEW H \in SUBSET OkSources(R), NEW p \in Nat,
           NEW x \in H, 2 * R[x].price <= p, NEW y \in H, p <= 2 * R[y].price
    PROVE  Within(p, H)
<1> DEFINE g == [s \in H |-> 2 * R[s].price]
<1>1. IsFiniteSet(H) /\ H # {}
  BY OkSourcesAreSources, FS_Subset
<1>2. \A s \in H : g[s] = 2 * R[s].price /\ g[s] \in Nat
  BY OkSourcesAreSources
<1>3. {2 * reading[s].price : s \in H} = ValuesOn(g, H)
  BY <1>2 DEF ValuesOn
<1>4. ValuesOn(g, H) \subseteq Nat
  BY <1>2 DEF ValuesOn
<1>5. Within(p, H) <=> Least(ValuesOn(g, H)) <= p /\ p <= Greatest(ValuesOn(g, H))
  BY <1>3 DEF Within
<1>6. g[x] <= p /\ p <= g[y]
  BY <1>2
<1> HIDE DEF g
<1>7. /\ Least(ValuesOn(g, H)) \in Nat /\ Greatest(ValuesOn(g, H)) \in Nat
      /\ Least(ValuesOn(g, H)) <= g[x] /\ g[y] <= Greatest(ValuesOn(g, H))
  BY <1>1, <1>2, <1>4, Extremes
<1>8. g[x] \in Nat /\ g[y] \in Nat
  BY <1>2
<1>9. QED
  BY <1>5, <1>6, <1>7, <1>8

\* Every quote that reconcile builds has a price, a volume and a confidence
\* between 0 and 1, whatever the sources answered.
THEOREM QuotesAreTyped == Spec => []TypeOK
<1>1. IInv => TypeOK
  <2> SUFFICES ASSUME IInv PROVE TypeOK
    OBVIOUS
  <2>1. /\ Sources \in Deployments
        /\ \A s \in Sources : reading[s] \in Readings \cup {Unanswered}
    BY DEF IInv, Sources
  <2>2. ASSUME Resolved
        PROVE  /\ quote.tier \in {"verified", "best_available", "unconfirmed"}
               /\ quote.price2 \in Nat /\ quote.volume2 \in Nat
               /\ quote.confidence.num \in 0..quote.confidence.den
    BY <2>2, QuoteFields, PriceIsNatural, VolumeIsNatural, ConfidenceMeansAgreement
       DEF IInv, QuoteIsReconciled
  <2>3. narration # None => narration.tier \in {"verified", "best_available"}
    BY DEF IInv, NarrationIsOfEvent, Answered, ToldTier
  <2>4. QED
    BY <2>1, <2>2, <2>3 DEF TypeOK
<1>2. QED
  BY <1>1, InvariantIInv, PTL

\* The median of Reconciler.reconcile: no minority of the sources moves the
\* resolved price out of the range of the others', however wrong it is.
THEOREM MinorityCannotMoveThePrice == Spec => []MajorityBoundsPrice
<1>1. IInv => MajorityBoundsPrice
  <2> SUFFICES ASSUME IInv, Resolved, NEW H \in SUBSET OkSources(reading),
                      2 * Cardinality(H) > Cardinality(OkSources(reading))
               PROVE  Within(quote.price2, H)
    BY DEF MajorityBoundsPrice
  <2>1. PICK R \in Complete :
            reading = R /\ quote.price2 = ResolvedPrice2(R)
    BY QuoteFields DEF IInv, QuoteIsReconciled
  <2>2. IsFiniteSet(OkSources(R)) /\ OkSources(R) # {}
    <3>1. IsFiniteSet(OkSources(R))
      BY OkSourcesAreSources
    <3>2. ASSUME OkSources(R) = {} PROVE FALSE
      <4>1. H = {}
        BY <2>1, <3>2
      <4>2. Cardinality(H) = 0 /\ Cardinality(OkSources(R)) = 0
        BY <3>2, <4>1, FS_EmptySet
      <4>3. QED
        BY <2>1, <4>2
    <3>3. QED
      BY <3>1, <3>2
  <2>3. PICK x, y \in OkSources(R) :
            /\ ResolvedPrice2(R) = R[x].price + R[y].price
            /\ R[x].price <= R[y].price
            /\ Cardinality(OkSources(R))
                 <= 2 * Cardinality(AtMost(Prices(R), OkSources(R), R[x].price))
            /\ 2 * Cardinality(Beneath(Prices(R), OkSources(R), R[y].price))
                 <= Cardinality(OkSources(R))
    BY <2>2, PriceIsCentral
  <2>4. /\ \E s \in H : Prices(R)[s] <= R[x].price
        /\ \E s \in H : ~(Prices(R)[s] < R[y].price)
    BY <2>1, <2>2, <2>3, MajorityStraddles
  <2>5. \A s \in OkSources(R) : Prices(R)[s] = R[s].price /\ R[s].price \in Nat
    BY OkSourcesAreSources DEF Prices
  <2>6. PICK a \in H : R[a].price <= R[x].price
    BY <2>1, <2>4, <2>5
  <2>7. PICK b \in H : ~(R[b].price < R[y].price)
    BY <2>1, <2>4, <2>5
  <2>8. /\ R[a].price \in Nat /\ R[b].price \in Nat
        /\ R[x].price \in Nat /\ R[y].price \in Nat
    BY <2>1, <2>5
  <2>9. PICK p \in Nat : p = R[x].price + R[y].price
    BY <2>8
  <2>10. 2 * R[a].price <= p /\ p <= 2 * R[b].price
    BY <2>3, <2>6, <2>7, <2>8, <2>9
  <2>11. Within(p, H)
    BY <2>1, <2>10, StraddledIsWithin
  <2>12. QED
    BY <2>1, <2>3, <2>9, <2>11
<1>2. QED
  BY <1>1, InvariantIInv, PTL

\* What the weights and the threshold of reconciler.py amount to: at verified,
\* two sources at least agree to 8/9 of a percent.
THEOREM VerifiedSourcesAgree == Spec => []VerifiedMeansAgreement
<1>1. IInv => VerifiedMeansAgreement
  <2> SUFFICES ASSUME IInv, Resolved, quote.tier = "verified"
               PROVE  /\ Cardinality(OkSources(reading)) >= 2
                      /\ 2 * 900 * PriceSpread(reading) <= 8 * quote.price2
    BY DEF VerifiedMeansAgreement
  <2>1. PICK R \in Complete : reading = R /\ quote = Reconcile(R)
    BY DEF IInv, QuoteIsReconciled
  <2>2. /\ ReachesVerified(Confidence(R)) /\ Cardinality(OkSources(R)) >= 2
        /\ quote.price2 = ResolvedPrice2(R)
    BY <2>1, QuoteFields
  <2>3. OkSources(R) # {}
    BY <2>2, FS_EmptySet
  <2>4. QED
    BY <2>1, <2>2, <2>3, ConfidenceMeansAgreement
<1>2. QED
  BY <1>1, InvariantIInv, PTL

\* An event is never the claim of a minority of the sources that answered.
THEOREM EventsHaveHalfBehindThem == Spec => []EventNotMinority
<1>1. IInv => EventNotMinority
  <2> SUFFICES ASSUME IInv, event # None
               PROVE  LET ok == OkSources(reading)
                          agreeing == {s \in ok :
                              IF event.direction = "up"
                              THEN 2 * reading[s].price >= event.price2
                              ELSE 2 * reading[s].price <= event.price2}
                      IN  ok # {} /\ 2 * Cardinality(agreeing) >= Cardinality(ok)
    BY DEF EventNotMinority
  <2> DEFINE agreeing == {s \in OkSources(reading) :
                             IF event.direction = "up"
                             THEN 2 * reading[s].price >= event.price2
                             ELSE 2 * reading[s].price <= event.price2}
  <2>1. PICK R \in Complete, h \in Histories :
            /\ reading = R /\ quote = Reconcile(R)
            /\ Fires(h) /\ event = EventRow(h)
    BY DEF IInv, QuoteIsReconciled, EventIsDetected
  <2>2. event.price2 = ResolvedPrice2(R)
    BY <2>1, QuoteFields DEF EventRow
  <2>3. OkSources(R) # {}
    <3> SUFFICES ASSUME OkSources(R) = {} PROVE FALSE
      OBVIOUS
    <3>1. Confidence(R) = [num |-> 0, den |-> 1] /\ Cardinality(OkSources(R)) = 0
      BY FS_EmptySet DEF Confidence
    <3>2. Reconcile(R).tier = "unconfirmed"
      BY <3>1 DEF Reconcile, TierFor, ReachesVerified, ReachesBest
    <3>3. Verdict(quote, h, FALSE) = "unconfirmed_quote"
      BY <2>1, <3>2 DEF Verdict
    <3>4. QED
      BY <2>1, <3>3 DEF Fires, Significant
  <2>4. PICK x, y \in OkSources(R) :
            /\ ResolvedPrice2(R) = R[x].price + R[y].price
            /\ R[x].price <= R[y].price
            /\ Cardinality(OkSources(R))
                 <= 2 * Cardinality(AtMost(Prices(R), OkSources(R), R[x].price))
            /\ 2 * Cardinality(Beneath(Prices(R), OkSources(R), R[y].price))
                 <= Cardinality(OkSources(R))
    BY <2>3, PriceIsCentral
  <2>5. \A s \in OkSources(R) : Prices(R)[s] = R[s].price /\ R[s].price \in Nat
    BY OkSourcesAreSources DEF Prices
  <2>6. PICK a, b \in Nat : a = R[x].price /\ b = R[y].price
    BY <2>5
  <2>7. \A T \in SUBSET OkSources(R) : IsFiniteSet(T) /\ Cardinality(T) \in Nat
    BY OkSourcesAreSources, FS_Subset, FS_CardinalityType
  <2>8. Cardinality(OkSources(R)) \in Nat
    BY <2>7
  <2>9. CASE event.direction = "up"
    <3> DEFINE under == Beneath(Prices(R), OkSources(R), b)
               rest == OkSources(R) \ under
    <3>1. \A s \in OkSources(R) : s \in under <=> R[s].price < b
      BY <2>5 DEF Beneath
    <3>2. under \in SUBSET OkSources(R)
      BY DEF Beneath
    <3>3. rest \subseteq agreeing /\ agreeing \in SUBSET OkSources(R)
      BY <2>1, <2>2, <2>4, <2>5, <2>6, <2>9, <3>1
    <3>4. Cardinality(rest) = Cardinality(OkSources(R)) - Cardinality(under)
      <4>1. OkSources(R) \cap under = under
        BY <3>2
      <4>2. QED
        BY <2>7, <4>1, FS_Difference
    <3>5. 2 * Cardinality(under) <= Cardinality(OkSources(R))
      BY <2>4, <2>6
    <3> HIDE DEF agreeing, under, rest
    <3>6. Cardinality(rest) <= Cardinality(agreeing)
      BY <2>7, <3>3, FS_Subset
    <3>7. Cardinality(agreeing) \in Nat /\ Cardinality(under) \in Nat
      BY <2>7, <3>2, <3>3
    <3>8. 2 * Cardinality(agreeing) >= Cardinality(OkSources(R))
      BY <2>8, <3>4, <3>5, <3>6, <3>7
    <3>9. QED
      BY <2>1, <2>3, <3>8 DEF agreeing
  <2>10. CASE event.direction # "up"
    <3> DEFINE low == AtMost(Prices(R), OkSources(R), a)
    <3>1. \A s \in low : s \in OkSources(R) /\ R[s].price <= a
      BY <2>5 DEF AtMost
    <3>2. low \subseteq agreeing /\ agreeing \in SUBSET OkSources(R)
      BY <2>1, <2>2, <2>4, <2>5, <2>6, <2>10, <3>1
    <3>3. Cardinality(OkSources(R)) <= 2 * Cardinality(low)
      BY <2>4, <2>6
    <3> HIDE DEF agreeing, low
    <3>4. Cardinality(low) <= Cardinality(agreeing)
      BY <2>7, <3>2, FS_Subset
    <3>5. Cardinality(agreeing) \in Nat /\ Cardinality(low) \in Nat
      BY <2>7, <3>2
    <3>6. 2 * Cardinality(agreeing) >= Cardinality(OkSources(R))
      BY <2>8, <3>3, <3>4, <3>5
    <3>7. QED
      BY <2>1, <2>3, <3>6 DEF agreeing
  <2>11. QED
    BY <2>9, <2>10
<1>2. QED
  BY <1>1, InvariantIInv, PTL
-----------------------------------------------------------------------------
(* What it says of an event                                                 *)

\* The event on record, with its quote and its history, and what its verdict
\* says of them.
LEMMA EventFired ==
    ASSUME IInv, event # None
    PROVE  \E h \in Histories :
               /\ event.bars = h /\ event.tier = quote.tier
               /\ event.verdict = Verdict(quote, h, FALSE) /\ Fires(h)
               /\ quote.price2 \in Nat /\ quote.volume2 \in Nat
               /\ quote.tier \in {"verified", "best_available"}
               /\ [quote EXCEPT !.tier = "verified"].tier = "verified"
               /\ [quote EXCEPT !.tier = "verified"].price2 = quote.price2
               /\ [quote EXCEPT !.tier = "verified"].volume2 = quote.volume2
<1>1. PICK R \in Complete, h \in Histories :
          quote = Reconcile(R) /\ Fires(h) /\ event = EventRow(h)
  BY DEF IInv, QuoteIsReconciled, EventIsDetected
<1>2. /\ event.bars = h /\ event.tier = quote.tier
      /\ event.verdict = Verdict(quote, h, FALSE)
  BY <1>1 DEF EventRow
<1>3. /\ quote.price2 \in Nat /\ quote.volume2 \in Nat
      /\ quote.tier \in {"verified", "best_available", "unconfirmed"}
      /\ [quote EXCEPT !.tier = "verified"].tier = "verified"
      /\ [quote EXCEPT !.tier = "verified"].price2 = quote.price2
      /\ [quote EXCEPT !.tier = "verified"].volume2 = quote.volume2
  BY <1>1, QuoteFields, PriceIsNatural, VolumeIsNatural
<1>4. quote.tier \in {"verified", "best_available"}
  BY <1>1, <1>3, WhatFires
<1>5. QED
  BY <1>1, <1>2, <1>3, <1>4

\* The two threshold tables of significance.py: what fires at best_available
\* fires on the same numbers at verified.
THEOREM TrustNeverSilences == Spec => []TrustIsMonotone
<1>1. IInv => TrustIsMonotone
  <2> SUFFICES ASSUME IInv, event # None
               PROVE  Significant(Verdict([quote EXCEPT !.tier = "verified"],
                                          event.bars, FALSE))
    BY DEF TrustIsMonotone
  <2>1. PICK h \in Histories :
            /\ event.bars = h /\ Fires(h)
            /\ quote.price2 \in Nat
            /\ quote.tier \in {"verified", "best_available"}
            /\ [quote EXCEPT !.tier = "verified"].tier = "verified"
            /\ [quote EXCEPT !.tier = "verified"].price2 = quote.price2
            /\ [quote EXCEPT !.tier = "verified"].volume2 = quote.volume2
    BY EventFired
  <2>2. PICK q : /\ q = [quote EXCEPT !.tier = "verified"] /\ q.tier = "verified"
                 /\ q.price2 = quote.price2 /\ q.volume2 = quote.volume2
    BY <2>1
  <2>3. \A t : /\ ZAtLeast(quote, h, t) <=> ZAtLeast(q, h, t)
               /\ VolumeAtLeast(quote, h, t) <=> VolumeAtLeast(q, h, t)
               /\ FlatMove(quote, h) <=> FlatMove(q, h)
    BY <2>2, SameNumbersSameMove
  <2>4. ZAtLeast(quote, h, 30) => ZAtLeast(quote, h, 20)
    BY <2>1, LowerThreshold
  <2>5. ThresholdsFor("verified") = [zSolo |-> 20, zCombined |-> 12, volumeRatio |-> 2]
    BY DEF ThresholdsFor
  <2>6. PICK v : v = Verdict(quote, h, FALSE)
    OBVIOUS
  <2>7. ~(h.bars < MinHistoryBars)
    BY <2>1, <2>6, WhatFires
  <2>8. CASE h.stddev = 0
    <3>1. FlatMove(quote, h)
      BY <2>1, <2>6, <2>8, WhatFires
    <3>2. Verdict(q, h, FALSE) = "significant_flat_fallback"
      BY <2>2, <2>3, <2>7, <2>8, <3>1 DEF Verdict
    <3>3. QED
      BY <2>1, <2>2, <3>2 DEF Significant
  <2>9. CASE h.stddev # 0
    <3>1. \/ ZAtLeast(quote, h, 20)
          \/ ZAtLeast(quote, h, 12) /\ VolumeAtLeast(quote, h, 2)
      <4>1. CASE quote.tier = "verified"
        BY <2>1, <2>6, <2>9, <4>1, WhatFires
      <4>2. CASE quote.tier = "best_available"
        BY <2>1, <2>4, <2>6, <2>9, <4>2, WhatFires
      <4>3. QED
        BY <2>1, <4>1, <4>2
    <3>2. Verdict(q, h, FALSE) \in {"significant_z", "significant_z_and_volume"}
      BY <2>2, <2>3, <2>5, <2>7, <2>9, <3>1 DEF Verdict
    <3>3. QED
      BY <2>1, <2>2, <3>2 DEF Significant
  <2>10. QED
    BY <2>8, <2>9
<1>2. QED
  BY <1>1, InvariantIInv, PTL

\* The thresholds of significance.py and the priorities of notifications.py
\* agree: only the weakest kinds of event are digests.
THEOREM DigestsAreTheWeakest == Spec => []DigestIsWeakest
<1>1. IInv => DigestIsWeakest
  <2> SUFFICES ASSUME IInv, event # None, NEW tag \in {"own_it", "none"},
                      PriorityFor(quote, event.bars, tag) = "P2"
               PROVE  \/ event.verdict = "significant_flat_fallback"
                      \/ event.verdict = "significant_z_and_volume" /\ event.tier = "verified"
    BY DEF DigestIsWeakest
  <2>1. PICK h \in Histories :
            /\ event.bars = h /\ event.tier = quote.tier
            /\ event.verdict = Verdict(quote, h, FALSE) /\ Fires(h)
            /\ quote.price2 \in Nat
            /\ quote.tier \in {"verified", "best_available"}
    BY EventFired
  <2>2. CASE h.stddev = 0
    BY <2>1, <2>2, WhatFires
  <2>3. CASE h.stddev # 0
    <3>1. ~ZAtLeast(quote, h, 20)
      BY <2>1, <2>3 DEF PriorityFor
    <3>2. ~ZAtLeast(quote, h, 30)
      BY <2>1, <3>1, LowerThreshold
    <3>3. event.verdict = "significant_z_and_volume"
      BY <2>1, <2>3, <3>1, <3>2, WhatFires
    <3>4. quote.tier # "best_available"
      BY <2>1, <2>3, <3>1, <3>2, WhatFires
    <3>5. QED
      BY <2>1, <3>3, <3>4
  <2>4. QED
    BY <2>2, <2>3
<1>2. QED
  BY <1>1, InvariantIInv, PTL
-----------------------------------------------------------------------------
(* What it says of a narration                                              *)

\* The endpoint's tier, made up from the confidence alone, is the event's own but
\* for a single answer where no more than two sources are configured.
THEOREM TheNarratorHearsTheTier == Spec => []ToldTierIsTheEvents
<1>1. IInv => ToldTierIsTheEvents
  <2> SUFFICES ASSUME IInv, Answered, narration.tier # event.tier
               PROVE  /\ narration.tier = "verified" /\ event.tier = "best_available"
                      /\ Cardinality(OkSources(reading)) = 1
                      /\ Cardinality(Sources) <= 2
    BY DEF ToldTierIsTheEvents
  <2>1. event # None /\ narration.tier = ToldTier
    BY DEF IInv, NarrationIsOfEvent
  <2>2. PICK R \in Complete, h \in Histories :
            reading = R /\ quote = Reconcile(R) /\ event = EventRow(h)
    BY <2>1 DEF IInv, QuoteIsReconciled, EventIsDetected
  <2>3. event.tier = quote.tier /\ event.tier \in {"verified", "best_available"}
    BY <2>1, EventFired
  <2>4. event.confidence = Confidence(R)
    BY <2>2 DEF EventRow, Reconcile
  <2>5. event.tier = TierFor(Confidence(R), Cardinality(OkSources(R)))
    BY <2>2, <2>3 DEF Reconcile
  <2>6. /\ ReachesVerified(Confidence(R)) /\ ~(Cardinality(OkSources(R)) >= 2)
        /\ narration.tier = "verified" /\ event.tier = "best_available"
    BY <2>1, <2>3, <2>4, <2>5 DEF ToldTier, TierFor
  <2>7. OkSources(R) # {}
    BY <2>6 DEF Confidence, ReachesVerified
  <2>8. Cardinality(OkSources(R)) = 1
    BY <2>6, <2>7, OkSourcesAreSources, FS_CardinalityType, FS_EmptySet
  <2>9. QED
    BY <2>2, <2>6, <2>7, <2>8, ConfidenceMeansAgreement DEF Sources
<1>2. QED
  BY <1>1, InvariantIInv, PTL

\* The answers that narrate_event may give, by what they are made of.
LEMMA WhatIsNarrated ==
    ASSUME NEW config, NEW feed, NEW reply, NEW news, news = RecentNews(feed),
           NEW provider, provider = ResolveProvider(config),
           NEW answer, answer = NarrateEvent(config, feed, reply)
    PROVE  \/ answer = Raised /\ NewsRaises(feed)
           \/ /\ answer.by = "no-news-found" /\ answer.mayName = <<>>
           \/ /\ answer.by = "headline-fallback" /\ news # <<>>
              /\ answer.mayName = <<Head(news)>> /\ answer.cites = news
           \/ /\ answer.by = ApiTag(provider) /\ news # <<>>
              /\ answer.mayName = news /\ answer.cites = news
              /\ reply = "text" /\ Reachable(config, provider)
<1> DEFINE fallback == HeadlineFallback(news)
<1>1. \/ fallback.by = "no-news-found" /\ fallback.mayName = <<>>
      \/ /\ fallback.by = "headline-fallback" /\ news # <<>>
         /\ fallback.mayName = <<Head(news)>> /\ fallback.cites = news
  BY DEF HeadlineFallback, NoNews, Cited
<1>2. LET failed == [fallback EXCEPT !.failed = TRUE]
      IN  /\ failed.by = fallback.by /\ failed.mayName = fallback.mayName
          /\ failed.cites = fallback.cites
  BY DEF HeadlineFallback, NoNews, Cited
<1>3. CASE NewsRaises(feed)
  BY <1>3 DEF NarrateEvent
<1>4. CASE ~NewsRaises(feed) /\ provider = "none"
  BY <1>1, <1>4 DEF NarrateEvent
<1>5. CASE ~NewsRaises(feed) /\ provider # "none" /\ news = <<>>
  BY <1>5 DEF NarrateEvent, NoNews
<1>6. CASE ~NewsRaises(feed) /\ provider # "none" /\ news # <<>>
  <2>1. CASE HasText(Synthesized(config, provider, reply))
    <3>1. reply = "text" /\ Reachable(config, provider)
      BY <2>1 DEF HasText, Synthesized
    <3>2. answer = [by |-> ApiTag(provider), cites |-> news, mayName |-> news,
                    failed |-> FALSE]
      BY <1>6, <2>1 DEF NarrateEvent, Cited
    <3>3. QED
      BY <1>6, <3>1, <3>2
  <2>2. CASE ~HasText(Synthesized(config, provider, reply))
    <3>1. answer = [fallback EXCEPT !.failed = TRUE]
      BY <1>6, <2>2 DEF NarrateEvent
    <3>2. QED
      BY <1>1, <1>2, <3>1
  <2>3. QED
    BY <2>1, <2>2
<1>7. QED
  BY <1>3, <1>4, <1>5, <1>6

\* The provider follows the pin, and a model needs its key.
LEMMA ProviderFollowsPin ==
    ASSUME NEW config, NEW provider, provider = ResolveProvider(config),
           Reachable(config, provider)
    PROVE  /\ config.pin # "none"
           /\ ApiTag(provider) = "groq-api" => config.groqKey /\ config.pin # "anthropic"
           /\ ApiTag(provider) = "anthropic-api"
                => config.anthropicKey /\ config.pin # "groq"
BY DEF ResolveProvider, Reachable, ApiTag

\* narrator.py: whatever is configured and whatever fails, no words pass for a
\* model's that are not, what may be named is cited, and only a broken entry of
\* the news raises.
THEOREM NarrationsAreHonest == Spec => []NarrationIsHonest
<1>1. IInv => NarrationIsHonest
  <2> SUFFICES ASSUME IInv, Answered PROVE NarrationIsHonest
    BY DEF NarrationIsHonest, ModelSpeaksForItself, CitesWhatItNames, FailureDegrades
  <2>1. PICK config, feed, reply, answer :
            /\ config = narration.config /\ feed = narration.feed
            /\ reply = narration.reply /\ answer = narration.answer
    OBVIOUS
  <2>2. feed \in Feeds /\ answer = NarrateEvent(config, feed, reply)
    BY <2>1 DEF IInv, NarrationIsOfEvent
  <2>3. PICK news, provider : news = RecentNews(feed) /\ provider = ResolveProvider(config)
    OBVIOUS
  <2>4. news \in Seq(STRING) /\ feed.entries \in Seq(STRING)
    BY <2>2, <2>3, FeedsAssumption
  <2>5. news # <<>> => 1 \in DOMAIN news /\ Head(news) = news[1]
    BY <2>4
  <2>6. CASE answer = Raised /\ NewsRaises(feed)
    <3>1. answer.by = "exception" /\ answer.mayName = <<>>
      BY <2>6 DEF Raised
    <3>2. \E i \in DOMAIN feed.entries : feed.entries[i] = "malformed"
      <4>1. PICK i \in DOMAIN Considered(feed) : Considered(feed)[i] = "malformed"
        BY <2>6 DEF NewsRaises
      <4>2. PICK n \in Nat : n <= Len(feed.entries)
                             /\ Considered(feed) = SubSeq(feed.entries, 1, n)
        <5>1. Len(feed.entries) \in Nat
          BY <2>4
        <5>2. QED
          BY <5>1 DEF Considered, NewsLimit
      <4>3. i \in DOMAIN feed.entries /\ Considered(feed)[i] = feed.entries[i]
        BY <2>4, <4>1, <4>2
      <4>4. QED
        BY <4>1, <4>3
    <3>3. QED
      BY <2>1, <3>1, <3>2
         DEF NarrationIsHonest, ModelSpeaksForItself, CitesWhatItNames, FailureDegrades
  <2>7. CASE answer.by = "no-news-found" /\ answer.mayName = <<>>
    BY <2>1, <2>7
       DEF NarrationIsHonest, ModelSpeaksForItself, CitesWhatItNames, FailureDegrades
  <2>8. CASE /\ answer.by = "headline-fallback" /\ news # <<>>
             /\ answer.mayName = <<Head(news)>> /\ answer.cites = news
    <3>1. \A i \in DOMAIN answer.mayName : answer.mayName[i] = news[1]
      BY <2>5, <2>8
    <3>2. QED
      BY <2>1, <2>5, <2>8, <3>1
         DEF NarrationIsHonest, ModelSpeaksForItself, CitesWhatItNames, FailureDegrades
  <2>9. CASE /\ answer.by = ApiTag(provider) /\ news # <<>>
             /\ answer.mayName = news /\ answer.cites = news
             /\ reply = "text" /\ Reachable(config, provider)
    <3>1. ModelSpeaksForItself
      BY <2>1, <2>3, <2>5, <2>9, ProviderFollowsPin DEF ModelSpeaksForItself
    <3>2. CitesWhatItNames
      BY <2>1, <2>9 DEF CitesWhatItNames
    <3>3. FailureDegrades
      BY <2>1, <2>9 DEF FailureDegrades, ApiTag
    <3>4. QED
      BY <3>1, <3>2, <3>3 DEF NarrationIsHonest
  <2>10. QED
    BY <2>2, <2>3, <2>6, <2>7, <2>8, <2>9, WhatIsNarrated
<1>2. QED
  BY <1>1, InvariantIInv, PTL
=============================================================================
