--------------------------- MODULE TickQueueProofs ---------------------------
(***************************************************************************)
(* The rate cap and the bounded queue of TickQueue, proved for any number  *)
(* of pollers and consumers and every size, interval and deadline.         *)
(***************************************************************************)
EXTENDS TickQueue, FiniteSetTheorems, TLAPS

(* The inductive invariant                                                  *)

\* The poll let through last is the youngest ...
YoungestIsLast == \A p \in Reconciling : age[p] >= sinceAllowed

\* ... and any two that reconcile were let through Interval apart.
AgesAreSpaced ==
    \A p, q \in Reconciling : p # q =>
        age[p] - age[q] >= Interval \/ age[q] - age[p] >= Interval

IInv ==
    /\ TypeOK
    /\ IsFiniteSet(woken)
    /\ QueueIsNewest
    /\ NoLostWakeup
    /\ YoungestIsLast
    /\ AgesAreSpaced
-----------------------------------------------------------------------------

USE SizeAssumption, TimeAssumption

\* Two ages an interval apart fall into different intervals ...
LEMMA ApartMeansOtherInterval ==
    ASSUME NEW a \in Nat, NEW b \in Nat, NEW d \in Nat \ {0}, a - b >= d
    PROVE  a \div d # b \div d
<1>1. \A n \in Nat : n = d * (n \div d) + (n % d) /\ n % d \in 0..(d - 1)
  OBVIOUS
<1>2. QED
  BY <1>1

\* ... of which there are as many as the deadline allows.
LEMMA IntervalBound ==
    ASSUME NEW a \in Nat, NEW b \in Nat, NEW d \in Nat \ {0}, a <= b
    PROVE  a \div d \in 0..(b \div d)
OBVIOUS

\* The waiting consumers after the first has been woken, and after another one
\* has lined up.
LEMMA WaitingTail ==
    ASSUME TypeOK, getters # <<>>
    PROVE  /\ Tail(getters) \in Seq(Consumers)
           /\ Head(getters) \in Waiting /\ Head(getters) \in Consumers
           /\ {Tail(getters)[i] : i \in 1..Len(Tail(getters))} = Waiting \ {Head(getters)}
           /\ \A i, j \in 1..Len(Tail(getters)) :
                Tail(getters)[i] = Tail(getters)[j] => i = j
<1>1. /\ getters \in Seq(Consumers) /\ Len(getters) \in Nat /\ Len(getters) > 0
      /\ Head(getters) = getters[1]
      /\ Len(Tail(getters)) = Len(getters) - 1
      /\ \A i \in 1..Len(Tail(getters)) : Tail(getters)[i] = getters[i + 1]
  BY DEF TypeOK
<1>2. \A i, j \in 1..Len(getters) : getters[i] = getters[j] => i = j
  BY DEF TypeOK
<1>3. {Tail(getters)[i] : i \in 1..Len(Tail(getters))} = Waiting \ {Head(getters)}
  <2>1. ASSUME NEW c \in Waiting \ {Head(getters)}
        PROVE  \E i \in 1..Len(Tail(getters)) : c = Tail(getters)[i]
    <3>1. PICK k \in 1..Len(getters) : c = getters[k]
      BY DEF Waiting
    <3>2. k # 1 /\ k - 1 \in 1..Len(Tail(getters))
      BY <1>1, <3>1
    <3>3. QED
      BY <1>1, <3>1, <3>2
  <2>2. ASSUME NEW i \in 1..Len(Tail(getters))
        PROVE  Tail(getters)[i] \in Waiting \ {Head(getters)}
    <3>1. i + 1 \in 1..Len(getters) /\ 1 \in 1..Len(getters) /\ i + 1 # 1
      BY <1>1
    <3>2. QED
      BY <1>1, <1>2, <3>1 DEF Waiting
  <2>3. QED
    BY <2>1, <2>2
<1>4. QED
  BY <1>1, <1>2, <1>3 DEF Waiting

\* A consumer that starts to wait is one more getter, in a queue of different ones.
LEMMA WaitingAppend ==
    ASSUME TypeOK, NEW c \in Consumers, c \notin Waiting
    PROVE  LET g == Append(getters, c)
           IN  /\ g \in Seq(Consumers) /\ g # <<>>
               /\ {g[i] : i \in 1..Len(g)} = Waiting \cup {c}
               /\ \A i, j \in 1..Len(g) : g[i] = g[j] => i = j
<1> DEFINE g == Append(getters, c)
<1>1. /\ g \in Seq(Consumers) /\ Len(getters) \in Nat /\ Len(g) = Len(getters) + 1
      /\ g[Len(g)] = c /\ \A i \in 1..Len(getters) : g[i] = getters[i]
  BY DEF TypeOK
<1>2. \A i \in 1..Len(g) : i \in 1..Len(getters) \/ i = Len(g)
  BY <1>1
<1>3. \A i \in 1..Len(getters) : getters[i] \in Waiting
  BY DEF Waiting
<1>4. \A i, j \in 1..Len(getters) : getters[i] = getters[j] => i = j
  BY DEF TypeOK
<1> HIDE DEF g
<1>5. \A i, j \in 1..Len(g) : g[i] = g[j] => i = j
  BY <1>1, <1>2, <1>3, <1>4
<1>6. {g[i] : i \in 1..Len(g)} = Waiting \cup {c}
  BY <1>1, <1>2 DEF Waiting
<1>7. QED
  BY <1>1, <1>5, <1>6 DEF g

\* The invariant holds at the start.
LEMMA InitIInv == Init => IInv
<1> SUFFICES ASSUME Init PROVE IInv
  OBVIOUS
<1>1. Reconciling = {} /\ Waiting = {} /\ Len(queue) = 0 /\ Len(getters) = 0
  BY DEF Init, Reconciling, Waiting, Idle
<1>2. TypeOK
  BY <1>1 DEF Init, TypeOK, Idle
<1>3. QueueIsNewest
  BY DEF Init, QueueIsNewest
<1>4. QED
  BY <1>1, <1>2, <1>3, FS_EmptySet DEF Init, IInv, NoLostWakeup, YoungestIsLast,
     AgesAreSpaced

\* The next poll is let through when the last is an interval old, and so are all.
LEMMA PollIInv ==
    ASSUME IInv, NEW p \in Pollers, Poll(p)
    PROVE  IInv'
<1>1. /\ TypeOK /\ age[p] = Idle /\ sinceAllowed >= Interval
      /\ sinceAllowed' = 0 /\ age' = [age EXCEPT ![p] = 0]
      /\ UNCHANGED <<resolved, queue, getters, woken>>
  BY DEF IInv, Poll
<1>2. TypeOK'
  BY <1>1 DEF TypeOK, Idle, Waiting
<1>3. Reconciling' = Reconciling \cup {p} /\ p \notin Reconciling
  BY <1>1 DEF TypeOK, Reconciling, Idle
<1>4. \A q \in Reconciling : age'[q] = age[q] /\ age[q] \in Nat /\ age[q] >= Interval
  BY <1>1 DEF IInv, YoungestIsLast, TypeOK, Reconciling, Idle
<1>5. age'[p] = 0
  BY <1>1 DEF TypeOK
<1>6. YoungestIsLast'
  BY <1>1, <1>3, <1>4, <1>5 DEF YoungestIsLast
<1>7. AgesAreSpaced'
  BY <1>3, <1>4, <1>5 DEF IInv, AgesAreSpaced
<1>8. QueueIsNewest' /\ NoLostWakeup' /\ IsFiniteSet(woken')
  BY <1>1 DEF IInv, QueueIsNewest, NoLostWakeup
<1>9. QED
  BY <1>2, <1>6, <1>7, <1>8 DEF IInv

\* A quote is queued, in the place of the oldest if need be, and wakes the first
\* consumer in the line.
LEMMA PutIInv ==
    ASSUME IInv, NEW p \in Pollers, Put(p)
    PROVE  IInv'
<1>1. /\ TypeOK /\ resolved < MaxQuotes /\ resolved \in Nat /\ MaxQuotes \in Nat
      /\ age' = [age EXCEPT ![p] = Idle] /\ resolved' = resolved + 1
      /\ queue' = DropOldest(queue, resolved + 1) /\ UNCHANGED sinceAllowed
  BY DEF IInv, TypeOK, Put
<1> DEFINE full == Len(queue) = MaxSize
           k == IF full THEN Len(queue) - 1 ELSE Len(queue)
           q == IF full THEN Tail(queue) ELSE queue
<1>2. /\ queue \in Seq(1..MaxQuotes) /\ Len(queue) \in 0..MaxSize
      /\ \A i \in 1..Len(queue) : queue[i] = resolved - Len(queue) + i
  BY DEF IInv, TypeOK, QueueIsNewest
<1>3. /\ q \in Seq(1..MaxQuotes) /\ Len(q) = k /\ k \in 0..(MaxSize - 1)
      /\ \A i \in 1..k : q[i] = resolved - k + i
  <2>1. CASE full
    <3>1. queue # <<>> /\ Len(queue) > 0
      BY <1>2, <2>1
    <3>2. /\ q = Tail(queue) /\ Len(q) = Len(queue) - 1
          /\ q \in Seq(1..MaxQuotes)
          /\ \A i \in 1..Len(q) : q[i] = queue[i + 1]
      BY <1>2, <2>1, <3>1
    <3>3. QED
      BY <1>1, <1>2, <2>1, <3>1, <3>2
  <2>2. CASE ~full
    BY <1>1, <1>2, <2>2
  <2>3. QED
    BY <2>1, <2>2
<1>4. queue' = Append(q, resolved + 1)
  BY <1>1 DEF DropOldest
<1> HIDE DEF k, q
<1>5. /\ queue' \in Seq(1..MaxQuotes) /\ Len(queue') = k + 1 /\ Len(queue') <= MaxSize
      /\ \A i \in 1..(k + 1) : queue'[i] = (resolved + 1) - (k + 1) + i
  <2>1. resolved + 1 \in 1..MaxQuotes
    BY <1>1
  <2>2. /\ queue' \in Seq(1..MaxQuotes) /\ Len(queue') = k + 1
        /\ queue'[k + 1] = resolved + 1
        /\ \A i \in 1..k : queue'[i] = q[i]
    BY <1>3, <1>4, <2>1
  <2>3. Len(queue') <= MaxSize
    BY <1>3, <2>2
  <2>4. ASSUME NEW i \in 1..(k + 1)
        PROVE  queue'[i] = (resolved + 1) - (k + 1) + i
    <3>1. CASE i \in 1..k
      <4>1. queue'[i] = resolved - k + i
        BY <1>3, <2>2, <3>1
      <4>2. QED
        BY <1>1, <1>3, <4>1
    <3>2. CASE i = k + 1
      BY <1>1, <1>3, <2>2, <3>2
    <3>3. QED
      BY <1>3, <3>1, <3>2
  <2>5. QED
    BY <2>2, <2>3, <2>4
<1>6. QueueIsNewest'
  <2>1. queue' = [i \in 1..Len(queue') |-> queue'[i]]
    BY <1>5
  <2>2. \A i \in 1..Len(queue') : queue'[i] = resolved' - Len(queue') + i
    BY <1>1, <1>5
  <2>3. QED
    BY <2>1, <2>2 DEF QueueIsNewest
<1>7. Len(queue') <= Len(queue) + 1
  BY <1>2, <1>5 DEF k
<1>8. /\ getters' \in Seq(Consumers) /\ IsFiniteSet(woken')
      /\ \A i, j \in 1..Len(getters') : getters'[i] = getters'[j] => i = j
      /\ woken' \subseteq Consumers \ Waiting'
      /\ NoLostWakeup'
  <2>1. CASE getters = <<>>
    <3>1. UNCHANGED <<getters, woken>>
      BY <2>1 DEF Put
    <3>2. QED
      BY <1>1, <2>1, <3>1 DEF IInv, TypeOK, Waiting, NoLostWakeup
  <2>2. CASE getters # <<>>
    <3>1. getters' = Tail(getters) /\ woken' = woken \cup {Head(getters)}
      BY <2>2 DEF Put
    <3>2. /\ getters' \in Seq(Consumers) /\ Waiting' = Waiting \ {Head(getters)}
          /\ Head(getters) \in Waiting /\ Head(getters) \in Consumers
          /\ \A i, j \in 1..Len(getters') : getters'[i] = getters'[j] => i = j
      BY <1>1, <2>2, <3>1, WaitingTail DEF Waiting
    <3>3. Head(getters) \notin woken
      BY <1>1, <3>2 DEF TypeOK
    <3>4. /\ IsFiniteSet(woken') /\ Cardinality(woken') = Cardinality(woken) + 1
          /\ Cardinality(woken) \in Nat
      BY <3>1, <3>3, FS_AddElement, FS_CardinalityType DEF IInv
    <3>5. Len(queue) <= Cardinality(woken)
      BY <2>2 DEF IInv, NoLostWakeup
    <3>6. Len(queue') <= Cardinality(woken')
      BY <1>2, <1>5, <1>7, <3>4, <3>5, <1>3
    <3>7. QED
      BY <1>1, <3>1, <3>2, <3>4, <3>6 DEF TypeOK, NoLostWakeup
  <2>3. QED
    BY <2>1, <2>2
<1>9. TypeOK'
  BY <1>1, <1>5, <1>8 DEF TypeOK, Idle
<1>10. Reconciling' = Reconciling \ {p} /\ \A r \in Reconciling' : age'[r] = age[r]
  BY <1>1 DEF TypeOK, Reconciling, Idle
<1>11. YoungestIsLast' /\ AgesAreSpaced'
  BY <1>1, <1>10 DEF IInv, YoungestIsLast, AgesAreSpaced
<1>12. QED
  BY <1>6, <1>8, <1>9, <1>11 DEF IInv

\* A consumer takes the oldest quote or lines up; either way its wake-up is used.
LEMMA GetIInv ==
    ASSUME IInv, NEW c \in Consumers, Get(c)
    PROVE  IInv'
<1>1. /\ TypeOK /\ c \notin Waiting /\ woken' = woken \ {c}
      /\ UNCHANGED <<sinceAllowed, age, resolved>>
  BY DEF IInv, Get
<1>2. /\ queue \in Seq(1..MaxQuotes) /\ Len(queue) \in 0..MaxSize
      /\ resolved \in Nat
      /\ \A i \in 1..Len(queue) : queue[i] = resolved - Len(queue) + i
  BY DEF IInv, TypeOK, QueueIsNewest
<1>3. /\ IsFiniteSet(woken') /\ Cardinality(woken) \in Nat /\ Cardinality(woken') \in Nat
      /\ Cardinality(woken') >= Cardinality(woken) - 1
  <2>1. IsFiniteSet(woken)
    BY DEF IInv
  <2>2. Cardinality(woken) \in Nat
    BY <2>1, FS_CardinalityType
  <2>3. /\ IsFiniteSet(woken \ {c})
        /\ Cardinality(woken \ {c}) =
             IF c \in woken THEN Cardinality(woken) - 1 ELSE Cardinality(woken)
    BY <2>1, FS_RemoveElement
  <2>4. Cardinality(woken \ {c}) \in Nat
    BY <2>3, FS_CardinalityType
  <2>5. QED
    BY <1>1, <2>2, <2>3, <2>4
<1>4. YoungestIsLast' /\ AgesAreSpaced'
  BY <1>1 DEF IInv, YoungestIsLast, AgesAreSpaced, Reconciling
<1>5. CASE queue = <<>>
  <2>1. getters' = Append(getters, c) /\ queue' = queue /\ Len(queue) = 0
    BY <1>5 DEF Get
  <2>2. /\ getters' \in Seq(Consumers) /\ Waiting' = Waiting \cup {c}
        /\ \A i, j \in 1..Len(getters') : getters'[i] = getters'[j] => i = j
    BY <1>1, <2>1, WaitingAppend DEF Waiting
  <2>3. TypeOK'
    BY <1>1, <2>1, <2>2 DEF TypeOK
  <2>4. QueueIsNewest' /\ NoLostWakeup'
    BY <1>1, <1>3, <2>1 DEF IInv, QueueIsNewest, NoLostWakeup
  <2>5. QED
    BY <1>3, <1>4, <2>3, <2>4 DEF IInv
<1>6. CASE queue # <<>>
  <2>1. queue' = Tail(queue) /\ UNCHANGED getters
    BY <1>6 DEF Get
  <2>2. /\ Len(queue) > 0 /\ queue' \in Seq(1..MaxQuotes)
        /\ Len(queue') = Len(queue) - 1
        /\ \A i \in 1..Len(queue') : queue'[i] = queue[i + 1]
    BY <1>2, <1>6, <2>1
  <2>3. TypeOK'
    BY <1>1, <1>2, <2>1, <2>2 DEF TypeOK, Waiting
  <2>4. QueueIsNewest'
    <3>1. queue' = [i \in 1..Len(queue') |-> queue'[i]]
      BY <2>2
    <3>2. \A i \in 1..Len(queue') : queue'[i] = resolved' - Len(queue') + i
      BY <1>1, <1>2, <2>2
    <3>3. QED
      BY <3>1, <3>2 DEF QueueIsNewest
  <2>5. NoLostWakeup'
    BY <1>2, <1>3, <2>1, <2>2 DEF IInv, NoLostWakeup
  <2>6. QED
    BY <1>3, <1>4, <2>3, <2>4, <2>5 DEF IInv
<1>7. QED
  BY <1>5, <1>6

\* Time passes for all alike.
LEMMA TickIInv ==
    ASSUME IInv, Tick
    PROVE  IInv'
<1>1. /\ TypeOK /\ \A p \in Reconciling : age[p] < Timeout
      /\ age' = [p \in Pollers |-> IF age[p] = Idle THEN Idle ELSE age[p] + 1]
      /\ sinceAllowed' = IF sinceAllowed < Interval THEN sinceAllowed + 1 ELSE Interval
      /\ UNCHANGED <<resolved, queue, getters, woken>>
  BY DEF IInv, Tick
<1>2. \A p \in Pollers : age[p] \in Idle..Timeout
  BY <1>1 DEF TypeOK
<1>3. TypeOK'
  <2>1. age' \in [Pollers -> Idle..Timeout]
    BY <1>1, <1>2 DEF Reconciling, Idle
  <2>2. QED
    BY <1>1, <2>1 DEF TypeOK, Waiting
<1>4. Reconciling' = Reconciling /\ \A p \in Reconciling : age'[p] = age[p] + 1
  BY <1>1, <1>2 DEF Reconciling, Idle
<1>5. YoungestIsLast'
  BY <1>1, <1>2, <1>4 DEF IInv, YoungestIsLast, TypeOK, Reconciling, Idle
<1>6. AgesAreSpaced'
  BY <1>2, <1>4 DEF IInv, AgesAreSpaced, Reconciling, Idle
<1>7. QueueIsNewest' /\ NoLostWakeup' /\ IsFiniteSet(woken')
  BY <1>1 DEF IInv, QueueIsNewest, NoLostWakeup
<1>8. QED
  BY <1>3, <1>5, <1>6, <1>7 DEF IInv

\* Each action keeps it.
LEMMA NextIInv == IInv /\ [Next]_vars => IInv'
<1> SUFFICES ASSUME IInv, [Next]_vars PROVE IInv'
  OBVIOUS
<1>1. ASSUME NEW p \in Pollers, Poll(p) \/ Put(p) PROVE IInv'
  BY <1>1, PollIInv, PutIInv
<1>2. ASSUME NEW c \in Consumers, Get(c) PROVE IInv'
  BY <1>2, GetIInv
<1>3. CASE Tick
  BY <1>3, TickIInv
<1>4. CASE UNCHANGED vars
  BY <1>4 DEF vars, IInv, TypeOK, QueueIsNewest, NoLostWakeup, YoungestIsLast,
     AgesAreSpaced, Reconciling, Waiting
<1>5. QED
  BY <1>1, <1>2, <1>3, <1>4 DEF Next

\* So it holds throughout.
LEMMA InvariantIInv == Spec => []IInv
  BY InitIInv, NextIInv, PTL DEF Spec
-----------------------------------------------------------------------------
\* At any time at most one reconciliation of a symbol runs for each interval that
\* fits in the deadline, and one more: no two have ages of the same interval.
THEOREM WorkIsBounded == Spec => []WorkBounded
<1>1. IInv => WorkBounded
  <2> SUFFICES ASSUME IInv PROVE WorkBounded
    OBVIOUS
  <2> DEFINE N == Timeout \div Interval
             slot == [p \in Reconciling |-> age[p] \div Interval]
  <2>1. N \in Nat
    OBVIOUS
  <2>2. \A p \in Reconciling : age[p] \in 0..Timeout
    BY DEF IInv, TypeOK, Reconciling, Idle
  <2>3. \A p \in Reconciling : slot[p] \in 0..N
    BY <2>2, IntervalBound
  <2>4. ASSUME NEW p \in Reconciling, NEW q \in Reconciling, slot[p] = slot[q]
        PROVE  p = q
    <3>1. ~(age[p] - age[q] >= Interval) /\ ~(age[q] - age[p] >= Interval)
      BY <2>2, <2>4, ApartMeansOtherInterval
    <3>2. QED
      BY <3>1 DEF IInv, AgesAreSpaced
  <2> HIDE DEF N, slot
  <2>5. slot \in Injection(Reconciling, 0..N)
    BY <2>3, <2>4 DEF slot, Injection, IsInjective
  <2>6. IsFiniteSet(0..N) /\ Cardinality(0..N) = N + 1
    BY <2>1, FS_Interval
  <2>7. Cardinality(Reconciling) <= N + 1
    BY <2>5, <2>6, FS_Injection
  <2>8. QED
    BY <2>7 DEF WorkBounded, N
<1>2. QED
  BY <1>1, InvariantIInv, PTL

\* The queue holds the newest quotes, all of them from some point on, in order.
THEOREM QueueHoldsNewest == Spec => []QueueIsNewest
<1>1. IInv => QueueIsNewest
  BY DEF IInv
<1>2. QED
  BY <1>1, InvariantIInv, PTL

\* While a consumer waits, every queued quote has a woken consumer coming for it.
THEOREM WakeupsAreNotLost == Spec => []NoLostWakeup
<1>1. IInv => NoLostWakeup
  BY DEF IInv
<1>2. QED
  BY <1>1, InvariantIInv, PTL
=============================================================================
