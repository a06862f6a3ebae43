--------------------------- MODULE DailyBarsProofs ---------------------------
(***************************************************************************)
(* DailyBars, proved for any number of polls and viewers, whatever session *)
(* the program is started in and however long it runs.                     *)
(***************************************************************************)
EXTENDS DailyBars, WellFoundedInduction, TLAPS

(* The inductive invariant                                                  *)

\* A price runs one session ahead of what can be stored at the same time ...
BarsTrailPrice == \A s \in DOMAIN bars : s < PricedSession

\* ... rows fetched earlier are no newer, and only the newest may be unfinished ...
RowsAreListed ==
    \A p \in Polls : LET rows == poll[p].rows IN
        \A s \in DOMAIN rows :
            /\ s <= PricedSession
            /\ rows[s] \/ \A t \in DOMAIN rows : t <= s

\* ... and an unstraddled poll's price, and the tick it wrote, are of now.
UnderWayIsCurrent ==
    \A p \in Polls : poll[p].at \in {"resolved", "fetched"} /\ ~poll[p].straddles =>
        {poll[p].price, tick} \subseteq {0, PricedSession}

\* No stored close is as new as the tick.
BarsTrailTick == tick > 0 /\ ~mixed => \A s \in DOMAIN bars : s < tick

\* What a viewer has read is what the table holds, unless a poll wrote since.
ReadIsTheTick ==
    \A v \in Viewers : view[v].at = "reading" /\ ~view[v].overtaken =>
        view[v].price = tick /\ tick > 0

IInv ==
    /\ TypeOK
    /\ OnlyFinalCloses
    /\ BaselinePrecedesPrice
    /\ BaselineIsPrevious
    /\ BarsTrailPrice
    /\ RowsAreListed
    /\ UnderWayIsCurrent
    /\ BarsTrailTick
    /\ ReadIsTheTick
-----------------------------------------------------------------------------

\* Max is the largest element of a set of sessions that is not empty.
LEMMA MaxOfBounded ==
    ASSUME NEW n \in Nat, NEW S \in SUBSET (0..n), S # {}
    PROVE  Max(S) \in S /\ \A y \in S : Max(S) >= y
<1> DEFINE R == {ss \in Nat \X Nat : ss[1] < ss[2]}
           T == {n - x : x \in S}
<1>1. IsWellFoundedOn(R, Nat)
  BY NatLessThanWellFounded DEF OpToRel
<1>2. T \subseteq Nat /\ T # {}
  <2>1. \A x \in S : n - x \in Nat
    OBVIOUS
  <2>2. QED
    BY <2>1
<1>3. PICK m \in T : \A y \in T : <<y, m>> \notin R
  <2> HIDE DEF R, T
  <2>1. QED
    BY <1>1, <1>2, WFMin
<1>4. PICK x \in S : m = n - x
  OBVIOUS
<1>5. ASSUME NEW y \in S PROVE x >= y
  <2>1. ~(n - y < m)
    BY <1>2, <1>3
  <2>2. QED
    BY <1>4, <2>1
<1>6. QED
  BY <1>5 DEF Max

\* A table of bars is a function from sessions.
LEMMA TableIsFunction ==
    ASSUME NEW t
    PROVE  t \in Table <=> t \in [DOMAIN t -> BOOLEAN] /\ DOMAIN t \subseteq 1..LastSession
BY DEF Table

\* The newest stored bar is stored, and no other is newer.
LEMMA LastBarIsNewest ==
    ASSUME NEW t \in Table
    PROVE  /\ LastBar(t) \in 0..LastSession
           /\ DOMAIN t = {} => LastBar(t) = 0
           /\ DOMAIN t # {} => LastBar(t) \in DOMAIN t
           /\ \A s \in DOMAIN t : s <= LastBar(t)
<1>1. DOMAIN t \subseteq 1..LastSession /\ LastSession \in Nat
  BY TableIsFunction, SessionAssumption
<1>2. CASE DOMAIN t = {}
  BY <1>1, <1>2 DEF LastBar
<1>3. CASE DOMAIN t # {}
  <2>1. DOMAIN t \in SUBSET (0..LastSession)
    BY <1>1
  <2>2. Max(DOMAIN t) \in DOMAIN t /\ \A y \in DOMAIN t : Max(DOMAIN t) >= y
    BY <1>1, <1>3, <2>1, MaxOfBounded
  <2>3. QED
    BY <1>1, <1>3, <2>2 DEF LastBar
<1>4. QED
  BY <1>2, <1>3

\* What a poll stores: every row but the newest, over what was there.
LEMMA StoredBars ==
    ASSUME NEW rows \in Table, bars \in Table
    PROVE  /\ Stored(rows) \in Table
           /\ \A s \in DOMAIN Stored(rows) :
                \/ s \in DOMAIN bars /\ Stored(rows)[s] = bars[s]
                \/ /\ s \in DOMAIN rows /\ Stored(rows)[s] = rows[s]
                   /\ \E t \in DOMAIN rows : s < t
           /\ \A s, t \in DOMAIN rows : s < t => s \in DOMAIN Stored(rows)
           /\ DOMAIN bars \subseteq DOMAIN Stored(rows)
<1> DEFINE m == Max(DOMAIN rows)
<1>1. /\ DOMAIN rows \subseteq 1..LastSession /\ rows \in [DOMAIN rows -> BOOLEAN]
      /\ DOMAIN bars \subseteq 1..LastSession /\ bars \in [DOMAIN bars -> BOOLEAN]
      /\ LastSession \in Nat
  BY TableIsFunction, SessionAssumption
<1>2. CASE DOMAIN rows = {}
  BY <1>2 DEF Stored
<1>3. CASE DOMAIN rows # {}
  <2>1. m \in DOMAIN rows /\ \A y \in DOMAIN rows : m >= y
    <3>1. DOMAIN rows \in SUBSET (0..LastSession)
      BY <1>1
    <3>2. QED
      BY <1>1, <1>3, <3>1, MaxOfBounded
  <2>2. /\ DOMAIN Stored(rows) = (DOMAIN rows \ {m}) \cup DOMAIN bars
        /\ \A s \in DOMAIN Stored(rows) :
             Stored(rows)[s] = IF s \in DOMAIN rows \ {m} THEN rows[s] ELSE bars[s]
        /\ Stored(rows) = [s \in DOMAIN Stored(rows) |-> Stored(rows)[s]]
    BY <1>3 DEF Stored, ToStore, Upsert
  <2> HIDE DEF m
  <2>3. Stored(rows) \in [DOMAIN Stored(rows) -> BOOLEAN]
    <3>1. \A s \in DOMAIN Stored(rows) : Stored(rows)[s] \in BOOLEAN
      BY <1>1, <2>2
    <3>2. QED
      BY <2>2, <3>1
  <2>4. DOMAIN Stored(rows) \subseteq 1..LastSession
    BY <1>1, <2>2
  <2>5. Stored(rows) \in Table
    BY <2>3, <2>4, TableIsFunction
  <2>6. ASSUME NEW s \in DOMAIN Stored(rows)
        PROVE  \/ s \in DOMAIN bars /\ Stored(rows)[s] = bars[s]
               \/ /\ s \in DOMAIN rows /\ Stored(rows)[s] = rows[s]
                  /\ \E t \in DOMAIN rows : s < t
    <3>1. CASE s \in DOMAIN rows \ {m}
      <4>1. s < m
        BY <1>1, <2>1, <3>1
      <4>2. QED
        BY <2>1, <2>2, <3>1, <4>1
    <3>2. CASE s \notin DOMAIN rows \ {m}
      BY <2>2, <3>2
    <3>3. QED
      BY <3>1, <3>2
  <2>7. ASSUME NEW s \in DOMAIN rows, NEW t \in DOMAIN rows, s < t
        PROVE  s \in DOMAIN Stored(rows)
    <3>1. s # m
      BY <1>1, <2>1, <2>7
    <3>2. QED
      BY <2>2, <3>1
  <2>8. QED
    BY <2>2, <2>5, <2>6, <2>7
<1>4. QED
  BY <1>2, <1>3

\* The invariant holds at the start.
LEMMA InitIInv == Init => IInv
<1> SUFFICES ASSUME Init PROVE IInv
  OBVIOUS
<1>1. NoRows \in Table /\ DOMAIN NoRows = {}
  BY TableIsFunction DEF NoRows
<1>2. IdlePoll \in Poll /\ IdlePoll.at = "idle" /\ IdlePoll.rows = NoRows
  BY <1>1, SessionAssumption DEF IdlePoll, Poll
<1>3. IdleView \in View /\ IdleView.at = "idle"
  BY SessionAssumption DEF IdleView, View
<1>4. /\ bars = NoRows /\ tick = 0 /\ \A p \in Polls : poll[p] = IdlePoll
      /\ \A v \in Viewers : view[v] = IdleView
  BY DEF Init
<1>5. TypeOK
  <2>1. session \in FirstSession..LastSession /\ tick \in 0..LastSession
    BY SessionAssumption DEF Init
  <2>2. poll \in [Polls -> Poll] /\ view \in [Viewers -> View]
    BY <1>2, <1>3 DEF Init
  <2>3. QED
    BY <1>1, <1>4, <2>1, <2>2 DEF Init, TypeOK
<1>6. QED
  BY <1>1, <1>2, <1>3, <1>4, <1>5 DEF IInv, OnlyFinalCloses, BaselinePrecedesPrice,
     BaselineIsPrevious, Judged, BarsTrailPrice, RowsAreListed, UnderWayIsCurrent,
     BarsTrailTick, ReadIsTheTick

\* The session that a price belongs to is one of the calendar's.
LEMMA PricedSessionType ==
    ASSUME TypeOK
    PROVE  PricedSession \in 0..LastSession /\ session \in Nat /\ LastSession \in Nat
BY SessionAssumption DEF TypeOK, PricedSession

\* A new quote: the tick follows it, and what was read before is overtaken.
LEMMA ResolveIInv ==
    ASSUME IInv, NEW p \in Polls, NEW usable \in BOOLEAN, Resolve(p, usable)
    PROVE  IInv'
<1> DEFINE price == IF usable THEN PricedSession ELSE 0
           q == [IdlePoll EXCEPT !.at = "resolved", !.price = price]
<1>1. /\ TypeOK /\ PricedSession \in 0..LastSession /\ price \in 0..LastSession
      /\ price \in {0, PricedSession} /\ LastSession \in Nat
  BY PricedSessionType DEF IInv
<1>2. poll' = [poll EXCEPT ![p] = q] /\ tick' = price /\ mixed' = FALSE
  BY DEF Resolve
<1>3. UNCHANGED <<session, phase, bars>> /\ PricedSession' = PricedSession
  BY DEF Resolve, PricedSession
<1>4. /\ q \in Poll /\ q.at = "resolved" /\ q.price = price
      /\ DOMAIN q.rows = {} /\ q.rows \in Table
  <2>1. NoRows \in Table /\ DOMAIN NoRows = {}
    BY TableIsFunction DEF NoRows
  <2>2. IdlePoll \in Poll /\ IdlePoll.rows = NoRows
    BY <1>1, <2>1 DEF Poll, IdlePoll
  <2> HIDE DEF price
  <2>3. QED
    BY <1>1, <2>1, <2>2 DEF Poll
<1> HIDE DEF price, q
<1>5. \A r \in Polls : poll'[r] = IF r = p THEN q ELSE poll[r]
  BY <1>1, <1>2 DEF TypeOK
<1>6. \A v \in Viewers :
        /\ view'[v] \in View /\ view'[v].at = view[v].at
        /\ view[v].at = "reading" => view'[v].overtaken
  BY <1>1 DEF TypeOK, View, Resolve
<1>7. TypeOK'
  <2>1. view' \in [Viewers -> View]
    BY <1>6 DEF Resolve
  <2>2. QED
    BY <1>1, <1>2, <1>3, <1>4, <2>1 DEF TypeOK
<1>8. OnlyFinalCloses' /\ BarsTrailPrice'
  BY <1>3 DEF IInv, OnlyFinalCloses, BarsTrailPrice
<1>9. BaselinePrecedesPrice' /\ BaselineIsPrevious'
  BY <1>4, <1>5 DEF IInv, BaselinePrecedesPrice, BaselineIsPrevious, Judged
<1>10. RowsAreListed'
  BY <1>3, <1>4, <1>5 DEF IInv, RowsAreListed
<1>11. UnderWayIsCurrent'
  BY <1>1, <1>2, <1>3, <1>4, <1>5 DEF IInv, UnderWayIsCurrent
<1>12. BarsTrailTick'
  BY <1>1, <1>2, <1>3 DEF IInv, BarsTrailTick, BarsTrailPrice
<1>13. ReadIsTheTick'
  BY <1>6 DEF ReadIsTheTick
<1>14. QED
  BY <1>7, <1>8, <1>9, <1>10, <1>11, <1>12, <1>13 DEF IInv

\* Fetched rows are of sessions that have a price by now, and of those only the
\* newest may lack its final close.
LEMMA FetchIInv ==
    ASSUME IInv, NEW p \in Polls,
           \/ FetchFails(p)
           \/ \E blank \in SUBSET {session - 1, session} : FetchDailyBars(p, blank)
    PROVE  IInv'
<1>1. /\ TypeOK /\ poll[p] \in Poll /\ PricedSession \in 0..LastSession
      /\ session \in Nat /\ LastSession \in Nat /\ phase \in {"pre", "open", "closed"}
  BY PricedSessionType DEF IInv, TypeOK
<1>2. /\ UNCHANGED <<session, phase, bars, tick, view, mixed>>
      /\ PricedSession' = PricedSession /\ poll[p].at = "resolved"
  BY DEF FetchFails, FetchDailyBars, PricedSession
<1>3. PICK q \in Poll :
        /\ poll' = [poll EXCEPT ![p] = q] /\ q.at = "fetched"
        /\ q.price = poll[p].price /\ q.straddles = poll[p].straddles
        /\ \A s \in DOMAIN q.rows : /\ s <= PricedSession
                                    /\ q.rows[s] \/ \A t \in DOMAIN q.rows : t <= s
  <2>1. CASE FetchFails(p)
    <3> DEFINE q == [poll[p] EXCEPT !.at = "fetched"]
    <3>1. /\ q \in Poll /\ q.at = "fetched" /\ q.price = poll[p].price
          /\ q.straddles = poll[p].straddles /\ q.rows = poll[p].rows
      BY <1>1 DEF Poll
    <3>2. poll' = [poll EXCEPT ![p] = q]
      BY <2>1 DEF FetchFails
    <3> HIDE DEF q
    <3>3. QED
      BY <3>1, <3>2 DEF IInv, RowsAreListed
  <2>2. CASE \E blank \in SUBSET {session - 1, session} : FetchDailyBars(p, blank)
    <3>1. PICK blank \in SUBSET {session - 1, session} : FetchDailyBars(p, blank)
      BY <2>2
    <3> DEFINE rows == [s \in Listed \ blank |-> s < session \/ phase = "closed"]
               q == [poll[p] EXCEPT !.at = "fetched", !.rows = rows]
    <3>2. Listed = 1..PricedSession /\ Listed \subseteq 1..LastSession
      BY <1>1 DEF Listed, PricedSession
    <3>3. rows \in Table
      BY <3>2, TableIsFunction
    <3>4. \A s \in DOMAIN rows : /\ s <= PricedSession
                                 /\ rows[s] \/ \A t \in DOMAIN rows : t <= s
      <4>1. PricedSession <= session /\ PricedSession \in Nat
        BY <1>1 DEF PricedSession
      <4>2. \A s \in DOMAIN rows : s \in 1..PricedSession /\ (s < session => rows[s])
        BY <3>2
      <4> HIDE DEF rows
      <4>3. QED
        BY <1>1, <4>1, <4>2
    <3>5. poll' = [poll EXCEPT ![p] = q]
      BY <3>1 DEF FetchDailyBars
    <3> HIDE DEF rows
    <3>6. /\ q \in Poll /\ q.at = "fetched" /\ q.price = poll[p].price
          /\ q.straddles = poll[p].straddles /\ q.rows = rows
      BY <1>1, <3>3 DEF Poll
    <3> HIDE DEF q
    <3>7. QED
      BY <3>4, <3>5, <3>6
  <2>3. QED
    BY <2>1, <2>2
<1>4. \A r \in Polls : poll'[r] = IF r = p THEN q ELSE poll[r]
  BY <1>1, <1>3 DEF TypeOK
<1>5. TypeOK'
  BY <1>1, <1>2, <1>3 DEF TypeOK
<1>6. OnlyFinalCloses' /\ BarsTrailPrice' /\ BarsTrailTick' /\ ReadIsTheTick'
  BY <1>2 DEF IInv, OnlyFinalCloses, BarsTrailPrice, BarsTrailTick, ReadIsTheTick
<1>7. BaselinePrecedesPrice' /\ BaselineIsPrevious'
  BY <1>3, <1>4 DEF IInv, BaselinePrecedesPrice, BaselineIsPrevious, Judged
<1>8. RowsAreListed'
  BY <1>2, <1>3, <1>4 DEF IInv, RowsAreListed
<1>9. UnderWayIsCurrent'
  BY <1>2, <1>3, <1>4 DEF IInv, UnderWayIsCurrent
<1>10. QED
  BY <1>5, <1>6, <1>7, <1>8, <1>9 DEF IInv

\* The heart of it: what is stored lies before the newest row, the newest row
\* not after the price.
LEMMA StoreIInv ==
    ASSUME IInv, NEW p \in Polls, StoreAndDetect(p)
    PROVE  IInv'
<1> DEFINE rows == poll[p].rows
           P == PricedSession
           q == [poll[p] EXCEPT !.at = "judged", !.baseline = LastBar(Stored(rows))]
<1>1. /\ TypeOK /\ poll[p] \in Poll /\ rows \in Table /\ bars \in Table
      /\ P \in 0..LastSession /\ LastSession \in Nat /\ poll[p].at = "fetched"
  BY PricedSessionType DEF IInv, TypeOK, Poll, StoreAndDetect
<1>2. /\ bars' = Stored(rows) /\ poll' = [poll EXCEPT ![p] = q]
      /\ mixed' = (mixed \/ poll[p].straddles) /\ UNCHANGED <<session, phase, tick, view>>
      /\ PricedSession' = PricedSession
  BY DEF StoreAndDetect, PricedSession
<1>3. /\ Stored(rows) \in Table
      /\ DOMAIN bars \subseteq DOMAIN Stored(rows)
      /\ \A s, t \in DOMAIN rows : s < t => s \in DOMAIN Stored(rows)
      /\ \A s \in DOMAIN Stored(rows) :
           \/ s \in DOMAIN bars /\ Stored(rows)[s] = bars[s]
           \/ /\ s \in DOMAIN rows /\ Stored(rows)[s] = rows[s]
              /\ \E t \in DOMAIN rows : s < t
  BY <1>1, StoredBars
<1>4. /\ DOMAIN rows \subseteq 1..LastSession /\ DOMAIN bars \subseteq 1..LastSession
      /\ DOMAIN Stored(rows) \subseteq 1..LastSession
  BY <1>1, <1>3, TableIsFunction
<1>5. \A s \in DOMAIN Stored(rows) : s < P
  BY <1>1, <1>3, <1>4 DEF IInv, BarsTrailPrice, RowsAreListed
<1>6. \A s \in DOMAIN Stored(rows) : Stored(rows)[s]
  BY <1>1, <1>3, <1>4 DEF IInv, OnlyFinalCloses, RowsAreListed
<1>7. /\ LastBar(Stored(rows)) \in 0..LastSession
      /\ DOMAIN Stored(rows) = {} => LastBar(Stored(rows)) = 0
      /\ DOMAIN Stored(rows) # {} => LastBar(Stored(rows)) \in DOMAIN Stored(rows)
      /\ \A s \in DOMAIN Stored(rows) : s <= LastBar(Stored(rows))
  BY <1>3, LastBarIsNewest
<1>8. /\ q \in Poll /\ q.at = "judged" /\ q.price = poll[p].price
      /\ q.straddles = poll[p].straddles /\ q.rows = rows
      /\ q.baseline = LastBar(Stored(rows))
  BY <1>1, <1>7 DEF Poll
<1> HIDE DEF q, P, rows
<1>9. \A r \in Polls : poll'[r] = IF r = p THEN q ELSE poll[r]
  BY <1>1, <1>2 DEF TypeOK
<1>10. TypeOK'
  BY <1>1, <1>2, <1>3, <1>8 DEF TypeOK, Poll
<1>11. OnlyFinalCloses' /\ BarsTrailPrice'
  BY <1>2, <1>5, <1>6 DEF OnlyFinalCloses, BarsTrailPrice, P
<1>12. ~q.straddles => q.price \in {0, P} /\ tick \in {0, P}
  BY <1>1, <1>8 DEF IInv, UnderWayIsCurrent, P
<1>13. q.price > 0 /\ ~q.straddles =>
         /\ q.baseline < q.price
         /\ {q.price, q.price - 1} \subseteq DOMAIN q.rows => q.baseline = q.price - 1
  <2> SUFFICES ASSUME q.price > 0, ~q.straddles
               PROVE  /\ q.baseline < q.price
                      /\ {q.price, q.price - 1} \subseteq DOMAIN q.rows
                            => q.baseline = q.price - 1
    OBVIOUS
  <2>1. q.price = P /\ P > 0
    BY <1>12
  <2>2. q.baseline < P
    BY <1>1, <1>5, <1>7, <1>8, <2>1
  <2>3. ASSUME {P, P - 1} \subseteq DOMAIN rows
        PROVE  q.baseline = P - 1
    <3>1. P - 1 < P
      BY <1>1
    <3>2. P - 1 \in DOMAIN Stored(rows)
      BY <1>3, <2>3, <3>1
    <3>3. P - 1 <= q.baseline /\ q.baseline \in 0..LastSession
      BY <1>7, <1>8, <3>2
    <3>4. QED
      BY <1>1, <2>2, <3>3
  <2>4. QED
    BY <1>8, <2>1, <2>2, <2>3
<1>14. BaselinePrecedesPrice' /\ BaselineIsPrevious'
  BY <1>9, <1>13 DEF IInv, BaselinePrecedesPrice, BaselineIsPrevious, Judged
<1>15. RowsAreListed'
  BY <1>2, <1>8, <1>9 DEF IInv, RowsAreListed, rows
<1>16. UnderWayIsCurrent'
  BY <1>2, <1>8, <1>9 DEF IInv, UnderWayIsCurrent
<1>17. BarsTrailTick'
  <2> SUFFICES ASSUME tick > 0, ~mixed, ~poll[p].straddles, NEW s \in DOMAIN Stored(rows)
               PROVE  s < tick
    BY <1>2 DEF BarsTrailTick
  <2>1. tick = P
    BY <1>8, <1>12
  <2>2. QED
    BY <1>5, <2>1
<1>18. ReadIsTheTick'
  BY <1>2 DEF IInv, ReadIsTheTick
<1>19. QED
  BY <1>10, <1>11, <1>14, <1>15, <1>16, <1>17, <1>18 DEF IInv

\* A reader of the tick and the bars.
LEMMA ViewIInv ==
    ASSUME IInv, NEW v \in Viewers,
           NarrateToday(v) \/ ReadTick(v) \/ DayChange(v) \/ Close(v)
    PROVE  IInv'
<1>1. /\ TypeOK /\ view[v] \in View /\ bars \in Table /\ LastSession \in Nat
      /\ LastBar(bars) \in 0..LastSession
  BY PricedSessionType, LastBarIsNewest DEF IInv, TypeOK
<1>2. UNCHANGED <<session, phase, bars, tick, poll, mixed>> /\ PricedSession' = PricedSession
  BY DEF NarrateToday, ReadTick, DayChange, Close, PricedSession
<1>3. PICK w \in View :
        /\ view' = [view EXCEPT ![v] = w]
        /\ w.at = "reading" => w.price = tick /\ tick > 0
  <2>1. IdleView \in View /\ IdleView.at = "idle"
    BY <1>1 DEF IdleView, View
  <2>2. CASE NarrateToday(v)
    <3> DEFINE w == [at |-> "shown", price |-> tick, baseline |-> LastBar(bars),
                     overtaken |-> FALSE]
    <3>1. w \in View /\ w.at = "shown"
      BY <1>1 DEF TypeOK, View
    <3>2. view' = [view EXCEPT ![v] = w]
      BY <2>2 DEF NarrateToday
    <3> HIDE DEF w
    <3>3. QED
      BY <3>1, <3>2
  <2>3. CASE ReadTick(v)
    <3> DEFINE w == [view[v] EXCEPT !.at = "reading", !.price = tick]
    <3>1. w \in View /\ w.price = tick
      BY <1>1 DEF View, TypeOK
    <3>2. view' = [view EXCEPT ![v] = w] /\ tick > 0
      BY <2>3 DEF ReadTick
    <3> HIDE DEF w
    <3>3. QED
      BY <3>1, <3>2
  <2>4. CASE DayChange(v)
    <3> DEFINE w == [view[v] EXCEPT !.at = "shown", !.baseline = LastBar(bars)]
    <3>1. w \in View /\ w.at = "shown"
      BY <1>1 DEF View
    <3>2. view' = [view EXCEPT ![v] = IF DOMAIN bars = {} THEN IdleView ELSE w]
      BY <2>4 DEF DayChange
    <3> HIDE DEF w
    <3>3. QED
      BY <2>1, <3>1, <3>2
  <2>5. CASE Close(v)
    BY <2>1, <2>5 DEF Close
  <2>6. QED
    BY <2>2, <2>3, <2>4, <2>5
<1>4. TypeOK'
  BY <1>1, <1>2, <1>3 DEF TypeOK
<1>5. /\ OnlyFinalCloses' /\ BarsTrailPrice' /\ BarsTrailTick'
      /\ BaselinePrecedesPrice' /\ BaselineIsPrevious'
  BY <1>2 DEF IInv, OnlyFinalCloses, BarsTrailPrice, BarsTrailTick,
     BaselinePrecedesPrice, BaselineIsPrevious, Judged
<1>6. RowsAreListed' /\ UnderWayIsCurrent'
  BY <1>2 DEF IInv, RowsAreListed, UnderWayIsCurrent
<1>7. ReadIsTheTick'
  BY <1>1, <1>2, <1>3 DEF IInv, TypeOK, ReadIsTheTick
<1>8. QED
  BY <1>4, <1>5, <1>6, <1>7 DEF IInv

\* The market moves on: prices get ahead of what was fetched, and every poll
\* under way straddles the move.
LEMMA MarketMovesIInv ==
    ASSUME IInv, MarketMoves
    PROVE  IInv'
<1> DEFINE underway(p) == poll[p].at \in {"resolved", "fetched"}
           q(p) == [poll[p] EXCEPT !.straddles = @ \/ underway(p)]
<1>1. TypeOK /\ UNCHANGED <<bars, tick, view, mixed>>
  BY DEF IInv, MarketMoves
<1>2. poll' = [p \in Polls |-> q(p)]
  BY DEF MarketMoves
<1>3. /\ session' \in FirstSession..LastSession /\ phase' \in {"pre", "open", "closed"}
      /\ PricedSession <= PricedSession'
      /\ PricedSession \in Nat /\ PricedSession' \in Nat
  BY <1>1, SessionAssumption DEF MarketMoves, TypeOK, PricedSession
<1>4. \A p \in Polls : /\ q(p) \in Poll /\ q(p).at = poll[p].at
                       /\ q(p).price = poll[p].price /\ q(p).rows = poll[p].rows
                       /\ q(p).baseline = poll[p].baseline
                       /\ q(p).straddles = (poll[p].straddles \/ underway(p))
                       /\ DOMAIN poll[p].rows \subseteq Nat
  <2> TAKE p \in Polls
  <2>1. poll[p] \in Poll /\ poll[p].rows \in Table /\ poll[p].straddles \in BOOLEAN
    BY <1>1 DEF TypeOK, Poll
  <2>2. DOMAIN poll[p].rows \subseteq Nat
    BY <2>1, TableIsFunction
  <2>3. (poll[p].straddles \/ underway(p)) \in BOOLEAN
    OBVIOUS
  <2> HIDE DEF underway
  <2>4. QED
    BY <2>1, <2>2, <2>3 DEF Poll
<1> HIDE DEF q
<1>5. TypeOK'
  BY <1>1, <1>2, <1>3, <1>4 DEF TypeOK
<1>6. OnlyFinalCloses' /\ BarsTrailTick' /\ ReadIsTheTick'
  BY <1>1 DEF IInv, OnlyFinalCloses, BarsTrailTick, ReadIsTheTick
<1>7. BarsTrailPrice'
  <2>1. DOMAIN bars \subseteq Nat
    BY <1>1, TableIsFunction DEF TypeOK
  <2>2. QED
    BY <1>1, <1>3, <2>1 DEF IInv, BarsTrailPrice
<1>8. BaselinePrecedesPrice' /\ BaselineIsPrevious'
  BY <1>2, <1>4 DEF IInv, BaselinePrecedesPrice, BaselineIsPrevious, Judged
<1>9. RowsAreListed'
  BY <1>2, <1>3, <1>4 DEF IInv, RowsAreListed
<1>10. UnderWayIsCurrent'
  BY <1>2, <1>4 DEF UnderWayIsCurrent
<1>11. QED
  BY <1>5, <1>6, <1>7, <1>8, <1>9, <1>10 DEF IInv

\* Each action keeps it.
LEMMA NextIInv == IInv /\ [Next]_vars => IInv'
<1> SUFFICES ASSUME IInv, [Next]_vars PROVE IInv'
  OBVIOUS
<1>1. ASSUME NEW p \in Polls, Resolve(p, TRUE) \/ Resolve(p, FALSE)
      PROVE  IInv'
  BY <1>1, ResolveIInv
<1>2. ASSUME NEW p \in Polls,
             \/ FetchFails(p)
             \/ \E blank \in SUBSET {session - 1, session} : FetchDailyBars(p, blank)
      PROVE  IInv'
  BY <1>2, FetchIInv
<1>3. ASSUME NEW p \in Polls, StoreAndDetect(p)
      PROVE  IInv'
  BY <1>3, StoreIInv
<1>4. ASSUME NEW v \in Viewers, NarrateToday(v) \/ ReadTick(v) \/ DayChange(v) \/ Close(v)
      PROVE  IInv'
  BY <1>4, ViewIInv
<1>5. CASE MarketMoves
  BY <1>5, MarketMovesIInv
<1>6. CASE UNCHANGED vars
  BY <1>6 DEF vars, IInv, TypeOK, OnlyFinalCloses, BaselinePrecedesPrice,
     BaselineIsPrevious, Judged, BarsTrailPrice, RowsAreListed, UnderWayIsCurrent,
     BarsTrailTick, ReadIsTheTick, PricedSession
<1>7. QED
  BY <1>1, <1>2, <1>3, <1>4, <1>5, <1>6 DEF Next

\* So it holds throughout.
LEMMA InvariantIInv == Spec => []IInv
  BY InitIInv, NextIInv, PTL DEF Spec
-----------------------------------------------------------------------------
\* No bar of a session still being traded is ever stored.
THEOREM StoresFinalCloses == Spec => []OnlyFinalCloses
<1>1. IInv => OnlyFinalCloses
  BY DEF IInv
<1>2. QED
  BY <1>1, InvariantIInv, PTL

\* A poll that the market did not move under measures its price against an
\* earlier session's close.
THEOREM BaselineIsEarlier == Spec => []BaselinePrecedesPrice
<1>1. IInv => BaselinePrecedesPrice
  BY DEF IInv
<1>2. QED
  BY <1>1, InvariantIInv, PTL

\* ... the session right before, when the fetch brought the rows of both.
THEOREM BaselineIsTheDayBefore == Spec => []BaselineIsPrevious
<1>1. IInv => BaselineIsPrevious
  BY DEF IInv
<1>2. QED
  BY <1>1, InvariantIInv, PTL

\* The change "today" that is shown is one forward in time, unless the price was
\* read before a quote that came since, or is from before the open that a poll
\* ran into.
THEOREM ShownIsForward == Spec => ShownChangeIsForward
<1> DEFINE Forward ==
             \A v \in Viewers :
                view[v].at # "shown" /\ view'[v].at = "shown" =>
                    \/ view'[v].baseline < view'[v].price
                    \/ view'[v].overtaken \/ mixed
<1>1. ASSUME IInv, [Next]_vars
      PROVE  Forward
  <2> SUFFICES ASSUME NEW v \in Viewers, view[v].at # "shown", view'[v].at = "shown"
               PROVE  view'[v].baseline < view'[v].price \/ view'[v].overtaken \/ mixed
    OBVIOUS
  <2>1. /\ view \in [Viewers -> View] /\ view[v] \in View /\ bars \in Table
        /\ DOMAIN bars # {} => LastBar(bars) \in DOMAIN bars
    BY <1>1, LastBarIsNewest DEF IInv, TypeOK
  <2>2. CASE NarrateToday(v)
    <3>1. /\ view'[v].price = tick /\ view'[v].baseline = LastBar(bars)
          /\ tick > 0 /\ DOMAIN bars # {}
      BY <2>1, <2>2 DEF NarrateToday
    <3>2. QED
      BY <1>1, <2>1, <3>1 DEF IInv, BarsTrailTick
  <2>3. CASE DayChange(v)
    <3>1. view[v].at = "reading" /\ DOMAIN bars # {}
      BY <2>1, <2>3 DEF DayChange, IdleView
    <3>2. /\ view'[v].price = view[v].price /\ view'[v].baseline = LastBar(bars)
          /\ view'[v].overtaken = view[v].overtaken
      BY <2>1, <2>3, <3>1 DEF DayChange, View
    <3>3. view[v].overtaken \in BOOLEAN
      BY <2>1 DEF View
    <3>4. QED
      BY <1>1, <2>1, <3>1, <3>2, <3>3 DEF IInv, ReadIsTheTick, BarsTrailTick
  <2>4. CASE ReadTick(v) \/ Close(v)
    BY <2>1, <2>4 DEF ReadTick, Close, IdleView, View
  <2>5. ASSUME NEW u \in Viewers, u # v,
               NarrateToday(u) \/ ReadTick(u) \/ DayChange(u) \/ Close(u)
        PROVE  view'[v] = view[v]
    BY <2>1, <2>5 DEF NarrateToday, ReadTick, DayChange, Close
  <2>6. ASSUME NEW p \in Polls, Resolve(p, TRUE) \/ Resolve(p, FALSE)
        PROVE  view'[v].at = view[v].at
    BY <2>1, <2>6 DEF Resolve, View
  <2>7. QED
    BY <1>1, <2>2, <2>3, <2>4, <2>5, <2>6
    DEF Next, vars, FetchDailyBars, FetchFails, StoreAndDetect, MarketMoves
<1>2. IInv /\ [Next]_vars => [Forward]_vars
  BY <1>1
<1>3. QED
  BY <1>2, InvariantIInv, PTL DEF Spec, ShownChangeIsForward
=============================================================================
