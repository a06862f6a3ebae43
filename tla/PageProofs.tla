----------------------------- MODULE PageProofs -----------------------------
(***************************************************************************)
(* The page of Page, proved for any number of events, of GETs that overlap *)
(* and of changes and faults: what is acknowledged was seen, and the tab's *)
(* own changes show once it has nothing under way.                         *)
(***************************************************************************)
EXTENDS Page, WellFoundedInduction, TLAPS

(* The inductive invariant                                                  *)

\* A GET holds events only once it is answered.
FoundIsAnswered == \A k \in Slots : get[k].at # "answered" => get[k].found = {}

\* Until the grid shows the last change of the tab, its command is under way, or
\* a GET is that will see the change.
ChangeIsOnItsWay ==
    faults = 0 /\ ~overtaken =>
        \/ own <= grid.version
        \/ cmd \in {"added", "removed", "polling"}
        \/ \E k \in Slots : \/ get[k].at = "sent"
                            \/ get[k].at \in {"loaded", "answered"} /\ own <= get[k].version

IInv ==
    /\ TypeOK
    /\ FoundIsAnswered
    /\ AcknowledgedIsSeen
    /\ ChangeIsOnItsWay
-----------------------------------------------------------------------------

USE BoundAssumption DEF Slots

\* The first free slot.
LEMMA LeastSlot ==
    ASSUME NEW S \in SUBSET Slots, S # {}
    PROVE  Min(S) \in S
<1> DEFINE R == {ss \in Nat \X Nat : ss[1] < ss[2]}
<1>1. S \in SUBSET Nat
  OBVIOUS
<1>2. IsWellFoundedOn(R, Nat)
  BY NatLessThanWellFounded DEF OpToRel
<1>3. PICK m \in S : \A n \in S : <<n, m>> \notin R
  <2> HIDE DEF R
  <2>1. QED
    BY <1>1, <1>2, WFMin
<1>4. ASSUME NEW n \in S PROVE m <= n
  <2>1. m \in Nat /\ n \in Nat
    BY <1>1
  <2>2. ~(n < m)
    BY <1>3, <2>1
  <2>3. QED
    BY <2>1, <2>2
<1>5. QED
  BY <1>4 DEF Min

\* refresh() takes a slot that nothing is known of and sends a GET in it.
LEMMA RefreshSends ==
    ASSUME TypeOK, FoundIsAnswered, Refresh
    PROVE  \E k \in Slots :
             /\ get[k].at = "idle" /\ get'[k].at = "sent" /\ get'[k].found = {}
             /\ \A j \in Slots : j # k => get'[j] = get[j]
             /\ \A j \in Slots : get'[j].version <= version
             /\ get' \in [Slots -> Get]
<1>1. PICK k \in Slots : get[k].at = "idle" /\ get' = [get EXCEPT ![k].at = "sent"]
  <2>1. Free \in SUBSET Slots /\ Free # {}
    BY DEF Free, Refresh
  <2>2. Min(Free) \in Free
    BY <2>1, LeastSlot
  <2>3. QED
    BY <2>2 DEF Free, Refresh
<1>2. get \in [Slots -> Get] /\ get[k] \in Get /\ \A j \in Slots : get[j].version <= version
  BY DEF TypeOK
<1> DEFINE new == [get[k] EXCEPT !.at = "sent"]
<1>3. /\ new \in Get /\ new.at = "sent" /\ new.found = get[k].found
      /\ new.version = get[k].version
  BY <1>2 DEF Get
<1>4. get' = [get EXCEPT ![k] = new]
  BY <1>1
<1> HIDE DEF new
<1>5. /\ get' \in [Slots -> Get] /\ get'[k] = new
      /\ \A j \in Slots : j # k => get'[j] = get[j]
  BY <1>2, <1>3, <1>4
<1>6. get[k].found = {}
  BY <1>1 DEF FoundIsAnswered
<1>7. \A j \in Slots : get'[j].version <= version
  BY <1>2, <1>3, <1>5
<1>8. QED
  BY <1>1, <1>3, <1>5, <1>6, <1>7

\* What the invariant says besides types is about the inbox, the GETs, the grid
\* and the histories; a step of the inbox that shows nothing makes no claim on
\* them.
LEMMA PageUnchanged ==
    ASSUME IInv, UNCHANGED <<cmd, get, grid, own, overtaken, displayed, lost>>,
           elsewhere \subseteq elsewhere', faults' >= faults, faults' \in Nat,
           \A e \in Events : inbox'[User][e] = "shown" =>
               inbox[User][e] = "shown" \/ e \in elsewhere'
    PROVE  FoundIsAnswered' /\ AcknowledgedIsSeen' /\ ChangeIsOnItsWay'
<1>1. FoundIsAnswered' /\ AcknowledgedIsSeen'
  BY DEF IInv, FoundIsAnswered, AcknowledgedIsSeen
<1>2. faults' = 0 => faults = 0
  BY DEF IInv, TypeOK
<1>3. ChangeIsOnItsWay'
  BY <1>2 DEF IInv, ChangeIsOnItsWay
<1>4. QED
  BY <1>1, <1>3

\* The inbox of the one user, and its steps.
LEMMA ServerSteps ==
    ASSUME TypeOK
    PROVE  /\ Server!Watch(User) => watching' \subseteq {User} /\ inbox' = inbox
           /\ Server!Leave(User) =>
                /\ watching' \subseteq {User} /\ inbox' \in [{User} -> [Events -> Standing]]
                /\ \A e \in Events : inbox'[User][e] = "shown" <=> inbox[User][e] = "shown"
           /\ \A S \in SUBSET Events : Server!Show(User, S) =>
                /\ watching' = watching /\ inbox' \in [{User} -> [Events -> Standing]]
                /\ \A e \in Events : inbox'[User][e] = "shown"
                                       => inbox[User][e] = "shown" \/ e \in S
           /\ \A e \in Events, late \in SUBSET {User} : Server!Record(e, late) =>
                /\ watching' = watching /\ inbox' \in [{User} -> [Events -> Standing]]
                /\ \A d \in Events : inbox'[User][d] = "shown" <=> inbox[User][d] = "shown"
<1>1. inbox \in [{User} -> [Events -> Standing]] /\ watching \subseteq {User}
  BY DEF TypeOK
<1>2. ASSUME Server!Watch(User)
      PROVE  watching' \subseteq {User} /\ inbox' = inbox
  BY <1>1, <1>2 DEF Server!Watch
<1>3. ASSUME Server!Leave(User)
      PROVE  /\ watching' \subseteq {User} /\ inbox' \in [{User} -> [Events -> Standing]]
             /\ \A e \in Events : inbox'[User][e] = "shown" <=> inbox[User][e] = "shown"
  BY <1>1, <1>3 DEF Server!Leave, Server!Pending, Standing
<1>4. ASSUME NEW S \in SUBSET Events, Server!Show(User, S)
      PROVE  /\ watching' = watching /\ inbox' \in [{User} -> [Events -> Standing]]
             /\ \A e \in Events : inbox'[User][e] = "shown"
                                    => inbox[User][e] = "shown" \/ e \in S
  BY <1>1, <1>4 DEF Server!Show, Standing
<1>5. ASSUME NEW e \in Events, NEW late \in SUBSET {User}, Server!Record(e, late)
      PROVE  /\ watching' = watching /\ inbox' \in [{User} -> [Events -> Standing]]
             /\ \A d \in Events : inbox'[User][d] = "shown" <=> inbox[User][d] = "shown"
  BY <1>1, <1>5 DEF Server!Record, Standing
<1>6. QED
  BY <1>2, <1>3, <1>4, <1>5

\* The invariant holds at the start.
LEMMA InitIInv == Init => IInv
<1> SUFFICES ASSUME Init PROVE IInv
  OBVIOUS
<1>1. NoGet \in Get /\ NoGet.at = "idle" /\ NoGet.found = {} /\ NoGet.version = 0
  BY DEF NoGet, Get
<1>2. /\ inbox = [u \in {User} |-> [e \in Events |-> "none"]] /\ watching = {}
  BY DEF Init, Server!Init
<1>3. /\ grid \in Grid /\ grid.version = 0 /\ grid.events = {}
  BY DEF Init, Grid
<1>4. TypeOK
  <2>1. inbox \in [{User} -> [Events -> Standing]]
    BY <1>2 DEF Standing
  <2>2. get \in [Slots -> Get] /\ \A k \in Slots : get[k].version <= version
    BY <1>1 DEF Init
  <2>3. version \in 0..MaxChanges /\ own \in 0..version /\ faults \in 0..MaxFaults
    BY DEF Init
  <2>4. /\ usable \in BOOLEAN /\ unsent \cup pushed \subseteq Events
        /\ socket \in {"new", "open", "closed"}
        /\ cmd \in {"none", "adding", "added", "removing", "removed", "polling"}
        /\ displayed \cup elsewhere \cup lost \subseteq Events
        /\ overtaken \in BOOLEAN
    BY DEF Init
  <2>5. grid.version <= version /\ grid.events \subseteq displayed
    BY <1>3 DEF Init
  <2>6. watching \subseteq {User}
    BY <1>2
  <2>7. QED
    BY <1>3, <2>1, <2>2, <2>3, <2>4, <2>5, <2>6 DEF TypeOK
<1>5. FoundIsAnswered /\ AcknowledgedIsSeen /\ ChangeIsOnItsWay
  BY <1>1, <1>2, <1>3 DEF Init, FoundIsAnswered, AcknowledgedIsSeen, ChangeIsOnItsWay
<1>6. QED
  BY <1>4, <1>5 DEF IInv
-----------------------------------------------------------------------------
(* The server *)

\* A poll touches only the quote.
LEMMA PollIInv ==
    ASSUME IInv, Poll
    PROVE  IInv'
<1>1. /\ TypeOK /\ usable' \in BOOLEAN
      /\ UNCHANGED <<watching, inbox, unsent, version, page, history, faults>>
  BY DEF IInv, Poll
<1>2. TypeOK'
  BY <1>1 DEF TypeOK, page, history
<1>3. QED
  BY <1>1, <1>2, PageUnchanged DEF IInv, TypeOK, page, history

\* A commit marks no event as shown.
LEMMA RecordIInv ==
    ASSUME IInv, NEW e \in Events, NEW late \in SUBSET {User}, Record(e, late)
    PROVE  IInv'
<1>1. /\ TypeOK /\ Server!Record(e, late) /\ usable' = TRUE /\ unsent' = unsent \cup {e}
      /\ UNCHANGED <<version, page, history, faults>>
  BY DEF IInv, Record
<1>2. /\ watching' = watching /\ inbox' \in [{User} -> [Events -> Standing]]
      /\ \A d \in Events : inbox'[User][d] = "shown" <=> inbox[User][d] = "shown"
  BY <1>1, ServerSteps
<1>3. TypeOK'
  BY <1>1, <1>2 DEF TypeOK, page, history
<1>4. QED
  BY <1>1, <1>2, <1>3, PageUnchanged DEF IInv, TypeOK, page, history

\* A fan-out only adds a push.
LEMMA FanOutIInv ==
    ASSUME IInv, NEW e \in Events, FanOut(e)
    PROVE  IInv'
<1>1. /\ TypeOK /\ unsent' \cup pushed' \subseteq Events
      /\ UNCHANGED <<watching, inbox, usable, version, socket, cmd, get, grid, history,
                     faults>>
  BY DEF IInv, TypeOK, FanOut
<1>2. TypeOK'
  BY <1>1 DEF TypeOK, history
<1>3. QED
  BY <1>1, <1>2, PageUnchanged DEF IInv, TypeOK, history

\* A GET that was sent loads the list as it is now, this tab's own change included.
LEMMA LoadIInv ==
    ASSUME IInv, NEW k \in Slots, Load(k)
    PROVE  IInv'
<1> DEFINE new == [at |-> "loaded", version |-> version, listed |-> User \in watching,
                   since |-> Pending, found |-> {}]
<1>1. /\ TypeOK /\ get[k].at = "sent" /\ get' = [get EXCEPT ![k] = new]
      /\ UNCHANGED <<server, socket, pushed, cmd, grid, history, faults>>
  BY DEF IInv, Load
<1>2. Pending \subseteq Events
  BY DEF Pending, Server!Pending
<1>3. /\ new \in Get /\ new.at = "loaded" /\ new.version = version /\ new.found = {}
  BY <1>1, <1>2 DEF Get, TypeOK
<1> HIDE DEF new
<1>4. /\ get' \in [Slots -> Get] /\ get'[k] = new
      /\ \A j \in Slots : j # k => get'[j] = get[j]
  BY <1>1, <1>3 DEF TypeOK
<1>5. \A j \in Slots : get'[j].version <= version
  BY <1>1, <1>3, <1>4 DEF TypeOK
<1>6. TypeOK'
  BY <1>1, <1>4, <1>5 DEF TypeOK, server, history
<1>7. FoundIsAnswered'
  BY <1>3, <1>4 DEF IInv, FoundIsAnswered
<1>8. AcknowledgedIsSeen'
  <2>1. get[k].found = {}
    BY <1>1 DEF IInv, FoundIsAnswered
  <2>2. QED
    BY <1>1, <1>4, <2>1 DEF IInv, AcknowledgedIsSeen, server, history
<1>9. ChangeIsOnItsWay'
  <2>1. own <= version
    BY <1>1 DEF TypeOK
  <2>2. QED
    BY <1>1, <1>3, <1>4, <2>1 DEF IInv, ChangeIsOnItsWay, history
<1>10. QED
  BY <1>6, <1>7, <1>8, <1>9 DEF IInv

\* What is acknowledged is in the response.
LEMMA AnswerIInv ==
    ASSUME IInv, NEW k \in Slots, Answer(k)
    PROVE  IInv'
<1> DEFINE found == IF get[k].listed /\ usable THEN get[k].since \cup Pending ELSE {}
           new == [get[k] EXCEPT !.at = "answered", !.found = found]
<1>1. /\ TypeOK /\ get[k].at = "loaded" /\ get[k] \in Get /\ Server!Show(User, found)
      /\ get' = [get EXCEPT ![k] = new]
      /\ UNCHANGED <<usable, unsent, version, socket, pushed, cmd, grid, history, faults>>
  BY DEF IInv, Answer, TypeOK
<1>2. found \in SUBSET Events
  BY <1>1 DEF Pending, Server!Pending, Get
<1> HIDE DEF found
<1>3. /\ new \in Get /\ new.at = "answered" /\ new.version = get[k].version
      /\ new.found = found
  BY <1>1, <1>2 DEF Get
<1> HIDE DEF new
<1>4. /\ get' \in [Slots -> Get] /\ get'[k] = new
      /\ \A j \in Slots : j # k => get'[j] = get[j]
  BY <1>1, <1>3 DEF TypeOK
<1>5. /\ watching' = watching /\ inbox' \in [{User} -> [Events -> Standing]]
      /\ \A e \in Events : inbox'[User][e] = "shown"
                             => inbox[User][e] = "shown" \/ e \in found
  BY <1>1, <1>2, ServerSteps
<1>6. \A j \in Slots : get'[j].version <= version
  BY <1>1, <1>3, <1>4 DEF TypeOK
<1>7. TypeOK'
  BY <1>1, <1>4, <1>5, <1>6 DEF TypeOK, history
<1>8. FoundIsAnswered'
  BY <1>3, <1>4 DEF IInv, FoundIsAnswered
<1>9. AcknowledgedIsSeen'
  <2>1. get[k].found = {}
    BY <1>1 DEF IInv, FoundIsAnswered
  <2>2. QED
    BY <1>1, <1>3, <1>4, <1>5, <2>1 DEF IInv, AcknowledgedIsSeen, history
<1>10. ChangeIsOnItsWay'
  BY <1>1, <1>3, <1>4 DEF IInv, ChangeIsOnItsWay, history
<1>11. QED
  BY <1>7, <1>8, <1>9, <1>10 DEF IInv

\* A change of the list counts one version up and shows nothing.
LEMMA ChangeTypes ==
    ASSUME TypeOK, Change
    PROVE  /\ version' = version + 1 /\ version' \in 0..MaxChanges
           /\ watching' \subseteq {User} /\ inbox' \in [{User} -> [Events -> Standing]]
           /\ \A e \in Events : inbox'[User][e] = "shown" <=> inbox[User][e] = "shown"
<1>1. version' = version + 1 /\ version' \in 0..MaxChanges
  BY DEF Change, TypeOK
<1>2. Server!Watch(User) \/ Server!Leave(User)
  BY DEF Change
<1>3. QED
  BY <1>1, <1>2, ServerSteps DEF TypeOK

\* A change in another tab is not this tab's own.
LEMMA ChangeElsewhereIInv ==
    ASSUME IInv, ChangeElsewhere
    PROVE  IInv'
<1>1. /\ TypeOK /\ Change /\ UNCHANGED <<usable, unsent, page, history, faults>>
  BY DEF IInv, ChangeElsewhere
<1>2. TypeOK'
  <2>1. /\ \A k \in Slots : get[k].version <= version' /\ grid.version <= version'
        /\ own \in 0..version'
    BY <1>1, ChangeTypes DEF TypeOK, Get, Grid
  <2>2. QED
    BY <1>1, <2>1, ChangeTypes DEF TypeOK, page, history
<1>3. QED
  BY <1>1, <1>2, ChangeTypes, PageUnchanged DEF IInv, TypeOK, page, history

\* What another tab acknowledges, it was answered with.
LEMMA ShowElsewhereIInv ==
    ASSUME IInv, ShowElsewhere
    PROVE  IInv'
<1>1. /\ TypeOK /\ Server!Show(User, Pending) /\ elsewhere' = elsewhere \cup Pending
      /\ UNCHANGED <<usable, unsent, version, page, own, overtaken, displayed, lost, faults>>
  BY DEF IInv, ShowElsewhere
<1>2. Pending \in SUBSET Events
  BY DEF Pending, Server!Pending
<1>3. /\ watching' = watching /\ inbox' \in [{User} -> [Events -> Standing]]
      /\ \A e \in Events : inbox'[User][e] = "shown"
                             => inbox[User][e] = "shown" \/ e \in Pending
  BY <1>1, <1>2, ServerSteps
<1>4. TypeOK'
  BY <1>1, <1>2, <1>3 DEF TypeOK, page
<1>5. QED
  BY <1>1, <1>3, <1>4, PageUnchanged DEF IInv, TypeOK, page
-----------------------------------------------------------------------------
(* The tab *)

\* A refresh beside a step that may end a command: the GET it sends will see
\* whatever the command did.
LEMMA RefreshIInv ==
    ASSUME IInv, Refresh, pushed' \subseteq Events, socket' \in {"new", "open", "closed"},
           cmd' \in {"none", "adding", "added", "removing", "removed", "polling"},
           UNCHANGED <<server, grid, history, faults>>
    PROVE  IInv'
<1>1. TypeOK /\ FoundIsAnswered
  BY DEF IInv
<1>2. PICK k \in Slots :
        /\ get[k].at = "idle" /\ get'[k].at = "sent" /\ get'[k].found = {}
        /\ \A j \in Slots : j # k => get'[j] = get[j]
        /\ \A j \in Slots : get'[j].version <= version
        /\ get' \in [Slots -> Get]
  BY <1>1, RefreshSends
<1>3. TypeOK'
  BY <1>1, <1>2 DEF TypeOK, server, history
<1>4. FoundIsAnswered'
  BY <1>1, <1>2 DEF FoundIsAnswered
<1>5. AcknowledgedIsSeen'
  <2>1. get[k].found = {}
    BY <1>1, <1>2 DEF FoundIsAnswered
  <2>2. QED
    BY <1>2, <2>1 DEF IInv, AcknowledgedIsSeen, server, history
<1>6. ChangeIsOnItsWay'
  BY <1>2 DEF ChangeIsOnItsWay
<1>7. QED
  BY <1>3, <1>4, <1>5, <1>6 DEF IInv

\* A step of the command alone: it may not drop a change that nothing carries.
LEMMA CommandIInv ==
    ASSUME IInv, UNCHANGED <<server, socket, pushed, get, grid, history>>,
           cmd' \in {"none", "adding", "added", "removing", "removed", "polling"},
           faults' \in 0..MaxFaults, faults' >= faults,
           \/ faults' > 0 \/ cmd' \in {"added", "removed", "polling"}
           \/ cmd \notin {"added", "removed", "polling"}
    PROVE  IInv'
<1>1. TypeOK'
  BY DEF IInv, TypeOK, server, history
<1>2. FoundIsAnswered' /\ AcknowledgedIsSeen'
  BY DEF IInv, FoundIsAnswered, AcknowledgedIsSeen, server, history
<1>3. ChangeIsOnItsWay'
  <2>1. faults' = 0 => faults = 0
    BY DEF IInv, TypeOK
  <2>2. QED
    BY <2>1 DEF IInv, ChangeIsOnItsWay, history
<1>4. QED
  BY <1>1, <1>2, <1>3 DEF IInv

\* A change that the tab asked for leaves its command under way.
LEMMA ServeIInv ==
    ASSUME IInv, Serve
    PROVE  IInv'
<1>1. /\ TypeOK /\ Change /\ own' = version' /\ cmd' \in {"added", "removed"}
      /\ UNCHANGED <<usable, unsent, socket, pushed, get, grid, overtaken, displayed,
                     elsewhere, lost, faults>>
  BY DEF IInv, Serve
<1>2. /\ version' = version + 1 /\ version' \in 0..MaxChanges
      /\ watching' \subseteq {User} /\ inbox' \in [{User} -> [Events -> Standing]]
      /\ \A e \in Events : inbox'[User][e] = "shown" <=> inbox[User][e] = "shown"
  BY <1>1, ChangeTypes
<1>3. TypeOK'
  <2>1. /\ \A k \in Slots : get[k].version <= version' /\ grid.version <= version'
        /\ own' \in 0..version'
    BY <1>1, <1>2 DEF TypeOK, Get, Grid
  <2>2. QED
    BY <1>1, <1>2, <2>1 DEF TypeOK
<1>4. FoundIsAnswered' /\ AcknowledgedIsSeen'
  BY <1>1, <1>2 DEF IInv, FoundIsAnswered, AcknowledgedIsSeen
<1>5. ChangeIsOnItsWay'
  BY <1>1 DEF ChangeIsOnItsWay
<1>6. QED
  BY <1>3, <1>4, <1>5 DEF IInv

\* A GET that ends leaves its events on display or on the list of the lost.
LEMMA GetEndsTypes ==
    ASSUME IInv, NEW k \in Slots, get' = [get EXCEPT ![k] = NoGet]
    PROVE  /\ get' \in [Slots -> Get] /\ get'[k] = NoGet
           /\ \A j \in Slots : j # k => get'[j] = get[j]
           /\ \A j \in Slots : get'[j].version <= version
           /\ FoundIsAnswered'
<1>1. NoGet \in Get /\ NoGet.at = "idle" /\ NoGet.found = {} /\ NoGet.version = 0
  BY DEF NoGet, Get
<1>2. /\ get \in [Slots -> Get] /\ 0 <= version
      /\ \A j \in Slots : get[j].version <= version
  BY DEF IInv, TypeOK
<1>3. /\ get' \in [Slots -> Get] /\ get'[k] = NoGet
      /\ \A j \in Slots : j # k => get'[j] = get[j]
  BY <1>1, <1>2
<1>4. \A j \in Slots : get'[j].version <= version
  BY <1>1, <1>2, <1>3
<1>5. FoundIsAnswered'
  BY <1>1, <1>3 DEF IInv, FoundIsAnswered
<1>6. QED
  BY <1>3, <1>4, <1>5

\* A response that is not older than the grid puts no change back.
LEMMA RenderIInv ==
    ASSUME IInv, NEW k \in Slots, Render(k)
    PROVE  IInv'
<1> DEFINE g == get[k]
           new == [version |-> g.version, listed |-> g.listed, events |-> g.found]
<1>1. /\ TypeOK /\ g \in Get /\ g.at = "answered" /\ g.version <= version
      /\ get' = [get EXCEPT ![k] = NoGet] /\ grid' = new
      /\ displayed' = displayed \cup g.found
      /\ overtaken' = (overtaken \/ g.version < grid.version)
      /\ UNCHANGED <<server, socket, pushed, cmd, own, elsewhere, lost, faults>>
  BY DEF IInv, TypeOK, Render
<1>2. /\ get' \in [Slots -> Get] /\ get'[k] = NoGet
      /\ \A j \in Slots : j # k => get'[j] = get[j]
      /\ \A j \in Slots : get'[j].version <= version
      /\ FoundIsAnswered'
  BY <1>1, GetEndsTypes
<1>3. /\ grid' \in Grid /\ grid'.version = g.version /\ grid'.events = g.found
      /\ g.found \subseteq Events
  BY <1>1 DEF Grid, Get
<1>4. overtaken' \in BOOLEAN
  BY <1>1
<1>5. TypeOK'
  BY <1>1, <1>2, <1>3, <1>4 DEF TypeOK, server
<1>6. AcknowledgedIsSeen'
  BY <1>1, <1>2 DEF IInv, AcknowledgedIsSeen, server
<1>7. ChangeIsOnItsWay'
  <2> SUFFICES ASSUME faults' = 0, ~overtaken'
               PROVE  \/ own <= g.version
                      \/ cmd \in {"added", "removed", "polling"}
                      \/ \E j \in Slots :
                           \/ get'[j].at = "sent"
                           \/ get'[j].at \in {"loaded", "answered"} /\ own <= get'[j].version
    BY <1>1, <1>3 DEF ChangeIsOnItsWay
  <2>1. /\ faults = 0 /\ ~overtaken /\ ~(g.version < grid.version)
        /\ g.version \in Nat /\ grid.version \in Nat /\ own \in Nat
    <3>1. ~overtaken /\ ~(g.version < grid.version)
      BY <1>1, Zenon
    <3>2. faults = 0
      BY <1>1
    <3>3. g.version \in Nat /\ grid.version \in Nat
      <4>1. g.version \in 0..MaxChanges
        BY <1>1 DEF Get
      <4>2. grid.version \in 0..MaxChanges
        BY <1>1 DEF TypeOK, Grid
      <4>3. QED
        BY <4>1, <4>2
    <3>4. own \in Nat
      BY <1>1 DEF TypeOK
    <3>5. QED
      BY <3>1, <3>2, <3>3, <3>4
  <2>2. CASE own <= grid.version
    <3>1. own <= g.version
      BY <2>1, <2>2
    <3>2. QED
      BY <3>1, Zenon
  <2>3. CASE \E j \in Slots : \/ get[j].at = "sent"
                              \/ get[j].at \in {"loaded", "answered"} /\ own <= get[j].version
    <3>1. PICK j \in Slots : \/ get[j].at = "sent"
                             \/ get[j].at \in {"loaded", "answered"} /\ own <= get[j].version
      BY <2>3
    <3>2. CASE j = k
      BY <1>1, <3>1, <3>2
    <3>3. CASE j # k
      BY <1>2, <3>1, <3>3
    <3>4. QED
      BY <3>2, <3>3
  <2>4. QED
    BY <2>1, <2>2, <2>3 DEF IInv, ChangeIsOnItsWay
<1>8. QED
  BY <1>2, <1>5, <1>6, <1>7 DEF IInv

\* What a failing GET had been answered with is lost on record.
LEMMA GetFailsIInv ==
    ASSUME IInv, NEW k \in Slots, GetFails(k)
    PROVE  IInv'
<1>1. /\ TypeOK /\ faults' = faults + 1 /\ faults' \in 0..MaxFaults /\ faults' # 0
      /\ get' = [get EXCEPT ![k] = NoGet] /\ lost' = lost \cup get[k].found
      /\ get[k].found \subseteq Events
      /\ UNCHANGED <<server, socket, pushed, cmd, grid, own, overtaken, displayed, elsewhere>>
  BY DEF IInv, TypeOK, GetFails, Fault, Get
<1>2. /\ get' \in [Slots -> Get] /\ get'[k] = NoGet
      /\ \A j \in Slots : j # k => get'[j] = get[j]
      /\ \A j \in Slots : get'[j].version <= version
      /\ FoundIsAnswered'
  BY <1>1, GetEndsTypes
<1>3. TypeOK'
  BY <1>1, <1>2 DEF TypeOK, server
<1>4. AcknowledgedIsSeen'
  BY <1>1, <1>2 DEF IInv, AcknowledgedIsSeen, server
<1>5. ChangeIsOnItsWay'
  BY <1>1 DEF ChangeIsOnItsWay
<1>6. QED
  BY <1>2, <1>3, <1>4, <1>5 DEF IInv

\* The socket breaks and comes back; the grid does not move.
LEMMA ConnectionIInv ==
    ASSUME IInv, Disconnect \/ Reconnect
    PROVE  IInv'
<1>1. /\ TypeOK /\ socket' \in {"new", "open", "closed"} /\ pushed' \subseteq Events
      /\ faults' \in 0..MaxFaults /\ faults' >= faults
      /\ UNCHANGED <<server, cmd, get, grid, history>>
  BY DEF IInv, TypeOK, Disconnect, Reconnect, Fault
<1>2. TypeOK'
  BY <1>1 DEF TypeOK, server, history
<1>3. QED
  BY <1>1, <1>2, PageUnchanged DEF IInv, TypeOK, server, history

\* Each action keeps it.
LEMMA NextIInv == IInv /\ [Next]_vars => IInv'
<1> SUFFICES ASSUME IInv, [Next]_vars PROVE IInv'
  OBVIOUS
<1>1. TypeOK
  BY DEF IInv
<1>2. CASE Poll \/ ChangeElsewhere \/ ShowElsewhere
  BY <1>2, PollIInv, ChangeElsewhereIInv, ShowElsewhereIInv
<1>3. ASSUME NEW e \in Events, NEW late \in SUBSET {User}, Record(e, late) PROVE IInv'
  BY <1>3, RecordIInv
<1>4. ASSUME NEW e \in Events, FanOut(e) PROVE IInv'
  BY <1>4, FanOutIInv
<1>5. ASSUME NEW e \in Events, OnMessage(e) PROVE IInv'
  BY <1>1, <1>5, RefreshIInv DEF OnMessage, TypeOK
<1>6. ASSUME NEW k \in Slots, Load(k) \/ Answer(k) \/ Render(k) \/ GetFails(k) PROVE IInv'
  BY <1>6, LoadIInv, AnswerIInv, RenderIInv, GetFailsIInv
<1>7. ASSUME NEW c \in {"adding", "removing", "polling"}, Command(c) PROVE IInv'
  BY <1>1, <1>7, CommandIInv DEF Command, TypeOK
<1>8. CASE Boot
  BY <1>1, <1>8, RefreshIInv DEF Boot, TypeOK
<1>9. CASE Serve
  BY <1>9, ServeIInv
<1>10. CASE Refuse \/ Added
  BY <1>1, <1>10, CommandIInv DEF Refuse, Added, TypeOK
<1>11. CASE Done
  BY <1>1, <1>11, RefreshIInv DEF Done, TypeOK
<1>12. CASE CommandFails
  <2>1. faults' \in 0..MaxFaults /\ faults' >= faults /\ faults' > 0
    BY <1>1, <1>12 DEF CommandFails, Fault, TypeOK
  <2>2. QED
    BY <1>12, <2>1, CommandIInv DEF CommandFails
<1>13. CASE Disconnect \/ Reconnect
  BY <1>13, ConnectionIInv
<1>14. CASE UNCHANGED vars
  BY <1>14 DEF vars, server, page, history, IInv, TypeOK, FoundIsAnswered,
     AcknowledgedIsSeen, ChangeIsOnItsWay
<1>15. QED
  BY <1>2, <1>3, <1>4, <1>5, <1>6, <1>7, <1>8, <1>9, <1>10, <1>11, <1>12, <1>13, <1>14
  DEF Next

\* So it holds throughout.
LEMMA InvariantIInv == Spec => []IInv
  BY InitIInv, NextIInv, PTL DEF Spec
-----------------------------------------------------------------------------
\* The server acknowledges an event only if some tab has shown it, is about to,
\* or would have, had its response come.
THEOREM WhatIsAcknowledgedIsSeen == Spec => []AcknowledgedIsSeen
<1>1. IInv => AcknowledgedIsSeen
  BY DEF IInv
<1>2. QED
  BY <1>1, InvariantIInv, PTL

\* A tab with nothing under way shows its own adds and removals, unless a
\* request failed or an older response was rendered last.
THEOREM OwnChangesAreShown == Spec => []OwnChangesShow
<1>1. IInv => OwnChangesShow
  BY DEF IInv, ChangeIsOnItsWay, OwnChangesShow, Quiet
<1>2. QED
  BY <1>1, InvariantIInv, PTL
-----------------------------------------------------------------------------
(* The page and the inbox behind it.                                        *)

\* Whatever tabs, polls and commands do to the server is a step of the inbox:
\* a page that loses responses and renders them out of order cannot make the
\* server break its promise.
LEMMA PageStepIsServers ==
    ASSUME IInv, [Next]_vars
    PROVE  [Server!Next]_(Server!inboxVars)
<1>1. ASSUME NEW e \in Events, NEW late \in SUBSET {User}, Record(e, late)
      PROVE  Server!Next
  BY <1>1 DEF Record, Server!Next
<1>2. ASSUME NEW k \in Slots, Answer(k)
      PROVE  Server!Next
  <2> DEFINE found == IF get[k].listed /\ usable THEN get[k].since \cup Pending ELSE {}
  <2>1. Server!Show(User, found)
    BY <1>2 DEF Answer
  <2>2. get[k] \in Get
    BY DEF IInv, TypeOK
  <2>3. found \in SUBSET Events
    BY <2>2 DEF Get, Pending, Server!Pending
  <2> HIDE DEF found
  <2>4. QED
    BY <2>1, <2>3 DEF Server!Next
<1>3. ASSUME Change
      PROVE  Server!Next
  BY <1>3 DEF Change, Server!Next
<1>4. CASE ChangeElsewhere \/ Serve
  BY <1>3, <1>4 DEF ChangeElsewhere, Serve
<1>5. CASE ShowElsewhere
  <2>1. Pending \in SUBSET Events
    BY DEF Pending, Server!Pending
  <2>2. QED
    BY <1>5, <2>1 DEF ShowElsewhere, Server!Next
<1>6. ASSUME UNCHANGED <<watching, inbox>>
      PROVE  UNCHANGED Server!inboxVars
  BY <1>6 DEF Server!inboxVars
<1>7. Poll => UNCHANGED <<watching, inbox>>
  BY DEF Poll
<1>8. ASSUME NEW e \in Events, FanOut(e) \/ OnMessage(e)
      PROVE  UNCHANGED <<watching, inbox>>
  BY <1>8 DEF FanOut, OnMessage, server
<1>9. ASSUME NEW k \in Slots, Load(k) \/ Render(k) \/ GetFails(k)
      PROVE  UNCHANGED <<watching, inbox>>
  BY <1>9 DEF Load, Render, GetFails, server
<1>10. ASSUME NEW c \in {"adding", "removing", "polling"}, Command(c)
       PROVE  UNCHANGED <<watching, inbox>>
  BY <1>10 DEF Command, server
<1>11. CASE \/ Boot \/ Refuse \/ Added \/ Done
            \/ CommandFails \/ Disconnect \/ Reconnect \/ UNCHANGED vars
  BY <1>6, <1>11
  DEF Boot, Refuse, Added, Done, CommandFails, Disconnect, Reconnect, vars, server
<1>12. QED
  BY <1>1, <1>2, <1>4, <1>5, <1>6, <1>7, <1>8, <1>9, <1>10, <1>11 DEF Next

\* The server that module Page puts behind the tab behaves as an inbox of one
\* user, which TheFeedServesEachUser shows the watchlist to be.
THEOREM ThePageLeavesTheInboxIntact == Spec => Server!Spec
<1>1. Init => Server!Init
  BY DEF Init
<1>2. IInv /\ [Next]_vars => [Server!Next]_(Server!inboxVars)
  BY PageStepIsServers
<1>3. QED
  BY <1>1, <1>2, InvariantIInv, PTL DEF Spec, Server!Spec

\* One step of the inbox: what is pending stays, is shown, or its user leaves.
LEMMA ServerDropsNothing ==
    ASSUME TypeOK, [Server!Next]_(Server!inboxVars)
    PROVE  Server!DropsNothing
<1> USE DEF Server!Pending, Server!DropsNothing, TypeOK
<1>1. ASSUME Server!Watch(User) PROVE Server!DropsNothing
  BY <1>1 DEF Server!Watch
<1>2. ASSUME Server!Leave(User) PROVE Server!DropsNothing
  BY <1>2 DEF Server!Leave
<1>3. ASSUME NEW S \in SUBSET Events, Server!Show(User, S) PROVE Server!DropsNothing
  BY <1>3 DEF Server!Show
<1>4. ASSUME NEW e \in Events, NEW S \in SUBSET {User}, Server!Record(e, S)
      PROVE  Server!DropsNothing
  BY <1>4 DEF Server!Record
<1>5. CASE UNCHANGED Server!inboxVars
  BY <1>5 DEF Server!inboxVars
<1>6. QED
  BY <1>1, <1>2, <1>3, <1>4, <1>5 DEF Server!Next

\* From the commit to the screen: an event that leaves the pending ones of a user
\* who keeps watching is on display in this tab or in another one, in a response
\* on its way, or in one that never came.  No overlap of requests, pushes and
\* tabs lets one slip by.
NoneSlipsBy ==
    [][ \A e \in Pending : User \in watching' =>
          \/ inbox'[User][e] = "pending"
          \/ e \in displayed' \cup elsewhere' \cup lost'
          \/ \E k \in Slots : e \in get'[k].found
      ]_vars

\* No event slips by between the server's checkpoint and the page.
THEOREM NoEventSlipsBy == Spec => NoneSlipsBy
<1>1. ASSUME IInv, IInv', [Next]_vars, NEW e \in Pending, User \in watching'
      PROVE  \/ inbox'[User][e] = "pending"
             \/ e \in displayed' \cup elsewhere' \cup lost'
             \/ \E k \in Slots : e \in get'[k].found
  <2>1. Server!DropsNothing
    BY <1>1, PageStepIsServers, ServerDropsNothing DEF IInv
  <2>2. inbox'[User][e] \in {"pending", "shown"}
    BY <1>1, <2>1 DEF Server!DropsNothing, Pending
  <2>3. AcknowledgedIsSeen' /\ e \in Events
    BY <1>1 DEF IInv, Pending, Server!Pending
  <2>4. QED
    BY <2>2, <2>3 DEF AcknowledgedIsSeen
<1> DEFINE A == \A e \in Pending : User \in watching' =>
                   \/ inbox'[User][e] = "pending"
                   \/ e \in displayed' \cup elsewhere' \cup lost'
                   \/ \E k \in Slots : e \in get'[k].found
<1>2. IInv /\ IInv' /\ [Next]_vars => A
  BY <1>1
<1>3. QED
  BY <1>2, InvariantIInv, PTL DEF Spec, NoneSlipsBy
=============================================================================
