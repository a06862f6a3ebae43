-------------------------------- MODULE Page --------------------------------
(***************************************************************************)
(* The browser page (static/index.html) and the server together, for one   *)
(* tab and one symbol.  The server is the Inbox that the watchlist         *)
(* implements, plus the fan-out of notifications; the tab sends commands,  *)
(* receives pushes, and replaces its grid with whatever response comes:    *)
(* its requests overlap and are answered in any order.  The user's other   *)
(* tabs use the same list and the same checkpoint meanwhile.               *)
(*                                                                         *)
(* A render is one step: the awaits in it only wait for work of the page.  *)
(***************************************************************************)
EXTENDS Integers, FiniteSetsExt

CONSTANTS
    User,
    Events,
    MaxGets,    \* bound on the GETs of the tab that overlap
    MaxChanges, \* bound on adds and removals
    MaxFaults   \* bound on requests and connections that fail

ASSUME BoundAssumption ==
    MaxGets \in Nat \ {0} /\ MaxChanges \in Nat /\ MaxFaults \in Nat

VARIABLES
    watching, inbox,    \* the server: see Inbox
    usable,     \* is the latest quote fit to be shown?
    unsent,     \* the events committed and not fanned out yet
    version,    \* the adds and removals so far
    socket,     \* the tab's WebSocket: "new", "open" or "closed"
    pushed,     \* the notifications on their way to the tab
    cmd,        \* the command the tab waits for
    get,        \* the GETs of the tab: [at, version, listed, since, found]
    grid,       \* [version, listed, events] as last rendered
    own,        \* history: the version that the tab's last change led to
    overtaken,  \* history: has a response been rendered after a later one?
    displayed,  \* history: the events that the tab has shown
    elsewhere,  \* history: the events that other tabs were answered with
    lost,       \* history: the events in responses that never came
    faults

server == <<watching, inbox, usable, unsent, version>>
page == <<socket, pushed, cmd, get, grid>>
history == <<own, overtaken, displayed, elsewhere, lost>>
vars == <<server, page, history, faults>>

Server == INSTANCE Inbox WITH Users <- {User}
Pending == Server!Pending(User)

Slots == 1..MaxGets
NoGet == [at |-> "idle", version |-> 0, listed |-> FALSE, since |-> {}, found |-> {}]

Init ==
    /\ Server!Init
    /\ usable = FALSE /\ unsent = {} /\ version = 0
    /\ socket = "new" /\ pushed = {} /\ cmd = "none"
    /\ get = [k \in Slots |-> NoGet]
    /\ grid = [version |-> 0, listed |-> FALSE, events |-> {}]
    /\ own = 0 /\ overtaken = FALSE
    /\ displayed = {} /\ elsewhere = {} /\ lost = {}
    /\ faults = 0

Free == {k \in Slots : get[k].at = "idle"}

\* refresh() sends GET /api/watchlist.
Refresh ==
    /\ Free # {}
    /\ get' = [get EXCEPT ![Min(Free)].at = "sent"]

-----------------------------------------------------------------------------
(* The server *)

\* A poll resolves a quote, good or bad, and finds no event.
Poll ==
    /\ usable' \in BOOLEAN \ {usable}
    /\ UNCHANGED <<watching, inbox, unsent, version, page, history, faults>>

\* A poll commits an event; late if a GET of the user has just scanned.
Record(e, late) ==
    /\ Server!Record(e, late)
    /\ usable' = TRUE
    /\ unsent' = unsent \cup {e}
    /\ UNCHANGED <<version, page, history, faults>>

\* ... and notifies the watchers' tabs.
FanOut(e) ==
    /\ e \in unsent
    /\ unsent' = unsent \ {e}
    /\ pushed' = IF User \in watching /\ socket = "open" THEN pushed \cup {e} ELSE pushed
    /\ UNCHANGED <<watching, inbox, usable, version, socket, cmd, get, grid, history,
                   faults>>

\* get_watchlist loads the row ...
Load(k) ==
    /\ get[k].at = "sent"
    /\ get' = [get EXCEPT ![k] =
           [at |-> "loaded", version |-> version, listed |-> User \in watching,
            since |-> Pending, found |-> {}]]
    /\ UNCHANGED <<server, socket, pushed, cmd, grid, history, faults>>

\* Mutant of Answer: the checkpoint is taken past what the response holds.
AnswerAcknowledgesAll(k) ==
    LET found == IF get[k].listed /\ usable THEN get[k].since ELSE {}
    IN  /\ get[k].at = "loaded"
        /\ Server!Show(User, Pending)
        /\ get' = [get EXCEPT ![k].at = "answered", ![k].found = found]
        /\ UNCHANGED <<usable, unsent, version, socket, pushed, cmd, grid, history,
                       faults>>

\* ... and shows the events after the checkpoint it loaded, those that another
\* GET has shown meanwhile included.
Answer(k) ==
    LET found == IF get[k].listed /\ usable THEN get[k].since \cup Pending ELSE {}
    IN  /\ get[k].at = "loaded"
        /\ Server!Show(User, found)
        /\ get' = [get EXCEPT ![k].at = "answered", ![k].found = found]
        /\ UNCHANGED <<usable, unsent, version, socket, pushed, cmd, grid, history,
                       faults>>

\* POST /api/watchlist and DELETE /api/watchlist/{item_id} that succeed.
Change ==
    /\ version < MaxChanges
    /\ version' = version + 1
    /\ \/ User \notin watching /\ Server!Watch(User)
       \/ Server!Leave(User)

\* The other tabs of the user: they change the list, and are shown what is
\* pending.
ChangeElsewhere ==
    /\ Change
    /\ UNCHANGED <<usable, unsent, page, history, faults>>

ShowElsewhere ==
    /\ usable /\ Pending # {}
    /\ Server!Show(User, Pending)
    /\ elsewhere' = elsewhere \cup Pending
    /\ UNCHANGED <<usable, unsent, version, page, own, overtaken, displayed, lost,
                   faults>>

-----------------------------------------------------------------------------
(* The tab *)

\* init: the socket, then a first refresh.
Boot ==
    /\ socket = "new"
    /\ socket' = "open"
    /\ Refresh
    /\ UNCHANGED <<server, pushed, cmd, grid, history, faults>>

\* The user adds or removes the symbol, or asks for a fresh price.
Command(c) ==
    /\ socket # "new" /\ cmd = "none"
    /\ c \in {"removing", "polling"} => grid.listed
    /\ cmd' = c
    /\ UNCHANGED <<server, socket, pushed, get, grid, history, faults>>

\* The server does it.
Serve ==
    \/ /\ cmd = "adding" /\ User \notin watching /\ cmd' = "added"
       /\ Change /\ own' = version'
       /\ UNCHANGED <<usable, unsent, socket, pushed, get, grid, overtaken, displayed,
                      elsewhere, lost, faults>>
    \/ /\ cmd = "removing" /\ User \in watching /\ cmd' = "removed"
       /\ Change /\ own' = version'
       /\ UNCHANGED <<usable, unsent, socket, pushed, get, grid, overtaken, displayed,
                      elsewhere, lost, faults>>

\* Or refuses: 409 for what is on the list, 404 for what is not.
Refuse ==
    /\ \/ cmd = "adding" /\ User \in watching
       \/ cmd = "removing" /\ User \notin watching
    /\ cmd' = "none"
    /\ UNCHANGED <<server, socket, pushed, get, grid, history, faults>>

\* addSymbol awaits the POST, then polls the symbol.
Added ==
    /\ cmd = "added" /\ cmd' = "polling"
    /\ UNCHANGED <<server, socket, pushed, get, grid, history, faults>>

\* Mutant of Done: removeItem does not refresh.
DoneSilently ==
    /\ cmd \in {"polling", "removed"} /\ cmd' = "none"
    /\ IF cmd = "polling" THEN Refresh ELSE UNCHANGED get
    /\ UNCHANGED <<server, socket, pushed, grid, history, faults>>

\* pollSymbol and removeItem await their request and refresh.  The poll of the
\* former is like any other.
Done ==
    /\ cmd \in {"polling", "removed"} /\ cmd' = "none"
    /\ Refresh
    /\ UNCHANGED <<server, socket, pushed, grid, history, faults>>

\* Mutant of OnMessage: a toast is all.
OnMessageToasts(e) ==
    /\ socket = "open" /\ e \in pushed
    /\ pushed' = pushed \ {e}
    /\ UNCHANGED <<server, socket, cmd, get, grid, history, faults>>

\* onmessage: a toast, and a refresh.
OnMessage(e) ==
    /\ socket = "open" /\ e \in pushed
    /\ pushed' = pushed \ {e}
    /\ Refresh
    /\ UNCHANGED <<server, socket, cmd, grid, history, faults>>

\* A response replaces the grid, whatever was requested or rendered since.
Render(k) ==
    LET g == get[k]
    IN  /\ g.at = "answered"
        /\ grid' = [version |-> g.version, listed |-> g.listed, events |-> g.found]
        /\ get' = [get EXCEPT ![k] = NoGet]
        /\ displayed' = displayed \cup g.found
        /\ overtaken' = (overtaken \/ g.version < grid.version)
        /\ UNCHANGED <<server, socket, pushed, cmd, own, elsewhere, lost, faults>>

Fault ==
    /\ faults < MaxFaults
    /\ faults' = faults + 1

\* A GET fails, or its response does: the page only says so.
GetFails(k) ==
    /\ get[k].at # "idle"
    /\ Fault
    /\ get' = [get EXCEPT ![k] = NoGet]
    /\ lost' = lost \cup get[k].found
    /\ UNCHANGED <<server, socket, pushed, cmd, grid, own, overtaken, displayed, elsewhere>>

\* So does a command; what the server did stays done.
CommandFails ==
    /\ cmd # "none"
    /\ Fault
    /\ cmd' = "none"
    /\ UNCHANGED <<server, socket, pushed, get, grid, history>>

\* The connection breaks, and the notifications on it are lost ...
Disconnect ==
    /\ socket = "open"
    /\ Fault
    /\ socket' = "closed" /\ pushed' = {}
    /\ UNCHANGED <<server, cmd, get, grid, history>>

\* ... onclose connects again four seconds later, without a refresh.
Reconnect ==
    /\ socket = "closed"
    /\ socket' = "open"
    /\ UNCHANGED <<server, pushed, cmd, get, grid, history, faults>>

Next ==
    \/ Poll
    \/ \E e \in Events :
         \/ \E late \in SUBSET {User} : Record(e, late)
         \/ FanOut(e) \/ OnMessage(e)
    \/ \E k \in Slots : Load(k) \/ Answer(k) \/ Render(k) \/ GetFails(k)
    \/ ChangeElsewhere \/ ShowElsewhere
    \/ \E c \in {"adding", "removing", "polling"} : Command(c)
    \/ Boot \/ Serve \/ Refuse \/ Added \/ Done
    \/ CommandFails \/ Disconnect \/ Reconnect

Spec == Init /\ [][Next]_vars

\* Server and page get on with what was asked of them; users and quotes do as
\* they like.
Fairness ==
    /\ \A e \in Events : WF_vars(OnMessage(e))
    /\ \A k \in Slots : WF_vars(Load(k)) /\ WF_vars(Answer(k)) /\ WF_vars(Render(k))

FairSpec == Spec /\ Fairness
-----------------------------------------------------------------------------
(* Properties *)

Standing == {"none", "pending", "shown", "excused"}

Get == [at : {"idle", "sent", "loaded", "answered"}, version : 0..MaxChanges,
        listed : BOOLEAN, since : SUBSET Events, found : SUBSET Events]

Grid == [version : 0..MaxChanges, listed : BOOLEAN, events : SUBSET Events]

TypeOK ==
    /\ watching \subseteq {User} /\ inbox \in [{User} -> [Events -> Standing]]
    /\ usable \in BOOLEAN /\ unsent \cup pushed \subseteq Events
    /\ version \in 0..MaxChanges /\ own \in 0..version
    /\ socket \in {"new", "open", "closed"}
    /\ cmd \in {"none", "adding", "added", "removing", "removed", "polling"}
    /\ get \in [Slots -> Get] /\ \A k \in Slots : get[k].version <= version
    /\ grid \in Grid /\ grid.version <= version /\ grid.events \subseteq displayed
    /\ displayed \cup elsewhere \cup lost \subseteq Events
    /\ overtaken \in BOOLEAN /\ faults \in 0..MaxFaults

\* watchlist.py:225, "last_seen_at records what the user has SEEN": whatever
\* requests overlap, an event is acknowledged only if some tab has shown it or
\* is about to, or would have, had its response come.
AcknowledgedIsSeen ==
    \A e \in Events : inbox[User][e] = "shown" =>
        \/ e \in displayed \cup elsewhere \cup lost
        \/ \E k \in Slots : e \in get[k].found

Quiet == cmd = "none" /\ \A k \in Slots : get[k].at = "idle"

\* A tab with nothing under way shows what its own user's adds and removals
\* led to, however pushes and other tabs refresh meanwhile; unless a request
\* failed, or an older response was rendered last.
OwnChangesShow == Quiet /\ faults = 0 /\ ~overtaken => own <= grid.version

\* A notification that reaches the tab leads to a grid that shows the event,
\* here or in another tab; unless a request failed, the symbol was taken off
\* the list, the event was committed too late for a checkpoint, or a later
\* quote is unfit to be shown.
PushIsShown ==
    \A e \in Events :
        [](e \in pushed =>
           <>(\/ e \in displayed \cup elsewhere \/ inbox[User][e] = "excused"
              \/ faults > 0 \/ ~usable \/ User \notin watching))
=============================================================================
