------------------------ MODULE NotificationsProofs ------------------------
(***************************************************************************)
(* The registry and the fan-out of Notifications, proved for every set of  *)
(* users, sockets and events, every choice of watchers, and any number of  *)
(* fan-outs beside each other.                                             *)
(***************************************************************************)
EXTENDS Notifications, TLAPS

(* The inductive invariant                                                  *)

\* The registry and the fan-outs hold only sockets that were registered ...
Started(s) == endpoint[s] \in {"serving", "ended"}

HeldHaveStarted ==
    /\ \A u \in Users : \A s \in Connections(u) : Started(s)
    /\ \A e \in Events :
         \A s \in fanout[e].conns \cup fanout[e].dead \cup owed[e] : Started(s)

\* ... and what a fan-out calls dead stays so.
DeadStayDead == \A e \in Events : \A s \in fanout[e].dead : ~Live(s)

\* A fan-out that is not under way holds nothing.
HoldsOnlyWhenSending ==
    \A e \in Events :
        /\ fanout[e].at # "sending" => fanout[e].conns = {} /\ fanout[e].dead = {}
        /\ fanout[e].at \notin {"between", "sending"} => fanout[e].todo = {}
        /\ fanout[e].at \in {"detected", "committed", "lost"} => owed[e] = {}

\* One that is keeps account of every socket it owes the message.
OwedIsAccountedFor ==
    \A e \in Events : \A s \in owed[e] :
        \/ s \in reached[e]
        \/ Owner[s] \in fanout[e].todo
        \/ s \in fanout[e].conns \cup fanout[e].dead
        \/ s \notin Connections(Owner[s])

IInv ==
    /\ TypeOK
    /\ LiveStaysRegistered
    /\ HeldHaveStarted
    /\ DeadStayDead
    /\ HoldsOnlyWhenSending
    /\ OwedIsAccountedFor
-----------------------------------------------------------------------------

USE OwnerAssumption, WatchersAssumption

RegistryType(r) ==
    /\ DOMAIN r \subseteq Users
    /\ \A u \in DOMAIN r :
         r[u] # {} /\ \A s \in r[u] : s \in Sockets /\ Owner[s] = u

\* What disconnect() leaves to each user.
LEMMA ConnectionsWithout ==
    ASSUME RegistryType(registry), NEW S, registry' = Without(S)
    PROVE  /\ RegistryType(registry')
           /\ \A u : Connections(u)' = Connections(u) \ S
<1>1. /\ DOMAIN registry' = {v \in DOMAIN registry : ~(registry[v] \subseteq S)}
      /\ \A u \in DOMAIN registry' : registry'[u] = registry[u] \ S
  BY DEF Without
<1>2. RegistryType(registry')
  BY <1>1 DEF RegistryType
<1>3. ASSUME NEW u PROVE Connections(u)' = Connections(u) \ S
  <2>1. CASE u \in DOMAIN registry'
    BY <1>1, <2>1 DEF Connections
  <2>2. CASE u \in DOMAIN registry /\ u \notin DOMAIN registry'
    <3>1. registry[u] \ S = {}
      BY <1>1, <2>2
    <3>2. QED
      BY <2>2, <3>1 DEF Connections
  <2>3. CASE u \notin DOMAIN registry
    BY <1>1, <2>3 DEF Connections
  <2>4. QED
    BY <2>1, <2>2, <2>3
<1>4. QED
  BY <1>2, <1>3

\* What connect() adds.
LEMMA ConnectionsRegister ==
    ASSUME RegistryType(registry), NEW s \in Sockets, Register(s)
    PROVE  /\ RegistryType(registry')
           /\ \A u : Connections(u)' =
                IF u = Owner[s] THEN Connections(u) \cup {s} ELSE Connections(u)
<1>1. /\ DOMAIN registry' = DOMAIN registry \cup {Owner[s]}
      /\ \A u \in DOMAIN registry' : registry'[u] =
           IF u = Owner[s] THEN Connections(u) \cup {s} ELSE registry[u]
  BY DEF Register
<1>2. Owner[s] \in Users
  OBVIOUS
<1>3. \A t \in Connections(Owner[s]) : t \in Sockets /\ Owner[t] = Owner[s]
  BY DEF RegistryType, Connections
<1>4. RegistryType(registry')
  <2>1. DOMAIN registry' \subseteq Users
    BY <1>1, <1>2 DEF RegistryType
  <2>2. ASSUME NEW u \in DOMAIN registry'
        PROVE  registry'[u] # {} /\ \A t \in registry'[u] : t \in Sockets /\ Owner[t] = u
    <3>1. CASE u = Owner[s]
      <4>1. registry'[u] = Connections(u) \cup {s}
        BY <1>1, <3>1
      <4>2. QED
        BY <1>3, <3>1, <4>1
    <3>2. CASE u # Owner[s]
      <4>1. u \in DOMAIN registry /\ registry'[u] = registry[u]
        BY <1>1, <3>2
      <4>2. QED
        BY <4>1 DEF RegistryType
    <3>3. QED
      BY <3>1, <3>2
  <2>3. QED
    BY <2>1, <2>2 DEF RegistryType
<1>5. QED
  BY <1>1, <1>4 DEF Connections

\* The sockets a user has open are sockets of that user.
LEMMA ConnectionsOwned ==
    ASSUME TypeOK, NEW u, NEW s \in Connections(u)
    PROVE  u \in Users /\ s \in Sockets /\ Owner[s] = u
BY DEF TypeOK, Connections

\* The invariant holds at the start.
LEMMA InitIInv == Init => IInv
<1> SUFFICES ASSUME Init PROVE IInv
  OBVIOUS
<1>1. \A u : Connections(u) = {}
  BY DEF Init, Connections
<1>2. TypeOK
  BY DEF Init, TypeOK, NoFanout, Fanout
<1>3. \A s \in Sockets : ~Live(s)
  BY DEF Init, Live
<1>4. \A e \in Events : fanout[e] = NoFanout /\ owed[e] = {}
  BY DEF Init
<1>5. QED
  BY <1>1, <1>2, <1>3, <1>4 DEF IInv, LiveStaysRegistered, HeldHaveStarted,
     DeadStayDead, HoldsOnlyWhenSending, OwedIsAccountedFor, NoFanout

\* What happens to one socket, as long as the registry stays and nobody comes
\* alive who was not.
LEMMA SocketIInv ==
    ASSUME IInv, TypeOK', UNCHANGED <<registry, fanout, reached, owed>>,
           \A s \in Sockets : (Started(s) => Started(s)') /\ (Live(s)' => Live(s))
    PROVE  IInv'
<1>1. \A u : Connections(u)' = Connections(u)
  BY DEF Connections
<1>2. \A u : \A s \in Connections(u) : s \in Sockets
  BY ConnectionsOwned DEF IInv
<1>3. \A e \in Events :
        /\ fanout[e].conns \cup fanout[e].dead \subseteq Sockets
        /\ owed[e] \subseteq Sockets
  BY DEF IInv, TypeOK, Fanout
<1>4. LiveStaysRegistered'
  BY <1>1 DEF IInv, LiveStaysRegistered
<1>5. HeldHaveStarted'
  BY <1>1, <1>2, <1>3 DEF IInv, HeldHaveStarted
<1>6. DeadStayDead'
  BY <1>3 DEF IInv, DeadStayDead
<1>7. HoldsOnlyWhenSending'
  BY DEF IInv, HoldsOnlyWhenSending
<1>8. OwedIsAccountedFor'
  BY <1>1 DEF IInv, OwedIsAccountedFor
<1>9. QED
  BY <1>4, <1>5, <1>6, <1>7, <1>8 DEF IInv

\* What the browser does to its socket leaves registry and fan-outs alone.
LEMMA BrowserIInv ==
    ASSUME IInv, NEW s \in Sockets,
           Accept(s) \/ Stall(s) \/ Resume(s) \/ PeerLeaves(s) \/ EndpointFails(s)
    PROVE  IInv'
<1>1. TypeOK'
  BY DEF IInv, TypeOK, Accept, Stall, Resume, PeerLeaves, EndpointFails
<1>2. UNCHANGED <<registry, fanout, reached, owed>>
  BY DEF Accept, Stall, Resume, PeerLeaves, EndpointFails
<1>3. ASSUME NEW t \in Sockets
      PROVE  (Started(t) => Started(t)') /\ (Live(t)' => Live(t))
  BY DEF IInv, TypeOK, Accept, Stall, Resume, PeerLeaves, EndpointFails,
     Started, Live
<1>4. QED
  BY <1>1, <1>2, <1>3, SocketIInv

\* A socket that is registered is new to every fan-out: none owes it anything.
LEMMA RegisterIInv ==
    ASSUME IInv, NEW s \in Sockets, Register(s)
    PROVE  IInv'
<1>1. RegistryType(registry) /\ endpoint[s] = "accepted" /\ ~Started(s)
  BY DEF IInv, TypeOK, RegistryType, Register, Started
<1>2. /\ RegistryType(registry')
      /\ \A u : Connections(u)' =
           IF u = Owner[s] THEN Connections(u) \cup {s} ELSE Connections(u)
  BY <1>1, ConnectionsRegister
<1>3. /\ endpoint' = [endpoint EXCEPT ![s] = "serving"]
      /\ UNCHANGED <<peer, fanout, reached, owed>>
  BY DEF Register
<1>4. TypeOK'
  BY <1>2, <1>3 DEF IInv, TypeOK, RegistryType
<1>5. \A t \in Sockets : Started(t)' <=> Started(t) \/ t = s
  BY <1>3 DEF IInv, TypeOK, Started
<1>6. \A t \in Sockets : t # s => (Live(t)' <=> Live(t))
  BY <1>3 DEF IInv, TypeOK, Live
<1>7. LiveStaysRegistered'
  BY <1>2, <1>6 DEF IInv, LiveStaysRegistered
<1>8. HeldHaveStarted'
  <2>1. \A u : \A t \in Connections(u) : t \in Sockets
    BY ConnectionsOwned DEF IInv
  <2>2. \A u \in Users : \A t \in Connections(u)' : Started(t)'
    BY <1>2, <1>5, <2>1 DEF IInv, HeldHaveStarted
  <2>3. \A e \in Events :
          \A t \in fanout'[e].conns \cup fanout'[e].dead \cup owed'[e] : Started(t)'
    BY <1>3, <1>5 DEF IInv, TypeOK, Fanout, HeldHaveStarted
  <2>4. QED
    BY <2>2, <2>3 DEF HeldHaveStarted
<1>9. DeadStayDead'
  BY <1>1, <1>3, <1>6
  DEF IInv, TypeOK, Fanout, DeadStayDead, HeldHaveStarted
<1>10. HoldsOnlyWhenSending'
  BY <1>3 DEF IInv, HoldsOnlyWhenSending
<1>11. OwedIsAccountedFor'
  BY <1>1, <1>2, <1>3 DEF IInv, OwedIsAccountedFor, HeldHaveStarted
<1>12. QED
  BY <1>4, <1>7, <1>8, <1>9, <1>10, <1>11 DEF IInv

\* The endpoint takes its own socket out, and nobody else's.
LEMMA EndpointEndsIInv ==
    ASSUME IInv, NEW s \in Sockets, EndpointEnds(s)
    PROVE  IInv'
<1>1. RegistryType(registry) /\ registry' = Without({s}) /\ Started(s) /\ ~Live(s)
  BY DEF IInv, TypeOK, RegistryType, EndpointEnds, Started, Live
<1>2. /\ RegistryType(registry')
      /\ \A u : Connections(u)' = Connections(u) \ {s}
  BY <1>1, ConnectionsWithout
<1>3. /\ endpoint' = [endpoint EXCEPT ![s] = "ended"]
      /\ UNCHANGED <<peer, fanout, reached, owed>>
  BY DEF EndpointEnds
<1>4. TypeOK'
  BY <1>2, <1>3 DEF IInv, TypeOK, RegistryType
<1>5. \A t \in Sockets : (Started(t) => Started(t)') /\ (Live(t)' => Live(t) /\ t # s)
  BY <1>3 DEF IInv, TypeOK, Started, Live
<1>6. LiveStaysRegistered'
  BY <1>2, <1>5 DEF IInv, LiveStaysRegistered
<1>7. HeldHaveStarted'
  <2>1. \A u : \A t \in Connections(u) : t \in Sockets
    BY ConnectionsOwned DEF IInv
  <2>2. QED
    BY <1>2, <1>3, <1>5, <2>1 DEF IInv, TypeOK, Fanout, HeldHaveStarted
<1>8. DeadStayDead'
  BY <1>3, <1>5 DEF IInv, TypeOK, Fanout, DeadStayDead
<1>9. HoldsOnlyWhenSending'
  BY <1>3 DEF IInv, HoldsOnlyWhenSending
<1>10. OwedIsAccountedFor'
  BY <1>2, <1>3 DEF IInv, OwedIsAccountedFor
<1>11. QED
  BY <1>4, <1>6, <1>7, <1>8, <1>9, <1>10 DEF IInv

\* A step of fan-out e that leaves sockets, registry and the other fan-outs
\* alone: what is left to show is about e.
LEMMA FanoutIInv ==
    ASSUME IInv, TypeOK', NEW e \in Events, UNCHANGED <<registry, endpoint, peer>>,
           \A d \in Events \ {e} : /\ fanout'[d] = fanout[d]
                                   /\ reached'[d] = reached[d] /\ owed'[d] = owed[d],
           \A s \in fanout'[e].conns \cup fanout'[e].dead \cup owed'[e] : Started(s),
           \A s \in fanout'[e].dead : ~Live(s),
           /\ fanout'[e].at # "sending" => fanout'[e].conns = {} /\ fanout'[e].dead = {}
           /\ fanout'[e].at \notin {"between", "sending"} => fanout'[e].todo = {}
           /\ fanout'[e].at \in {"detected", "committed", "lost"} => owed'[e] = {},
           \A s \in owed'[e] : \/ s \in reached'[e]
                               \/ Owner[s] \in fanout'[e].todo
                               \/ s \in fanout'[e].conns \cup fanout'[e].dead
                               \/ s \notin Connections(Owner[s])
    PROVE  IInv'
<1>1. /\ \A u : Connections(u)' = Connections(u)
      /\ \A s : (Started(s)' <=> Started(s)) /\ (Live(s)' <=> Live(s))
  BY DEF Connections, Started, Live
<1>2. LiveStaysRegistered'
  BY <1>1 DEF IInv, LiveStaysRegistered
<1>3. HeldHaveStarted'
  <2>1. \A u \in Users : \A s \in Connections(u)' : Started(s)'
    BY <1>1 DEF IInv, HeldHaveStarted
  <2>2. ASSUME NEW d \in Events
        PROVE  \A s \in fanout'[d].conns \cup fanout'[d].dead \cup owed'[d] : Started(s)'
    BY <1>1 DEF IInv, HeldHaveStarted
  <2>3. QED
    BY <2>1, <2>2 DEF HeldHaveStarted
<1>4. DeadStayDead'
  BY <1>1 DEF IInv, DeadStayDead
<1>5. HoldsOnlyWhenSending'
  BY DEF IInv, HoldsOnlyWhenSending
<1>6. OwedIsAccountedFor'
  BY <1>1 DEF IInv, OwedIsAccountedFor
<1>7. QED
  BY <1>2, <1>3, <1>4, <1>5, <1>6 DEF IInv

\* Replacing one fan-out by another keeps the type.
LEMMA FanoutType ==
    ASSUME TypeOK, NEW e \in Events, NEW f \in Fanout,
           fanout' = [fanout EXCEPT ![e] = f],
           UNCHANGED <<registry, endpoint, peer>>,
           reached' \in [Events -> SUBSET Sockets],
           owed' \in [Events -> SUBSET Sockets]
    PROVE  /\ TypeOK'
           /\ fanout'[e] = f
           /\ \A d \in Events \ {e} : fanout'[d] = fanout[d]
BY DEF TypeOK

\* From the detection to the reading of the watchers.
LEMMA NotifyIInv ==
    ASSUME IInv, NEW e \in Events,
           Commit(e) \/ \E W \in Watchers : Notify(e, W)
    PROVE  IInv'
<1>1. fanout[e] \in Fanout /\ TypeOK
  BY DEF IInv, TypeOK
<1>2. CASE Commit(e)
  <2> DEFINE f == [fanout[e] EXCEPT !.at = "committed"]
  <2>1. /\ fanout[e].conns = {} /\ fanout[e].dead = {}
        /\ fanout[e].todo = {} /\ owed[e] = {}
        /\ UNCHANGED <<registry, endpoint, peer, reached, owed>>
    BY <1>2 DEF IInv, HoldsOnlyWhenSending, Commit
  <2>2. /\ f \in Fanout
        /\ f.at = "committed" /\ f.todo = {} /\ f.conns = {} /\ f.dead = {}
    BY <1>1, <2>1 DEF Fanout
  <2>3. fanout' = [fanout EXCEPT ![e] = f]
    BY <1>2 DEF Commit
  <2> HIDE DEF f
  <2>4. /\ TypeOK' /\ fanout'[e] = f
        /\ \A d \in Events \ {e} : fanout'[d] = fanout[d]
    BY <1>1, <2>1, <2>2, <2>3, FanoutType DEF TypeOK
  <2>5. QED
    BY <2>1, <2>2, <2>4, FanoutIInv
<1>3. ASSUME NEW W \in Watchers, Notify(e, W)
      PROVE  IInv'
  <2> DEFINE f == [fanout[e] EXCEPT !.at = "between", !.todo = W]
             sockets == UNION {Connections(u) : u \in W}
  <2>1. \A s \in sockets : Owner[s] \in W /\ s \in Sockets /\ Started(s)
    BY ConnectionsOwned DEF IInv, HeldHaveStarted
  <2>2. /\ fanout' = [fanout EXCEPT ![e].at = "between", ![e].todo = W]
        /\ owed' = [owed EXCEPT ![e] = sockets]
        /\ UNCHANGED <<registry, endpoint, peer, reached>>
        /\ fanout[e].conns = {} /\ fanout[e].dead = {}
    BY <1>3 DEF IInv, HoldsOnlyWhenSending, Notify
  <2> HIDE DEF sockets
  <2>3. /\ f \in Fanout
        /\ f.at = "between" /\ f.todo = W /\ f.conns = {} /\ f.dead = {}
    BY <1>1, <2>2 DEF Fanout
  <2>4. fanout' = [fanout EXCEPT ![e] = f]
    BY <2>2
  <2> HIDE DEF f
  <2>5. /\ TypeOK' /\ fanout'[e] = f
        /\ \A d \in Events \ {e} : fanout'[d] = fanout[d]
    <3>1. owed' \in [Events -> SUBSET Sockets]
      BY <1>1, <2>1, <2>2 DEF TypeOK
    <3>2. QED
      BY <1>1, <2>2, <2>3, <2>4, <3>1, FanoutType DEF TypeOK
  <2>6. owed'[e] = sockets /\ \A d \in Events \ {e} : owed'[d] = owed[d]
    BY <1>1, <2>2 DEF TypeOK
  <2>7. QED
    BY <2>1, <2>2, <2>3, <2>5, <2>6, FanoutIInv
<1>4. QED
  BY <1>2, <1>3

\* push() lists what the watcher has now: who is owed and not on the list has
\* left the registry.
LEMMA PushIInv ==
    ASSUME IInv, NEW e \in Events, NEW u \in Users, Push(e, u)
    PROVE  IInv'
<1>1. fanout[e] \in Fanout /\ TypeOK
  BY DEF IInv, TypeOK
<1>2. /\ fanout[e].at = "between" /\ u \in fanout[e].todo
      /\ UNCHANGED <<registry, endpoint, peer, reached, owed>>
      /\ fanout[e].conns = {} /\ fanout[e].dead = {}
  BY DEF IInv, HoldsOnlyWhenSending, Push
<1>3. \A s \in Connections(u) : s \in Sockets /\ Owner[s] = u /\ Started(s)
  BY ConnectionsOwned DEF IInv, HeldHaveStarted
<1>4. PICK f \in Fanout :
        /\ fanout' = [fanout EXCEPT ![e] = f]
        /\ f.at = IF Connections(u) = {} THEN "between" ELSE "sending"
        /\ f.todo = fanout[e].todo \ {u}
        /\ f.conns = Connections(u) /\ f.dead = {}
  <2> DEFINE none == [fanout[e] EXCEPT !.todo = @ \ {u}]
             some == [fanout[e] EXCEPT !.at = "sending", !.todo = @ \ {u},
                                       !.conns = Connections(u)]
  <2>1. Connections(u) = {} =>
          /\ none \in Fanout
          /\ none.at = "between" /\ none.todo = fanout[e].todo \ {u}
          /\ none.conns = Connections(u) /\ none.dead = {}
    BY <1>1, <1>2 DEF Fanout
  <2>2. /\ some \in Fanout
        /\ some.at = "sending" /\ some.todo = fanout[e].todo \ {u}
        /\ some.conns = Connections(u) /\ some.dead = {}
    BY <1>1, <1>2, <1>3 DEF Fanout
  <2>3. fanout' = [fanout EXCEPT ![e] =
                      IF Connections(u) = {} THEN none ELSE some]
    BY DEF Push
  <2> HIDE DEF none, some
  <2>4. QED
    BY <2>1, <2>2, <2>3
<1>5. /\ TypeOK' /\ fanout'[e] = f
      /\ \A d \in Events \ {e} : fanout'[d] = fanout[d]
  BY <1>1, <1>2, <1>4, FanoutType DEF TypeOK
<1>6. ASSUME NEW s \in owed[e]
      PROVE  \/ s \in reached[e] \/ Owner[s] \in f.todo
             \/ s \in f.conns \cup f.dead
             \/ s \notin Connections(Owner[s])
  BY <1>2, <1>4 DEF IInv, OwedIsAccountedFor
<1>7. \A s \in owed[e] : Started(s)
  BY DEF IInv, HeldHaveStarted
<1>8. \A s \in f.conns \cup f.dead : Started(s)
  BY <1>3, <1>4
<1>9. f.dead = {} /\ f.at \in {"between", "sending"} /\ (f.at # "sending" => f.conns = {})
  BY <1>4
<1>10. QED
  BY <1>2, <1>5, <1>6, <1>7, <1>8, <1>9, FanoutIInv

\* A send, answered or not, moves one socket from "to do" to "reached" or "dead".
LEMMA SendIInv ==
    ASSUME IInv, NEW e \in Events, NEW s \in Sockets,
           Send(e, s) \/ SendRaises(e, s)
    PROVE  IInv'
<1>1. fanout[e] \in Fanout /\ TypeOK
  BY DEF IInv, TypeOK
<1>2. /\ fanout[e].at = "sending" /\ s \in fanout[e].conns
      /\ UNCHANGED <<registry, endpoint, peer, owed>>
      /\ \A d \in Events \ {e} : reached'[d] = reached[d]
  BY <1>1 DEF TypeOK, Send, SendRaises
<1>3. PICK f \in Fanout :
        /\ fanout' = [fanout EXCEPT ![e] = f]
        /\ f.at = "sending" /\ f.todo = fanout[e].todo
        /\ f.conns = fanout[e].conns \ {s}
        /\ \/ f.dead = fanout[e].dead /\ reached'[e] = reached[e] \cup {s}
           \/ /\ ~Live(s) /\ reached'[e] = reached[e]
              /\ f.dead = fanout[e].dead \cup {s}
  <2>1. CASE Send(e, s)
    <3> DEFINE f == [fanout[e] EXCEPT !.conns = @ \ {s}]
    <3>1. /\ f \in Fanout
          /\ f.at = "sending" /\ f.todo = fanout[e].todo
          /\ f.conns = fanout[e].conns \ {s} /\ f.dead = fanout[e].dead
      BY <1>1, <1>2 DEF Fanout
    <3>2. /\ fanout' = [fanout EXCEPT ![e] = f]
          /\ reached'[e] = reached[e] \cup {s}
      BY <1>1, <2>1 DEF Send, TypeOK
    <3> HIDE DEF f
    <3>3. QED
      BY <3>1, <3>2
  <2>2. CASE SendRaises(e, s)
    <3> DEFINE f == [fanout[e] EXCEPT !.conns = @ \ {s}, !.dead = @ \cup {s}]
    <3>1. /\ f \in Fanout
          /\ f.at = "sending" /\ f.todo = fanout[e].todo
          /\ f.conns = fanout[e].conns \ {s} /\ f.dead = fanout[e].dead \cup {s}
      BY <1>1, <1>2 DEF Fanout
    <3>2. /\ fanout' = [fanout EXCEPT ![e] = f]
          /\ reached'[e] = reached[e] /\ ~Live(s)
      BY <1>1, <2>2 DEF SendRaises, TypeOK
    <3> HIDE DEF f
    <3>3. QED
      BY <3>1, <3>2
  <2>3. QED
    BY <2>1, <2>2
<1>4. /\ TypeOK' /\ fanout'[e] = f
      /\ \A d \in Events \ {e} : fanout'[d] = fanout[d]
  <2>1. reached' \in [Events -> SUBSET Sockets]
    BY <1>1 DEF TypeOK, Send, SendRaises
  <2>2. QED
    BY <1>1, <1>2, <1>3, <2>1, FanoutType DEF TypeOK
<1>5. \A t \in f.conns \cup f.dead \cup owed'[e] : Started(t)
  BY <1>2, <1>3 DEF IInv, HeldHaveStarted
<1>6. \A t \in f.dead : ~Live(t)
  BY <1>3 DEF IInv, DeadStayDead
<1>7. ASSUME NEW t \in owed'[e]
      PROVE  \/ t \in reached'[e] \/ Owner[t] \in f.todo
             \/ t \in f.conns \cup f.dead
             \/ t \notin Connections(Owner[t])
  BY <1>2, <1>3 DEF IInv, OwedIsAccountedFor
<1>8. QED
  BY <1>2, <1>3, <1>4, <1>5, <1>6, <1>7, FanoutIInv

\* The end of push() takes out sockets that are dead, never a live one.
LEMMA PushEndsIInv ==
    ASSUME IInv, NEW e \in Events, PushEnds(e)
    PROVE  IInv'
<1> DEFINE f == [fanout[e] EXCEPT !.at = "between", !.dead = {}]
<1>1. /\ fanout[e] \in Fanout /\ fanout[e].conns = {}
      /\ RegistryType(registry) /\ registry' = Without(fanout[e].dead)
      /\ UNCHANGED <<endpoint, peer, reached, owed>>
      /\ fanout' = [fanout EXCEPT ![e] = f]
  BY DEF IInv, TypeOK, RegistryType, PushEnds
<1>2. /\ f \in Fanout
      /\ f.at = "between" /\ f.todo = fanout[e].todo
      /\ f.conns = {} /\ f.dead = {}
  BY <1>1 DEF Fanout
<1> HIDE DEF f
<1>3. /\ RegistryType(registry')
      /\ \A u : Connections(u)' = Connections(u) \ fanout[e].dead
  BY <1>1, ConnectionsWithout
<1>4. fanout'[e] = f /\ \A d \in Events \ {e} : fanout'[d] = fanout[d]
  BY <1>1 DEF IInv, TypeOK
<1>5. TypeOK'
  BY <1>1, <1>2, <1>3 DEF IInv, TypeOK, RegistryType
<1>6. \A s : (Started(s)' <=> Started(s)) /\ (Live(s)' <=> Live(s))
  BY <1>1 DEF Started, Live
<1>7. LiveStaysRegistered'
  BY <1>3, <1>6 DEF IInv, LiveStaysRegistered, DeadStayDead
<1>8. HeldHaveStarted'
  <2>1. \A u \in Users : \A s \in Connections(u)' : Started(s)'
    BY <1>3, <1>6 DEF IInv, HeldHaveStarted
  <2>2. ASSUME NEW d \in Events
        PROVE  \A s \in fanout'[d].conns \cup fanout'[d].dead \cup owed'[d] : Started(s)'
    BY <1>1, <1>2, <1>4, <1>6 DEF IInv, HeldHaveStarted
  <2>3. QED
    BY <2>1, <2>2 DEF HeldHaveStarted
<1>9. DeadStayDead'
  BY <1>2, <1>4, <1>6 DEF IInv, DeadStayDead
<1>10. HoldsOnlyWhenSending'
  BY <1>1, <1>2, <1>4 DEF IInv, HoldsOnlyWhenSending
<1>11. OwedIsAccountedFor'
  BY <1>1, <1>2, <1>3, <1>4 DEF IInv, OwedIsAccountedFor
<1>12. QED
  BY <1>5, <1>7, <1>8, <1>9, <1>10, <1>11 DEF IInv

\* A fan-out that returns has nothing left to send.
LEMMA NotifyEndsIInv ==
    ASSUME IInv, NEW e \in Events, NotifyEnds(e)
    PROVE  IInv'
<1> DEFINE f == [fanout[e] EXCEPT !.at = "done"]
<1>1. /\ fanout[e] \in Fanout /\ TypeOK
      /\ fanout[e].at = "between" /\ fanout[e].todo = {}
      /\ fanout[e].conns = {} /\ fanout[e].dead = {}
      /\ UNCHANGED <<registry, endpoint, peer, reached, owed>>
      /\ fanout' = [fanout EXCEPT ![e] = f]
  BY DEF IInv, TypeOK, HoldsOnlyWhenSending, NotifyEnds
<1>2. /\ f \in Fanout
      /\ f.at = "done" /\ f.todo = {} /\ f.conns = {} /\ f.dead = {}
  BY <1>1 DEF Fanout
<1> HIDE DEF f
<1>3. /\ TypeOK' /\ fanout'[e] = f
      /\ \A d \in Events \ {e} : fanout'[d] = fanout[d]
  BY <1>1, <1>2, FanoutType DEF TypeOK
<1>4. \A s \in owed[e] :
        Started(s) /\ (s \in reached[e] \/ s \notin Connections(Owner[s]))
  BY <1>1 DEF IInv, HeldHaveStarted, OwedIsAccountedFor
<1>5. QED
  BY <1>1, <1>2, <1>3, <1>4, FanoutIInv

\* With the process go the registry, every socket and every fan-out under way.
LEMMA ProcessEndsIInv ==
    ASSUME IInv, ProcessEnds
    PROVE  IInv'
<1> DEFINE Over(e) == fanout[e].at = "done"
           lost == [NoFanout EXCEPT !.at = "lost"]
<1>1. \A u : Connections(u)' = {}
  BY DEF ProcessEnds, Connections
<1>2. \A s \in Sockets : ~Live(s)' /\ (Started(s) => Started(s)')
  BY DEF IInv, TypeOK, ProcessEnds, Live, Started
<1>3. lost \in Fanout /\ lost.at = "lost" /\ lost.todo = {} /\ lost.conns = {} /\ lost.dead = {}
  BY DEF NoFanout, Fanout
<1>4. \A e \in Events :
        /\ fanout'[e] = IF fanout[e].at \in {"detected", "done"} THEN fanout[e] ELSE lost
        /\ owed'[e] = IF Over(e) THEN owed[e] ELSE {}
  BY DEF ProcessEnds
<1> HIDE DEF lost
<1>5. TypeOK'
  <2>1. registry' = [u \in {} |-> {}]
    BY DEF ProcessEnds
  <2>2. /\ endpoint' \in [Sockets -> {"new", "accepted", "serving", "ended"}]
        /\ peer' \in [Sockets -> {"reading", "stalled", "gone"}]
    BY DEF IInv, TypeOK, ProcessEnds
  <2>3. fanout' \in [Events -> Fanout]
    BY <1>3 DEF IInv, TypeOK, ProcessEnds, lost
  <2>4. reached' \in [Events -> SUBSET Sockets] /\ owed' \in [Events -> SUBSET Sockets]
    BY DEF IInv, TypeOK, ProcessEnds
  <2>5. QED
    BY <2>1, <2>2, <2>3, <2>4 DEF TypeOK
<1>6. \A e \in Events :
        /\ fanout'[e].conns = {} /\ fanout'[e].dead = {} /\ fanout'[e].todo = {}
        /\ owed'[e] \subseteq owed[e] /\ (fanout'[e].at # "done" => owed'[e] = {})
        /\ fanout'[e].at \in {"detected", "done", "lost"}
  BY <1>3, <1>4 DEF IInv, TypeOK, Fanout, HoldsOnlyWhenSending
<1>7. \A e \in Events : \A s \in owed[e] : s \in Sockets /\ Started(s)
  BY DEF IInv, TypeOK, HeldHaveStarted
<1>8. LiveStaysRegistered' /\ DeadStayDead' /\ HoldsOnlyWhenSending' /\ OwedIsAccountedFor'
  BY <1>1, <1>2, <1>6
  DEF LiveStaysRegistered, DeadStayDead, HoldsOnlyWhenSending, OwedIsAccountedFor
<1>9. HeldHaveStarted'
  BY <1>1, <1>2, <1>6, <1>7 DEF HeldHaveStarted
<1>10. QED
  BY <1>5, <1>8, <1>9 DEF IInv

\* Each action keeps it.
LEMMA NextIInv == IInv /\ [Next]_vars => IInv'
<1> SUFFICES ASSUME IInv, [Next]_vars PROVE IInv'
  OBVIOUS
<1>1. ASSUME NEW s \in Sockets,
             \/ Accept(s) \/ Register(s) \/ Stall(s) \/ Resume(s) \/ PeerLeaves(s)
             \/ EndpointEnds(s) \/ EndpointFails(s)
      PROVE  IInv'
  BY <1>1, BrowserIInv, RegisterIInv, EndpointEndsIInv
<1>2. CASE ProcessEnds
  BY <1>2, ProcessEndsIInv
<1>3. ASSUME NEW e \in Events, Commit(e) \/ \E W \in Watchers : Notify(e, W)
      PROVE  IInv'
  BY <1>3, NotifyIInv
<1>4. ASSUME NEW e \in Events, NEW u \in Users, Push(e, u)
      PROVE  IInv'
  BY <1>4, PushIInv
<1>5. ASSUME NEW e \in Events, NEW s \in Sockets, Send(e, s) \/ SendRaises(e, s)
      PROVE  IInv'
  BY <1>5, SendIInv
<1>6. ASSUME NEW e \in Events, PushEnds(e) \/ NotifyEnds(e)
      PROVE  IInv'
  BY <1>6, PushEndsIInv, NotifyEndsIInv
<1>7. CASE UNCHANGED vars
  <2>1. TypeOK'
    BY <1>7 DEF vars, IInv, TypeOK
  <2>2. \A s : (Started(s)' <=> Started(s)) /\ (Live(s)' <=> Live(s))
    BY <1>7 DEF vars, Started, Live
  <2>3. QED
    BY <1>7, <2>1, <2>2, SocketIInv DEF vars
<1>8. QED
  BY <1>1, <1>2, <1>3, <1>4, <1>5, <1>6, <1>7 DEF Next

\* So it holds throughout.
LEMMA InvariantIInv == Spec => []IInv
  BY InitIInv, NextIInv, PTL DEF Spec
-----------------------------------------------------------------------------
\* A socket that is served and whose browser is there is in the registry: the
\* clean-up of no push and of no endpoint takes it out.
THEOREM LiveSocketsStay == Spec => []LiveStaysRegistered
<1>1. IInv => LiveStaysRegistered
  BY DEF IInv
<1>2. QED
  BY <1>1, InvariantIInv, PTL

\* A fan-out that is over has reached every socket of a watcher that was there
\* when the watchers were read and still is.
THEOREM EveryonePresentIsReached == Spec => []PresentAreReached
<1>1. IInv => PresentAreReached
  <2> SUFFICES ASSUME IInv, NEW e \in Events, fanout[e].at = "done",
                      NEW s \in owed[e], Live(s)
               PROVE  s \in reached[e]
    BY DEF PresentAreReached
  <2>1. s \in Connections(Owner[s])
    BY DEF IInv, TypeOK, LiveStaysRegistered
  <2>2. QED
    BY <2>1 DEF IInv, HoldsOnlyWhenSending, OwedIsAccountedFor
<1>2. QED
  BY <1>1, InvariantIInv, PTL

\* A socket that failed for good is out of the registry once a fan-out that owed
\* it the message is over.
THEOREM FailedSocketIsDropped == Spec => []DeadIsDropped
<1>1. IInv => DeadIsDropped
  BY DEF IInv, DeadIsDropped, HoldsOnlyWhenSending, OwedIsAccountedFor
<1>2. QED
  BY <1>1, InvariantIInv, PTL
=============================================================================
