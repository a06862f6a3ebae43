SPECIFICATION FairSpec
CONSTANTS
    alice = alice
    bob = bob
    a1 = a1
    a2 = a2
    e1 = e1
    e2 = e2
    Users = {alice, bob}
    Sockets = {a1, a2}
    Owner <- MCOwner
    Events = {e1, e2}
    Watchers <- MCWatchers
    Stallers = {a1}
INVARIANTS LiveStaysRegistered PresentAreReached DeadIsDropped
PROPERTY FanoutEnds
CHECK_DEADLOCK FALSE
