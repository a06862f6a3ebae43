SPECIFICATION FairSpec
CONSTANTS
    scheduler = scheduler
    populate = populate
    alice = alice
    bob = bob
    g1 = g1
    g2 = g2
    g3 = g3
    Polls = {scheduler, populate}
    Users = {alice, bob}
    Gets = {g1, g2, g3}
    Owner <- WithAnother
    Removers = {alice}
    MaxStamp = 4
    MaxId = 2
INVARIANTS TypeOK MissedWasLate
PROPERTIES EveryEventIsShown FeedIsInbox
CHECK_DEADLOCK FALSE
