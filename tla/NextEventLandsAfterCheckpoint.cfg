SPECIFICATION Spec
CONSTANTS
    scheduler = scheduler
    populate = populate
    alice = alice
    bob = bob
    g1 = g1
    g2 = g2
    g3 = g3
    Polls = {scheduler, populate}
    Users = {alice}
    Gets = {g1, g2}
    Owner <- TwoTabs
    Removers = {}
    MaxStamp = 3
    MaxId = 1
INVARIANT NextEventLandsAfterCheckpoint
CHECK_DEADLOCK FALSE
