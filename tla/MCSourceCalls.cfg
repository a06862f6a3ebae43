SPECIFICATION FairSpec
CONSTANTS
    scheduler = scheduler
    populate1 = populate1
    populate2 = populate2
    Calls <- MCCalls
    Poller = scheduler
    Threshold = 3
    BaseCooldown = 5
    MaxCooldown = 50
    Timeout = 2
INVARIANTS TypeOK ProbeExclusive TrippedIffThreshold StragglersPredateTrip
PROPERTIES SettledOpenWaits HealedIsReadmitted
