SPECIFICATION Spec
CONSTANTS
    scheduler = scheduler
    populate = populate
    viewer = viewer
    Polls = {scheduler, populate}
    Viewers = {viewer}
    FirstSession = 2
    LastSession = 3
INVARIANTS OnlyFinalCloses BaselinePrecedesPrice BaselineIsPrevious
PROPERTY ShownChangeIsForward
CHECK_DEADLOCK FALSE
