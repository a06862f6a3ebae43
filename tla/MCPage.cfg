SPECIFICATION FairSpec
CONSTANTS
    user = user
    e1 = e1
    User = user
    Events = {e1}
    MaxGets = 2
    MaxChanges = 2
    MaxFaults = 1
INVARIANTS AcknowledgedIsSeen OwnChangesShow
PROPERTY PushIsShown
CHECK_DEADLOCK FALSE
