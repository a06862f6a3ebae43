SPECIFICATION Spec
CONSTANTS
    p1 = p1
    p2 = p2
    p3 = p3
    p4 = p4
    c1 = c1
    c2 = c2
    c3 = c3
    Pollers = {p1, p2, p3, p4}
    Consumers = {c1, c2, c3}
    MaxSize = 2
    Interval = 2
    Timeout = 5
    MaxQuotes = 5
SYMMETRY Symmetry
INVARIANTS WorkBounded QueueIsNewest NoLostWakeup
CHECK_DEADLOCK FALSE
