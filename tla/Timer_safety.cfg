CONSTANTS
    x1 = x1
    x2 = x2
    p1 = p1
    p2 = p2
    Timers = {x1, x2}
    Pollers = {p1, p2}
    Delays = {1}
    MaxTime = 2
    MaxOps = 1
    Ops = {"cancel", "reset", "refresh"}
    DoubleUnlock = {"sound", "broken"}
SPECIFICATION FairSpec
CHECK_DEADLOCK FALSE
INVARIANTS
    CancelErases
    CancelledNeverRuns
PROPERTIES
    NotEarly
    FiresUnlessRefreshed
