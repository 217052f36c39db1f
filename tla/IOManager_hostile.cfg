CONSTANTS
    Callers = {k1, k2}
    None = None
    Pollers = {p1, p2}
    Fds = {3}
    Uses <- TwoWay
    Kinds = {"fiber"}
    Ops = {"delEvent", "cancelEvent", "cancelAll"}
    Hup = TRUE
    Unpollable = {}
    Grown = 6
    MaxGen = 1
    CountMod = 8
    k1 = k1
    k2 = k2
    p1 = p1
    p2 = p2
SPECIFICATION FairSpec
CHECK_DEADLOCK FALSE
INVARIANTS
    NoStrayWake
    PendingCount
    CrashNeedsBoth
PROPERTIES
    EventWakes
