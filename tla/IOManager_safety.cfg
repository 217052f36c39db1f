CONSTANTS
    Callers = {k1, k2}
    None = None
    Pollers = {p1, p2}
    Fds = {3, 5, 9}
    Uses <- Growing
    Kinds = {"cb"}
    Ops = {"delEvent", "cancelEvent", "cancelAll"}
    Hup = FALSE
    Unpollable = {3}
    Grown = 4
    MaxGen = 3
    CountMod = 32
    k1 = k1
    k2 = k2
    p1 = p1
    p2 = p2
SPECIFICATION Spec
CHECK_DEADLOCK FALSE
INVARIANTS
    NotStranded
    Cancellable
