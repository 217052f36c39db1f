CONSTANTS
    Threads = {t1, t2}
    Tasks = {f1, f2}
    Main = Main
    MaxWaits = 1
    MaxResets = 0
    ExitOutcomes = {"thread", "process"}
    t1 = t1
    t2 = t2
    f1 = f1
    f2 = f2
SPECIFICATION Spec
CHECK_DEADLOCK FALSE
INVARIANTS
    NoAbort
