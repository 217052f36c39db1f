CONSTANTS
    Threads = {t1, t2}
    Tasks = {f1, f2, f3}
    Main = Main
    MaxWaits = 1
    MaxResets = 1
    ExitOutcomes = {"thread", "process"}
    t1 = t1
    t2 = t2
    f1 = f1
    f2 = f2
    f3 = f3
SPECIFICATION Spec
SYMMETRY Symmetry
CHECK_DEADLOCK FALSE
INVARIANTS
    ExclusiveStack
    AbortsOnlyArmed
    OnePlace
PROPERTIES
    EntersSavedContext
    ImplementsPool
