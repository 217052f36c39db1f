SPECIFICATION Spec
CONSTANTS
    None = None
    Fibers = {"acc", "stp", "h"}
    Acceptor = "acc"
    Stopper = "stp"
    Fds = {"listen", "client"}
    Listen = "listen"
    Dangling = {"runs", "nothing", "crash"}
    Fionbio = {TRUE}
    Disciplined = TRUE
    MaxGen = 2
INVARIANTS WaiterKnown NeverBlocks OwnContext
PROPERTIES StopEnds
CHECK_DEADLOCK FALSE
