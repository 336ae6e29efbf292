SPECIFICATION Spec
CONSTANTS
    NumWorkers = 1
    Threads = {p1,p2}
    Tasks = {main,t1,t2}
    MainTask = main
    NoTask = NoTask
    EventInterval = 2
    Saturated = {FALSE}
    StartMayFail = FALSE
    MaxSearching = 3
SYMMETRY Symmetry
INVARIANTS InjectedIsNoticed
CHECK_DEADLOCK FALSE
