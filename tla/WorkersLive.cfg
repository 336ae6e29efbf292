SPECIFICATION LiveSpec
CONSTANTS
    NumWorkers = 2
    Threads = {p1}
    Tasks = {main,t1}
    MainTask = main
    NoTask = NoTask
    EventInterval = 1
    Saturated = {FALSE}
    StartMayFail = TRUE
    MaxSearching = 3
    NumSignals = 2
    SignalThreads = {h1, h2}
    SignalTasks = {r1, r2}
    PipeSize = 1
    MaxDeliveries = 3
    NoiseReaders = {r1}
    NoiseWriters = {v1}
    NoiseSelects = {s1}
    Nobody = Nobody
    LastNonce = 2
    MaxSealed = 3
INVARIANTS InjectedIsNoticed SignalsArrive
INVARIANTS HeardIsPrefix NoReadMissed
PROPERTIES InjectedIsTaken MainStops
CHECK_DEADLOCK FALSE
