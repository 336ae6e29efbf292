SPECIFICATION AllSpec
CONSTANTS
    NumWorkers = 2
    Threads = {p1}
    Tasks = {main, t1}
    MainTask = main
    NoTask = NoTask
    EventInterval = 1
    Saturated = {TRUE}
    StartMayFail = TRUE
    MaxSearching = 2
    StdinTasks = {r1, r2}
    MaxLines = 3
    MaxSpawnFails = 2
    MaxLine = 2
    MaxInput = 5
    Cap = 4
    BatchMax = 2
    Sizes = {1, 2, 5}
    MaxPushes = 4
INVARIANTS EachTaskOnce SearchingCovers LinesReachReaders LinesWholeOrTooLong LinesAccountedFor LogStaysSmall FlushedIsWritten
CHECK_DEADLOCK FALSE
