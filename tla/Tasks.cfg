SPECIFICATION TasksSpec
CONSTANTS
    Tasks = {main, t1, t2}
    Main = main
    NoTask = NoTask
    MaxTasks = 2
    Callers = {t1, t2}
    Threads = {h1, h2}
    NoThread = NoThread
    MaxThreads = 1
INVARIANTS SlotsCounted ScopeHolds SlotsHaveOwners
PROPERTIES WaitsEnd ClaimsLikeAPool CallsEnd
CHECK_DEADLOCK FALSE
