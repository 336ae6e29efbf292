SPECIFICATION HostSpec
CONSTANTS
    Tasks = {t1}
    Workers = {w1, w2}
    Callers = {c1, c2}
    NoTask = NoTask
    MaxWait = 3
    HeapTasks = {t1, t2}
    Slots = {s1, s2}
    NoSlot = NoSlot
    MaxRefs = 2
    MaxInserts = 2
    MaxSent = 1
    MaxOneWay = 3
    CopyLimits = {0, 1, 2, NoLimit}
    NoLimit = NoLimit
    MaxBlocks = 5
    MaxHeap = 2
INVARIANTS OnePlace NoLostWake NoLostCancel LookupsFindTheirOwn CopiesWhatItTakes
INVARIANTS EveryReferenceCounted ArgumentsOutliveUse ListsKeepTheirBytes
PROPERTIES WokenRuns CancelledRuns ReservesLikeAPool FailureEndsCopy
CHECK_DEADLOCK FALSE
