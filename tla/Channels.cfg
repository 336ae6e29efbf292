SPECIFICATION FairSpec
CONSTANTS
    Tasks = {t1, t2}
    Values = {v1, v2}
    NoValue = NoValue
    Capacity = 2
CHECK_DEADLOCK FALSE
INVARIANTS NobodyStranded SelectNotices
PROPERTIES Implements KeepsPromise
