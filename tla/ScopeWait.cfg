SPECIFICATION Spec
CONSTANTS
    Tasks = {t1}
    Workers = {w1}
    Callers = {c1}
    NoTask = NoTask
    MaxWait = 2
PROPERTIES ScopeWaitNeverCancelled
