SPECIFICATION TlsSpec
CONSTANTS
    Readers = {r1}
    Writers = {}
    Selects = {s1}
    Inspectors = {i1}
    NoTask = NoTask
    MaxRecords = 2
INVARIANTS HeldMeansWoken
CHECK_DEADLOCK FALSE
