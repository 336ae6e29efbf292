SPECIFICATION StreamsSpec
CONSTANTS
    Tasks = {t1, t2}
    Workers = {w1, w2}
    Conns = {c1, c2}
    Listeners = {c1}
    Fds = {f1}
    Keys = {k1}
    Dirs = {"read", "write"}
    None = None
    MaySelect = TRUE
    RegisterMayFail = TRUE
    Readers = {r1}
    Writers = {v1}
    Selects = {s1}
    Inspectors = {v1}
    NoTask = NoTask
    MaxRecords = 2
SYMMETRY Symmetry
INVARIANTS NoSourceStranded NoSelectStranded NobodyHeldUp
PROPERTIES EventsAreOwn CloseIsSaid
CHECK_DEADLOCK FALSE
