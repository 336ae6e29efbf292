SPECIFICATION Spec
CONSTANTS
    Tasks = {main, t1, t2, t3}
    Main = main
    NoTask = NoTask
    MaxTasks = 3
SYMMETRY Symmetry
INVARIANTS NoneOutlivesScope
CHECK_DEADLOCK FALSE
