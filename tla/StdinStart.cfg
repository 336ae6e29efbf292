SPECIFICATION StdinSpec
CONSTANTS
    StdinTasks = {r1, r2}
    MaxLines = 1
    MaxSpawnFails = 2
INVARIANTS WatchersFindNothing
CHECK_DEADLOCK FALSE
