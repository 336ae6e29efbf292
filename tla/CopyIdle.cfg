SPECIFICATION CopySpec
CONSTANTS
    MaxSent = 1
    MaxOneWay = 1
    CopyLimits = {NoLimit}
    NoLimit = NoLimit
PROPERTIES BusyIsNotIdle
CHECK_DEADLOCK FALSE
