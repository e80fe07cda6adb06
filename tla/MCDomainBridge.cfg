SPECIFICATION Spec
CONSTANTS
    Authors <- SomeAuthors
    Depth = 2
    Gap = 2
    MaxClock = 2
    MaxStops = 2
    MaxCalls = 1
INVARIANTS LinkIsKept
PROPERTIES LatchedArrives
CHECK_DEADLOCK FALSE
