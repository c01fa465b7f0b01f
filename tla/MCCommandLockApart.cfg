\* Three invocations that do not race for the lock, with kills.
CONSTANTS
    p1 = p1
    p2 = p2
    p3 = p3
    NoPid = NoPid
    Processes <- MCProcesses
    Waiting <- MCWaiting
    MayAge = FALSE
    MayCrash = TRUE
SPECIFICATION ApartSpec
INVARIANT MutualExclusion
PROPERTY ImplementsMutex
CHECK_DEADLOCK FALSE
