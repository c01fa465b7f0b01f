\* Three racing invocations, two of which wait, with kills; they all end.
CONSTANTS
    p1 = p1
    p2 = p2
    p3 = p3
    NoPid = NoPid
    Processes <- MCProcesses
    Waiting <- MCWaiting
    MayAge = TRUE
    MayCrash = TRUE
SPECIFICATION FairSpec
INVARIANTS
    NoLockLeftBehind
    LockNamesHolder
PROPERTY EveryInvocationEnds
CHECK_DEADLOCK FALSE
