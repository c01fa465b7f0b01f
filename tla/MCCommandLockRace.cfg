\* Two invocations start at the same time.
CONSTANTS
    p1 = p1
    p2 = p2
    p3 = p3
    NoPid = NoPid
    Processes <- Pair
    Waiting <- Pair
    MayAge = FALSE
    MayCrash = FALSE
SPECIFICATION Spec
INVARIANT MutualExclusion

CHECK_DEADLOCK FALSE
