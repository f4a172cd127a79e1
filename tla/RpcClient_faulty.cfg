SPECIFICATION Spec
CONSTANTS
    Task = {t1, t2}
    TaskCalls = 2
    SyncCalls = 1
    RingSize = 2
    Outcome = {"object", "value", "error"}
SYMMETRY TaskSymmetry
INVARIANT RepliesMatched
CHECK_DEADLOCK FALSE
