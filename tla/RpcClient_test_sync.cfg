SPECIFICATION FairSpec
CONSTANTS
    Task = {}
    TaskCalls = 0
    SyncCalls = 2
    RingSize = 1
    Outcome = {"object", "error"}
PROPERTY SyncCallReturns
CHECK_DEADLOCK FALSE
