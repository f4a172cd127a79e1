SPECIFICATION FairSpec
CONSTANTS
    Task = {t1, t2}
    TaskCalls = 1
    SyncCalls = 2
    RingSize = 2
    Outcome = {"object", "error"}
INVARIANT SyncReplyIsOwn
PROPERTY CallsReturn
CHECK_DEADLOCK FALSE
