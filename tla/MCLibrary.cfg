SPECIFICATION LibFairSpec
CONSTANTS
    t1 = t1  t2 = t2  t3 = t3  d1 = d1  d2 = d2
    e1 = e1  e2 = e2  c1 = c1  c2 = c2  none = none  CR = CR  LF = LF
    Thread = {t1, t2, t3}
    MaxNonce = 3
    Ident = {d1, d2}
    Event = {e1, e2}  Data = {1, 2, none}  NoData = none  Client = {c1, c2}
    MaxEventId = 2
    Address = {1, 2, 3, 4}  Delta <- Differences  nMaxCount = 3
    Enough = 1  MaxAdjustment = 2  MaxTime = 3
    MIN_SIZE = 4  maximum_size = 5  Bytes = 8
    COUNTER_NUM = 2  COUNTER_INTERVAL = 2  ATTEMPT_LIMIT = 2  LastTime = 18  MaxAttempts = 4
    MaxPosts = 4
    MaxInvokes = 2
    HandlerMayFail = TRUE
INVARIANTS EventsInOrder LockSafe SubscribersKnow SchedulerAgrees SamplesAgree
    AttemptsCounted ConversionsInvert
PROPERTIES HaltReturnsUnlessReset WritersProgress MessagesInOrder RingIsQueue ChunkedBodyRead
    ProgramAlwaysEnds
CHECK_DEADLOCK FALSE
