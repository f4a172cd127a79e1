SPECIFICATION FairSpec
CONSTANTS
    Module = {m1, m2}
    MaxTimers = 2
    MaxTime = 2
    Delay = {0, 2}
    MayDetach = TRUE
INVARIANTS TimersKept CallbacksTimely
PROPERTY TimersEnd
CHECK_DEADLOCK FALSE
