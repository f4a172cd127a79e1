SPECIFICATION FairSpec
CONSTANTS
    Module <- AnyModule
    Kind <- AnyKind
    Uses <- AnyUses
    MaxCalls = 3
INVARIANT ThreadsBounded
PROPERTY HaltReturns
CHECK_DEADLOCK FALSE
