SPECIFICATION Spec
CONSTANTS
    Addr = {"a1", "a2"}
    NoAddr = NoAddr
    Node = {"n1", "n2"}
    AddrOf <- AnyAddrOf
    Removable = {"n2"}
    NoNode = NoNode
    Clients = {c1}
    Slots = {i1, i2}
    InAddr = {"a1"}
    CONNECTION_LIMIT = 2
    MIN_SCORE <- AnyMinScore
    MAX_SCORE = 0
    BANTIME_BASE = 1
    BAN_SHIFT = 1
    ATTEMPT_PENALTY = 1
    MAX_ADDRESS_COUNT = 2
    MAX_RETRIES = 0
    RETRY_INTERVAL_BASE = 1
    MAX_IDLENODES = 1
    REMOVE_COUNT = 2
    MAX_IDLETIME = 1
    Reasons <- AnyReasons
    Lost <- AnyLost
    BanTimes = {1}
    MaxBan = 2
    MaxEntries = 2
    MaxAfter = 0
SYMMETRY SlotSymmetry
INVARIANTS ConnectionsCounted NodeKept BanHolds
CHECK_DEADLOCK FALSE
