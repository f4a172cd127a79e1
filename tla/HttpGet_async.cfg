SPECIFICATION PromptSpec
CONSTANTS
    Req <- AsyncReq
    NonceOf <- AsyncNonceOf
    HostOf <- AsyncHostOf
    Address <- NoNames
    NMaxConn = 2
    Sequential = TRUE
    ConnectMayTimeOut = FALSE
    AllocMayFail = FALSE
    PeerMayReset = FALSE
    AbortNonces = {}
INVARIANT ResponseWatched
PROPERTY AsyncAnswered
CHECK_DEADLOCK FALSE
