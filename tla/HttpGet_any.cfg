SPECIFICATION Spec
CONSTANTS
    Req <- MixedReq
    NonceOf <- MixedNonceOf
    HostOf <- MixedHostOf
    Address <- MixedNames
    NMaxConn = 2
    Sequential = FALSE
    ConnectMayTimeOut = TRUE
    AllocMayFail = TRUE
    PeerMayReset = TRUE
    AbortNonces = {1}
INVARIANTS RequestsKept TimersAgree
PROPERTY HttpServiceKept
CHECK_DEADLOCK FALSE
