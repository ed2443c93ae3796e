SPECIFICATION EngineSpec
CONSTANTS
    SimPresent = TRUE
    UE_MM_TIMEOUT = 1
    UE_MM_MAX_RETRIES = 1
    RrcSetupTimeout = 2
    CoreWindow = 2
    UE_SM_T3580 = 2
    UE_SM_T3580_MAX_RETX = 1
    UE_SM_MAX_RETRIES = 1
    MaxPti = 3
    MaxPsi = 3
    NasQueueSize = 2
    ImsContext = TRUE
    HostOps = {"radioOn", "radioOff", "register"}
    MaxHostOps = 3
    Answers = {"rrcSetup", "authRequest", "securityModeCommand", "regAccept", "pduAccept", "pduReject", "releaseCommand"}
    Faults = {"lose"}
    MaxLosses = 1
INVARIANTS
    ActiveIsBound
    ImsIsPrivate
