SPECIFICATION EngineSpec
CONSTANTS
    SimPresent = TRUE
    UE_MM_TIMEOUT = 1
    UE_MM_MAX_RETRIES = 1
    RrcSetupTimeout = 1
    CoreWindow = 1
    UE_SM_T3580 = 1
    UE_SM_T3580_MAX_RETX = 0
    UE_SM_MAX_RETRIES = 0
    MaxPti = 2
    MaxPsi = 3
    NasQueueSize = 2
    ImsContext = FALSE
    HostOps = {"radioOn"}
    MaxHostOps = 1
    Answers = {"rrcSetup", "authRequest", "securityModeCommand", "regAccept", "pduAccept", "regReject", "releaseCommand"}
    Faults = {"dup"}
    MaxLosses = 0
INVARIANTS
    ActiveIsBound
    AttachedOnlyIfRegistered
