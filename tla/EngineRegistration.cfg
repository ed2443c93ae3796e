SPECIFICATION EngineSpec
CONSTANTS
    SimPresent = TRUE
    UE_MM_TIMEOUT = 1
    UE_MM_MAX_RETRIES = 1
    RrcSetupTimeout = 1
    CoreWindow = 2
    UE_SM_T3580 = 1
    UE_SM_T3580_MAX_RETX = 0
    UE_SM_MAX_RETRIES = 0
    MaxPti = 2
    MaxPsi = 3
    NasQueueSize = 1
    ImsContext = FALSE
    HostOps = {"radioOn", "radioOnAgain", "radioOff", "register", "update"}
    MaxHostOps = 2
    Answers = {"rrcSetup", "authRequest", "securityModeCommand", "regAccept", "pduAccept", "regReject"}
    Faults = {"late", "noCell", "outage", "startFails"}
    MaxLosses = 1
INVARIANTS
    EngineTypeOK
    AttachedOnlyIfRegistered
    
PROPERTY
    EngineKeepsLink
