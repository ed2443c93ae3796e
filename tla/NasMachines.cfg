SPECIFICATION NasSpec
CONSTANTS
    UE_MM_TIMEOUT = 2
    UE_MM_MAX_RETRIES = 1
    SimPresent = TRUE
    UE_SM_T3580 = 1
    UE_SM_T3580_MAX_RETX = 2
    UE_SM_MAX_RETRIES = 1
    MaxPti = 2
INVARIANTS
    MmTypeOK
    MmLockstep
    SmTypeOK
    SmNothingLeftOver
PROPERTIES
    MmSettles
    SmEstablishmentSettles
