SPECIFICATION FairSecSpec
CHECK_DEADLOCK FALSE
CONSTANTS
    SqnMod = 7
    MaxCount = 8
    MaxVectors = 2
    MaxCommands = 2
    MaxInFlight = 3
    MaxSends = 1
    MaxFaults = 1
    MaxRestarts = 1
INVARIANTS
    SecTypeOK
    DownlinkInStep
    UplinkInStep
PROPERTY
    SetupCompletes
