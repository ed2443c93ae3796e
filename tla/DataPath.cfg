SPECIFICATION Spec
CHECK_DEADLOCK FALSE
CONSTANTS
    MaxPsi = 2
    DataQueueSize = 2
    FifoSize = 2
    Cap = 2048
    PacketLens <- Lens
    Ntbs <- Shapes
    MaxTraffic = 3
    NtbCost = 2
    MaxEvents = 3
    MaxUsb = 1
INVARIANTS
    HostInOrder
    UplinkOnce
PROPERTY
    DownlinkDrains
