CONSTANTS
    Gnbs = {g1, g2}
    MaxDbm = 2
    MaxCells = 2
    HbTimeout = 2
    AckInterval = 1
    MaxAcks = 1
    QueueSize = 1
    RxBatch = 1
    MaxInbox = 1
    MaxRadio = 3
    MaxMoves = 1
    MaxPdus = 2
SPECIFICATION RanSpec
INVARIANT StoppedStaysIdle
