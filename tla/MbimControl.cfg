SPECIFICATION FairSpec
CONSTANTS
    RESP_QUEUE_SIZE = 4
    HELD_QUEUE_SIZE = 3
    IND_QUEUE_SIZE = 8
    Messages = {"register", "sync", "open", "close"}
    MaxMessages = 3
    MaxEvents = 2
INVARIANTS
    MbimTypeOK
    NothingStranded
    
    HostViewIsCurrent

    
