SPECIFICATION InboxSpec
CONSTANTS
    MaxAttempts = 2
    RetryTime = 1
    RefreshTime = 1
    Expires = 3
    SmsQueueSize = 1
    IpQueueSize = 1
    RingSize = 2
    MaxMo = 0
    MaxMt = 3
    MaxSessions = 2
    MaxFaults = 1
    StoreSize = 2
    MaxReads = 2
INVARIANTS
    
    IndexStands
    KeptForHost
