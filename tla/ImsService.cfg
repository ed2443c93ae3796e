SPECIFICATION InboxFairSpec
CONSTANTS
    MaxAttempts = 2
    RetryTime = 1
    RefreshTime = 1
    Expires = 3
    SmsQueueSize = 1
    IpQueueSize = 1
    RingSize = 1
    MaxMo = 2
    MaxMt = 2
    MaxSessions = 2
    MaxFaults = 1
    StoreSize = 1
    MaxReads = 0
INVARIANTS
    ImsTypeOK
    MtOnce
    
    

    
