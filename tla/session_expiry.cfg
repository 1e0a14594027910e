SPECIFICATION FairSpec
CONSTANTS
    n1 = n1
    n2 = n2
    NoServer = NoServer
    FirstLeader = n1
    Servers <- const_Servers
    MaxSessions = 2
    Timeout <- const_Timeout
    Interval = 2
    SyncPeriod = 1
    HeartbeatPeriod = 1
    MaxDelay = 1
    MaxPending = 1
    MaxClock = 6
    FaultSets <- const_Faults
CHECK_DEADLOCK FALSE
INVARIANTS
    TypeOK
    BucketsAgree
PROPERTIES
    ImplementsTimeouts
    NoLiveExpired
    DeadAreClosed
