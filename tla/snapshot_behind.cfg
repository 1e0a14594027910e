SPECIFICATION Spec
CONSTANTS
    p = p
    Requests <- const_Requests
    SnapshotDistance = 2
    KeepSnapshots = 1
    Reserved = 1
    BatchSize = 2
    QueueLimit = 1
    MaxLog = 4
    MaxKills = 1
    FaultSets <- const_Behind
CHECK_DEADLOCK FALSE
INVARIANT StoreAgrees
