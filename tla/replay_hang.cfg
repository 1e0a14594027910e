SPECIFICATION FairSpec
CONSTANTS
    p = p
    Requests <- const_Requests
    SnapshotDistance = 2
    KeepSnapshots = 1
    Reserved = 1
    BatchSize = 2
    QueueLimit = 1
    MaxLog = 3
    MaxKills = 1
    FaultSets <- const_Kill
CHECK_DEADLOCK FALSE
PROPERTY ReplayEnds
