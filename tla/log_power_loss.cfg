SPECIFICATION Spec
CONSTANTS
    a = a
    c = c
    NoEntry = NoEntry
    Entries <- const_Entries
    AppLogs <- const_AppLogs
    SegmentSize = 2
    CacheSize = 2
    Reserved = 1
    MaxIndex = 4
    FaultSets <- const_Unsynced
CHECK_DEADLOCK FALSE
INVARIANT
    DurableOnDisk
