SPECIFICATION FairSpec
CONSTANTS
    a = a
    c = c
    NoEntry = NoEntry
    Entries <- const_Entries
    AppLogs <- const_AppLogs
    SegmentSize = 2
    CacheSize = 2
    Reserved = 1
    MaxIndex = 4
    FaultSets <- const_Faults
CHECK_DEADLOCK FALSE
INVARIANTS
    TypeOK
    SegmentsContiguous
    DurableOnDisk
    LastEntryFresh
PROPERTIES
    ImplementsLog
    DurableCatchesUp
