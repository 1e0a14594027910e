CONSTANTS
  Requests <- const_Requests
  Multis <- const_Multis
  AuthIds = {"alice"}
  MaxSessions = 2
  MaxZxid = 7
  Scenarios <- const_Scenarios
SPECIFICATION StoreSpec
INVARIANTS TypeOK TreeConsistent EphemeralsOwned SequenceNumbersFresh StampsBelowZxid UsageCounted WatchersInformed WatchesKept NoDeadWatches
PROPERTIES MultiAtomic
CHECK_DEADLOCK FALSE
