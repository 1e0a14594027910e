CONSTANTS
  s1 = s1
  s2 = s2
  Sessions = {s1, s2}
  Home = {s1}
  ClientKinds = {"read", "write", "auth", "close"}
  MaxXid = 2
  QueueCapacity = 2
  MaxBatch = 2
  Budgets <- AllFailures
SPECIFICATION Spec
INVARIANTS TypeOK NoErrorAfterSuccess CommittedInOrder NoAppliedStillQueued
PROPERTIES ReadsWaitForWrites
