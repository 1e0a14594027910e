CONSTANTS
  s1 = s1
  s2 = s2
  Sessions = {s1}
  Home = {s1}
  ClientKinds = {"read", "write", "close"}
  MaxXid = 3
  QueueCapacity = 2
  MaxBatch = 2
  Budgets <- NoFailures
SPECIFICATION FairSpec
INVARIANTS ResponsesInOrder
PROPERTIES AllAnswered ImplementsProcessor
