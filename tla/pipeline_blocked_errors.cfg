CONSTANTS
  s1 = s1
  s2 = s2
  Sessions = {s1}
  Home = {s1}
  ClientKinds = {"write"}
  MaxXid = 3
  QueueCapacity = 2
  MaxBatch = 2
  Budgets <- LeaderFlaps
SPECIFICATION FairSpec
PROPERTY CommittedApplied
