SPECIFICATION LiveSpec
CONSTANTS
  w1 = w1  w2 = w2
  g1 = g1
  Workers = {w1, w2}
  JobCount = 4
  Groups = {g1}
  NoGroup = NoGroup
  GroupOf <- MixedGroups
  InitialCapacity = 2
  AllocationMayFail = TRUE
INVARIANTS NoIdleCapacity
PROPERTIES PoolSpec WaitIsAFence AcceptedJobsEnd WaitReturns DrainReturnsUnlessDropped
CHECK_DEADLOCK FALSE
