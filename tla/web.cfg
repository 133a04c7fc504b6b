SPECIFICATION FairSpec
CONSTANTS
  Visitors = {1, 2}
  PoolSize = 1
  MaxLocks = 2
CHECK_DEADLOCK FALSE
INVARIANTS WebTypeOK InOneHand LockBudget
PROPERTY VisitsEndUnlessHeld
