SPECIFICATION FairSpec
CONSTANTS
  MaxTasks = 4
INVARIANTS MutualExclusion OwnerHolds WaitersBlocked
PROPERTIES FirstWaiterNext LockCompletes
