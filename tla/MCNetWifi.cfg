SPECIFICATION FairSpec
CONSTANTS
  QueueLen = 4
  MaxErrors = 2
  MaxOverruns = 1
CHECK_DEADLOCK FALSE
INVARIANTS AlwaysAWayIn NoEventLost LinkTold
PROPERTIES RecoveryStays Recovers
