SPECIFICATION FairSpec
CONSTANTS
  NCalls = 2
  Rounds <- Pairs
  MaxCrashes = 2
INVARIANTS
  UnsafeOnce
  ApprovedFirst
  ResultHonest
  Barrier
PROPERTIES
  RerunAfterChild
  CallsSettle
CHECK_DEADLOCK FALSE
