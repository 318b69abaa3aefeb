SPECIFICATION FairSpec
CONSTANTS
  Jobs <- AllJobs
  NSlots = 2
  MaxCrashes = 2
  MaxFailures = 1
  MaxEdits = 1
INVARIANTS
  CommandOnce
  RecordsAreTrue
PROPERTIES
  RecoveryConcludes
  DueSlotsMoveOn
CHECK_DEADLOCK FALSE
