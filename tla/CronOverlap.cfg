SPECIFICATION Spec
CONSTANTS
  Jobs <- Prompts
  NSlots = 2
  MaxCrashes = 1
  MaxFailures = 0
  MaxEdits = 0
INVARIANT OneAtATime
CHECK_DEADLOCK FALSE
