SPECIFICATION FairSpec
CONSTANTS
  Program <- Mixed
  Values = {"zero", "one"}
  SafeCalls = {1}
  Surfaces = {"tools", "more"}
  MaxCrashes = 2
INVARIANTS
  NeverDiverges
  CompletedAsRecorded
  UnknownStopsScript
PROPERTIES
  ScriptEnds
CHECK_DEADLOCK FALSE
