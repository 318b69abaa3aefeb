SPECIFICATION Spec
CONSTANTS
  MaxTasks = 3
  Conversation = {1}
  Root = 1
  HostTasks <- Foreground
  HandlerCreates <- CreateChild
  HandlerNext <- Waits
  AbortTargets = {1}
  AbortScopes = {}
  FaultTargets = {}
  MaxCrashes = 0
  MaxRegistryChanges = 0
INVARIANTS
  NoWaitCycle
  NothingStranded
  AbortRunsAboveNothing
PROPERTIES
  KeepsPromise
CHECK_DEADLOCK FALSE
