SPECIFICATION FairSpec
CONSTANTS
  MaxTasks = 2
  Conversation = {1, 2}
  Root = 1
  HostTasks <- BackgroundOrOwner
  HandlerCreates <- CreateChild
  HandlerNext <- Repairs
  AbortTargets = {}
  AbortScopes = {1}
  FaultTargets = {"running"}
  MaxCrashes = 1
  MaxRegistryChanges = 1
INVARIANTS
  OwnersOutliveTheirTasks
  CancellationSettled
PROPERTIES
  AbortConcludes
  CascadeArrives
CHECK_DEADLOCK FALSE
