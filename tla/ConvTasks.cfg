SPECIFICATION FairSpec
CONSTANTS
  Conversation = {1, 2}
  Parent <- Family
  Drafts <- ToTheParent
  FollowUps <- Contracted
  QueueModes <- OneEach
  Cancellable = {}
  Deletable = {1}
  MaxSubmitted = 2
  Budget = 2
  MaxRounds = 1
  MaxRestarts = 1
INVARIANTS
  TaskRunsHandBack
  DeletedIsQuiet
PROPERTIES
  EverySubmissionSettles
  DeletionConcludes
CHECK_DEADLOCK FALSE
