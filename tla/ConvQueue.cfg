SPECIFICATION FairSpec
CONSTANTS
  Conversation = {1}
  Parent <- Alone
  Drafts <- Everything
  FollowUps <- Nothing
  QueueModes <- AnyMode
  Cancellable = {1}
  Deletable = {}
  MaxSubmitted = 3
  Budget = 2
  MaxRounds = 1
  MaxRestarts = 0
INVARIANTS
  InputsAccounted
PROPERTIES
  KeepsLedger
  CancelConcludes
CHECK_DEADLOCK FALSE
