SPECIFICATION FairSpec
CONSTANTS
  Pipeline <- Join
  Outputs = {"stop"}
  MaxTasks = 4
  TimeoutSet = FALSE
  MaxTokens = 2
  TaskTokens = 1
  Thinking = 0
  MaxFaults = 1
  MayReject = FALSE
  MayDelete = TRUE
CHECK_DEADLOCK FALSE
INVARIANTS
  OrphanBound
PROPERTIES
  TokenBudgetHolds
  ObjectEnds
