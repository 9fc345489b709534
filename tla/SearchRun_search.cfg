SPECIFICATION FairSpec
CONSTANTS
  Config <- Edited
  Scores = {1}
  MaxActions = 2
  MaxTasks = 8
  TimeoutSet = TRUE
  MaxFaults = 1
  MayReject = TRUE
  MayDelete = TRUE
CHECK_DEADLOCK FALSE
INVARIANTS
  TreeIsConsistent
  SearchIsBounded
PROPERTIES
  NodesMoveForward
  SearchEnds
