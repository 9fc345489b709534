SPECIFICATION Spec
CHECK_DEADLOCK FALSE
CONSTANTS
  Nil = Nil
  d1 = d1
  d2 = d2
  Teams <- MCTeams
  FirstWorlds <- MCFirstWorlds
  Revisions <- MCRevisions
  OtherAgents <- MCOtherAgents
  Registry = "default"
  AgentTaskQueueURL = Nil
  TaskQueueURL = "redis"
  DefaultIdle = 2
  LastStart <- MCLastStart
  MaxRuns <- MCMaxRuns
  MaxOpen <- MCMaxOpen
  MaxClock = 3
  MaxEdits <- MCMaxEdits
  MaxFaults = 1
INVARIANTS
  ControlIsCurrent
PROPERTIES
  PruneKeeps
  
