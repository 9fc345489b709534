SPECIFICATION Spec
CONSTANTS
  Pipeline <- Chain
  Outputs = {"again", "stop"}
  MaxTasks = 6
  TimeoutSet = TRUE
  MaxTokens = 0
  TaskTokens = 1
  Thinking = 0
  MaxFaults = 1
  MayReject = TRUE
  MayDelete = TRUE
CHECK_DEADLOCK FALSE
INVARIANTS
  StatusIsConsistent
  ResubmissionBound
  SpendIsExact
PROPERTIES
  TerminalIsFinal
