SPECIFICATION Spec
CHECK_DEADLOCK FALSE
CONSTANTS
  Nil = Nil
  t1 = t1
  t2 = t2
  r1 = r1
  r2 = r2
  Triggers <- MCTriggers
  Requests = {r1, r2}
  Modes <- MCModes
  Due = {0, 3}
  Day = 9
  Start = 1
  Timeout = 1
  SseSlots = 1
  Streaming = TRUE
  LastTick <- MCLastTick
  MaxEdits <- MCMaxEdits
  MaxCompletions = 2
  MaxFaults = 1
INVARIANTS
  
  AnswerIsTrue

  
