SPECIFICATION Spec
CONSTANTS
  p1 = p1
  p2 = p2
  w1 = w1
  w2 = w2
  w3 = w3
  Tasks = {t1, t2}
  Pods = {p1, p2}
  Workers = {w1, w2}
  PodOf <- MCPodOf
  MaxRetries = 1
  MaxFaults = 2
  MaxSteals = 0
  LoseWrites = FALSE
CHECK_DEADLOCK FALSE
INVARIANTS
  TypeOK
  NoTaskLost
  
  OneAttemptAtATime
  AttemptsAreOrdered
  FailedIsDeadLettered
PROPERTIES
  LedgerSpec
