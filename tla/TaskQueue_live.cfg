SPECIFICATION FairSpec
CONSTANTS
  p1 = p1
  p2 = p2
  w1 = w1
  w2 = w2
  w3 = w3
  Tasks = {t1}
  Pods = {p1, p2}
  Workers = {w1, w2, w3}
  PodOf <- MCPodOf3
  MaxRetries = 2
  MaxFaults = 1
  MaxSteals = 1
  LoseWrites = FALSE
CHECK_DEADLOCK FALSE
PROPERTIES
  EveryTaskAnswered
  
