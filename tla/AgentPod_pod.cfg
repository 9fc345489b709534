CONSTANTS
  s1 = s1
  s2 = s2
  t1 = t1
  t2 = t2
  t3 = t3
  Remote = Remote
  Slots = {s1, s2}
  Tasks = {t1, t2, t3}
  Worlds <- MCWorlds
  FailureThreshold = 1
  HalfOpenMaxCalls = 1
  MaxDispatchCalls = 1
  MaxDispatchDepth = 2
  MaxSearchCalls = 1
  MaxAdvisorCalls = 1
  SandboxMaxTotal = 1
  DailyLimit = 1
  c1 = c1
  c2 = c2
  x1 = x1
  x2 = x2
  Calls = {c1, c2}
  Sessions = {x1, x2}
  MaxSessions = 1
  ChanCap = 1
SPECIFICATION FairGatewaySpec
CHECK_DEADLOCK FALSE
INVARIANTS
  ProbeInFlight
  DailyBudgetHolds
  
PROPERTIES
  PodAndGatewayProgress
