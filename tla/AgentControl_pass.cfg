SPECIFICATION Spec
CHECK_DEADLOCK FALSE
CONSTANTS
  Nil = Nil
  one = one
  two = two
  text = text
  tool = tool
  TwoTo31 = 128
  DefaultLimits <- MCDefaultLimits
  ClusterAudit <- MCClusterAudit
  InjectEnv <- MCInjectEnv
  OperatorQueue = Nil
  MaxGatewayCapabilities = 2
  AgentSpecs <- MCAgentSpecs
  FirstWorld <- MCFirstWorld
  Values <- MCValues
  StepTokens = {2}
  DayLength = 1
  MaxClock = 2
  LastStep = 1
  MaxSteps = 1
  MaxEdits = 1
  MaxFaults = 1
  Resyncs = TRUE
INVARIANTS
  
  BudgetStops

  
