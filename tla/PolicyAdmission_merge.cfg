SPECIFICATION Spec
CHECK_DEADLOCK FALSE
CONSTANTS
  Nil = Nil
  TwoTo31 = 8
  small = small
  large = large
  shell = shell
  web = web
  Policies <- MCPolicies
  Agents <- MCAgents
  ag1 = ag1
  ag2 = ag2
  AgentNames <- MCAgentNames
  Pipelines <- MCPipelines
  DefaultLimits <- MCDefaultLimits
  PolicyBatchSize = 2
  MaxPolicies = 3
  MaxEdits = 3
  MaxFaults = 1
INVARIANTS
  PoliciesAreObeyed
  PolicyStatusIsCurrent
PROPERTIES
  AddingNeverRelaxes
