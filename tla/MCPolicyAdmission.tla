------------------------- MODULE MCPolicyAdmission -------------------------
(* An instance of PolicyAdmission for TLC: int32 has 4 bits. *)
EXTENDS PolicyAdmission

CONSTANTS small, large, shell, web, ag1, ag2

With(limits) == [f \in LimitFields |-> IF f \in DOMAIN limits THEN limits[f] ELSE Nil]

MCPolicies ==
  { [NoPolicy EXCEPT !.mode = "Enforce", !.limits = With([maxTokens |-> 3, maxTimeout |-> 4]), !.trust = "external"],
    [NoPolicy EXCEPT !.limits = With([maxTokens |-> 2, maxDaily |-> 2, minTimeout |-> 3]), !.toolDeny = {shell},
                     !.trust = "sandbox", !.requires = {"allowList"}],
    [NoPolicy EXCEPT !.limits = With([minTimeout |-> 5, maxThinking |-> 1]), !.mode = "Warn", !.validation = "schema"],
    [NoPolicy EXCEPT !.requires = {"budgetRef", "audit"}, !.mode = "Enforce", !.allowed = {{small}}, !.toolDeny = {web}],
    [NoPolicy EXCEPT !.denied = {{large}}, !.allowed = {{large}}, !.validation = "pattern",
                     !.limits = With([maxAnswer |-> 2, maxConcurrent |-> 1])] }

Limits(daily, tokens, timeout) ==
  [daily |-> daily, tokens |-> tokens, timeout |-> timeout, retries |-> 3,
   thinking |-> 2, answer |-> Nil]

MCDefaultLimits ==
  [daily |-> 0, tokens |-> 3, timeout |-> 4, retries |-> 3, thinking |-> Nil, answer |-> Nil]

MCAgents ==
  { [has |-> {}, limits |-> Nil, model |-> small],
    [has |-> {"budgetRef", "audit"}, limits |-> Limits(0, 3, 4), model |-> small],
    [has |-> {"budgetRef", "audit", "allowList"}, limits |-> Limits(3, 9, 12), model |-> large] }

MCAgentNames == <<ag1, ag2>>

MCPipelines == { <<{"pattern", "schema"}, {"pattern"}>> }
=============================================================================
