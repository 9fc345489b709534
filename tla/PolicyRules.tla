----------------------------- MODULE PolicyRules -----------------------------
(***************************************************************************)
(* How several SwarmPolicies become one effective policy, what that policy *)
(* says of an agent or a team, and how it clamps what an agent pod is told *)
(* (internal/controller/swarmpolicy_merge.go, swarmpolicy_effective.go,    *)
(* internal/webhook/swarm*_policy_webhook.go).  Only operators: the        *)
(* modules PolicyAdmission and AgentControl use them.                      *)
(*                                                                         *)
(* A pointer is a number or Nil.  Strings of the code that are only        *)
(* compared (tool names, output patterns) are model values; a glob is the  *)
(* set of the models it matches.                                           *)
(***************************************************************************)
EXTENDS Integers, Sequences, SequencesExt

CONSTANTS
  Nil,           \* a nil pointer
  TwoTo31,       \* 2^31, scaled down
  DefaultLimits  \* for an agent that sets none: 8000 tokens, 120 s, 3 retries

ASSUME WidthAssumption == TwoTo31 \in Nat \ {0}

ASSUME NilAssumption == Nil \notin Int

Ceilings == {"maxDaily", "maxTokens", "maxTimeout", "maxConcurrent", "maxThinking", "maxAnswer"}
LimitFields == Ceilings \cup {"minTimeout"}
NoLimits == [f \in LimitFields |-> Nil]

trustLevelOrder == [internal |-> 0, external |-> 1, sandbox |-> 2]
validationLevelOrder == [none |-> 0, pattern |-> 1, schema |-> 2, semantic |-> 3]
enforcementModeOrder == [Audit |-> 0, Warn |-> 1, Enforce |-> 2]

Limit == (Nat \ {0}) \cup {Nil}

\* The guardrail limits of an agent.  Only a daily limit of 0 means that there
\* is none; the others then have their default.
AgentLimits ==
  [daily : Nat, tokens : Int, timeout : Int, retries : Int, thinking : Limit, answer : Limit]

ASSUME DefaultsAssumption == DefaultLimits \in AgentLimits

\* What the API server lets users write.  (A timeout below the range of int32 is
\* left out.)
ValidPolicy(p) ==
  /\ p.mode \in {"Audit", "Warn", "Enforce"} /\ p.validation \in {"none", "pattern", "schema", "semantic"}
  /\ p.trust \in {"internal", "external", "sandbox"} \/ p.trust = Nil
  /\ p.limits \in [LimitFields -> Limit]
  /\ p.limits["minTimeout"] # Nil /\ p.limits["maxTimeout"] # Nil =>
       p.limits["minTimeout"] <= p.limits["maxTimeout"]

ValidAgent(a) ==
  a.limits # Nil => a.limits \in AgentLimits /\ a.limits.timeout >= -TwoTo31

\* The conversion int32(x) of an int.
int32(x) == ((x + TwoTo31) % (2 * TwoTo31)) - TwoTo31

minPtr(a, b) == IF b = Nil THEN a ELSE IF a = Nil \/ b < a THEN b ELSE a
maxPtr(a, b) == IF b = Nil THEN a ELSE IF a = Nil \/ b > a THEN b ELSE a

\* Mutant: the last policy's limits win.
LastLimits(dst, src) == [f \in LimitFields |-> IF src[f] = Nil THEN dst[f] ELSE src[f]]

mergeLimits(dst, src) ==
  [f \in LimitFields |-> IF f \in Ceilings THEN minPtr(dst[f], src[f])
                                           ELSE maxPtr(dst[f], src[f])]

\* Mutant: the last level wins.
LastLevel(order, a, b) == b

Stricter(order, a, b) == IF order[b] > order[a] THEN b ELSE a

\* The patterns that every allow list contains, compared as strings.
intersectAllowLists(lists) ==
  {p \in UNION lists : \A l \in lists : p \in l}

(***************************************************************************)
(* A policy is [mode, requires, limits, toolDeny, trust, validation,       *)
(* denyPatterns, allowed, denied]; an absent section is its empty value.   *)
(* The effective policy has the same fields, which is what merging leaves  *)
(* of EffectivePolicySpec.                                                 *)
(***************************************************************************)
NoPolicy ==
  [mode |-> "Audit", requires |-> {}, limits |-> NoLimits, toolDeny |-> {},
   trust |-> Nil, validation |-> "none", denyPatterns |-> {}, allowed |-> {}, denied |-> {}]

MergeOne(eff, pol) ==
  [eff EXCEPT
    !.mode         = Stricter(enforcementModeOrder, @, pol.mode),
    !.requires     = @ \cup pol.requires,
    !.limits       = mergeLimits(@, pol.limits),
    !.toolDeny     = @ \cup pol.toolDeny,
    !.trust        = IF pol.trust = Nil THEN @
                     ELSE IF @ = Nil THEN pol.trust
                     ELSE Stricter(trustLevelOrder, @, pol.trust),
    !.validation   = Stricter(validationLevelOrder, @, pol.validation),
    !.denyPatterns = @ \cup pol.denyPatterns,
    !.denied       = @ \cup pol.denied]

\* What the loop has made of the first n policies.
MergeLoop(policies) ==
  LET eff[n \in 0 .. Len(policies)] ==
        IF n = 0 THEN NoPolicy ELSE MergeOne(eff[n - 1], policies[n])
  IN  eff

\* policies is the list the API returned; nil when it is empty.
MergePolicies(policies) ==
  IF policies = <<>> THEN Nil
  ELSE [MergeLoop(policies)[Len(policies)] EXCEPT
         !.allowed = intersectAllowLists({p.allowed : p \in ToSet(policies)} \ {{}})]

Conflicting(eff) ==
  /\ eff.limits.minTimeout # Nil /\ eff.limits.maxTimeout # Nil
  /\ eff.limits.minTimeout > eff.limits.maxTimeout

\* Mutant: the first policies with a timeout.
FirstTimeoutPolicies(policies) ==
  LET first(f) == CHOOSE i \in DOMAIN policies : policies[i].limits[f] # Nil
                    /\ \A j \in 1 .. i - 1 : policies[j].limits[f] = Nil
  IN  [minPol |-> first("minTimeout"), maxPol |-> first("maxTimeout")]

\* The policies a conflict names: who asks for the longest minimum, who for
\* the shortest maximum; the first of equals.
findTimeoutPolicies(policies) ==
  LET min(i) == policies[i].limits.minTimeout
      max(i) == policies[i].limits.maxTimeout
      setMin == {i \in DOMAIN policies : min(i) # Nil}
      setMax == {i \in DOMAIN policies : max(i) # Nil}
  IN  [minPol |-> CHOOSE i \in setMin : \A j \in setMin :
                    min(j) < min(i) \/ (min(j) = min(i) /\ i <= j),
       maxPol |-> CHOOSE i \in setMax : \A j \in setMax :
                    max(j) > max(i) \/ (max(j) = max(i) /\ i <= j)]

\* What is stored in a policy's status: conflicting timeouts are dropped.
sanitizeEffectivePolicy(eff) ==
  IF eff # Nil /\ Conflicting(eff)
  THEN [eff EXCEPT !.limits = [@ EXCEPT !.minTimeout = Nil, !.maxTimeout = Nil]]
  ELSE eff

-----------------------------------------------------------------------------
(* Compliance of an agent and of a team *)

(***************************************************************************)
(* An agent is [has, limits, model]: which of budgetRef, audit, allowList  *)
(* it has, its guardrail limits (daily, tokens, timeout, retries;          *)
(* thinking, answer) or Nil, and its model.                                *)
(***************************************************************************)
checkRequirements(agent, requires) == requires \ agent.has

checkLimits(agent, limits) ==
  IF agent.limits = Nil THEN {}
  ELSE LET over(f, value) == limits[f] # Nil /\ value > limits[f]
       IN  {c \in {"dailyTokens", "tokensPerCall", "timeoutSeconds"} :
             \/ c = "dailyTokens" /\ over("maxDaily", agent.limits.daily)
             \/ c = "tokensPerCall" /\ over("maxTokens", int32(agent.limits.tokens))
             \/ c = "timeoutSeconds" /\ over("maxTimeout", int32(agent.limits.timeout))
             \/ c = "timeoutSeconds" /\ limits.minTimeout # Nil
                /\ int32(agent.limits.timeout) < limits.minTimeout}

globMatch(pattern, name) == name \in pattern

checkModels(model, eff) ==
     (IF \E p \in eff.denied : globMatch(p, model) THEN {"denied"} ELSE {})
  \cup (IF eff.allowed # {} /\ ~(\E p \in eff.allowed : globMatch(p, model))
        THEN {"allowed"} ELSE {})

EvaluateAgentCompliance(agent, eff) ==
  IF eff = Nil THEN {}
  ELSE checkRequirements(agent, eff.requires) \cup checkLimits(agent, eff.limits)
       \cup checkModels(agent.model, eff)

\* The answer of an admission webhook to an object with these violations.
applyEnforcementMode(mode, violations) ==
  CASE violations = {}  -> "allowed"
    [] mode = "Enforce" -> "denied"
    [] mode = "Warn"    -> "warned"
    [] OTHER            -> "audited"

HandleAgent(agent, policies) ==
  LET eff == MergePolicies(policies)
  IN  IF eff = Nil THEN "allowed"
      ELSE applyEnforcementMode(eff.mode, EvaluateAgentCompliance(agent, eff))

\* step is the set of the validation kinds a pipeline step configures.
checkStepValidationLevel(step, minLevel) ==
  minLevel = "none" \/ minLevel \in step

HandleTeam(pipeline, policies) ==
  LET eff == MergePolicies(policies)
  IN  IF eff = Nil THEN "allowed"
      ELSE applyEnforcementMode(eff.mode,
             {i \in DOMAIN pipeline : ~checkStepValidationLevel(pipeline[i], eff.validation)})

-----------------------------------------------------------------------------
(* What an agent pod is told *)

\* Mutant: no daily limit counts as the lowest one.
ApplyLowest(l, eff) ==
  IF eff = Nil THEN l
  ELSE [l EXCEPT !.tokens  = minPtr(@, eff.limits.maxTokens),
                 !.timeout = maxPtr(minPtr(@, eff.limits.maxTimeout), eff.limits.minTimeout),
                 !.daily   = minPtr(@, eff.limits.maxDaily)]

\* An agent value of 0 means no daily limit.
applyPolicyLimits(l, eff) ==
  IF eff = Nil THEN l
  ELSE LET p == eff.limits
           capped == minPtr(l.timeout, p.maxTimeout)
       IN  [l EXCEPT !.tokens  = minPtr(@, p.maxTokens),
                     !.timeout = maxPtr(capped, p.minTimeout),
                     !.daily   = IF p.maxDaily # Nil /\ (@ = 0 \/ @ > p.maxDaily)
                                 THEN p.maxDaily ELSE @]

clampOptionalInt32(agent, policy) == minPtr(agent, policy)

applyPolicyThinkingLimits(l, eff) ==
  IF eff = Nil THEN l
  ELSE [l EXCEPT !.thinking = clampOptionalInt32(@, eff.limits.maxThinking),
                 !.answer   = clampOptionalInt32(@, eff.limits.maxAnswer)]

SpecLimits(agent) ==
  IF agent.limits = Nil THEN DefaultLimits
  ELSE [agent.limits EXCEPT
         !.tokens  = IF @ > 0 THEN @ ELSE DefaultLimits.tokens,
         !.timeout = IF @ > 0 THEN @ ELSE DefaultLimits.timeout,
         !.retries = IF @ > 0 THEN @ ELSE DefaultLimits.retries]

PodLimits(agent, eff) ==
  applyPolicyThinkingLimits(applyPolicyLimits(SpecLimits(agent), eff), eff)

buildPolicyEnvVars(eff) ==
  IF eff = Nil THEN [toolDeny |-> {}, trust |-> Nil]
  ELSE [toolDeny |-> eff.toolDeny, trust |-> eff.trust]
=============================================================================
