--------------------------- MODULE PolicyAdmission ---------------------------
(***************************************************************************)
(* A namespace with policies.  Users add, edit and remove policies and     *)
(* apply agents and teams; once the namespace is labelled as governed, the *)
(* admission webhooks answer every create or update from the policies of   *)
(* that moment.  The policy controller merges the policies, judges the     *)
(* agents, labels the namespace and stores the result                      *)
(* (internal/controller/swarmpolicy_controller.go, internal/webhook).      *)
(*                                                                         *)
(* A pass does the same for every policy of the namespace and one worker   *)
(* runs them, so one flag stands for the keys in the work queue.           *)
(***************************************************************************)
EXTENDS PolicyRules, FiniteSets

CONSTANTS
  Policies,         \* the policy specs users write
  Agents,           \* the agent specs users write
  AgentNames,       \* the agents of the namespace, in list order
  Pipelines,        \* the team pipelines users write
  PolicyBatchSize,  \* agents updated in one pass
  MaxPolicies,      \* bound on the policies in the namespace
  MaxEdits,         \* bound on what users do
  MaxFaults         \* bound on failed calls and restarts

\* What may become of them.
EffectivePolicy ==
  LET All(field) == UNION {p[field] : p \in Policies}
  IN  [mode : DOMAIN enforcementModeOrder, requires : SUBSET All("requires"), limits : [LimitFields -> Limit],
       toolDeny : SUBSET All("toolDeny"), trust : DOMAIN trustLevelOrder \cup {Nil},
       validation : DOMAIN validationLevelOrder, denyPatterns : SUBSET All("denyPatterns"),
       allowed : SUBSET All("allowed"), denied : SUBSET All("denied")]

ASSUME PoliciesAssumption ==
  /\ Nil \notin EffectivePolicy
  /\ PolicyBatchSize \in Nat \ {0}
  /\ \A p \in Policies : ValidPolicy(p)
  /\ \A a \in Agents : ValidAgent(a) /\ a # Nil
  /\ Nil \notin Pipelines
  /\ Len(AgentNames) \in Nat /\ DOMAIN AgentNames = 1 .. Len(AgentNames)
  /\ \A i, j \in DOMAIN AgentNames : AgentNames[i] = AgentNames[j] => i = j

VARIABLES
  policies,    \* the policies, in list order: [version, spec, status]
  agents,      \* by name: [version, spec, cond, mark, checked], spec Nil when absent
  team,        \* the team the webhook let in last, since the policies changed
  governed,    \* the namespace's label
  ensured,     \* policyGovernedEnsured of this operator process
  queued,      \* is a policy's key in the work queue?
  pc, mem,     \* where the pass is and the lists it has read
  edits, faults

vars == <<policies, agents, team, governed, ensured, queued, pc, mem, edits, faults>>

Absent == [version |-> 0, spec |-> Nil, cond |-> Nil, mark |-> Nil, checked |-> FALSE]

SpecsOf(list) == [i \in DOMAIN list |-> list[i].spec]
Specs == SpecsOf(policies)

Fault == faults < MaxFaults /\ faults' = faults + 1
Edit == edits < MaxEdits /\ edits' = edits + 1

Init ==
  /\ policies = <<>> /\ team = Nil
  /\ agents = [n \in ToSet(AgentNames) |-> Absent]
  /\ governed = FALSE /\ ensured = FALSE /\ queued = FALSE
  /\ pc = "idle" /\ mem = Nil
  /\ edits = 0 /\ faults = 0

-----------------------------------------------------------------------------
(* Users and webhooks *)

\* A policy's event.  What was let in before was judged by other policies.
PoliciesChange(list) ==
  /\ Edit
  /\ policies' = list
  /\ agents' = [n \in DOMAIN agents |-> [agents[n] EXCEPT !.checked = FALSE]]
  /\ team' = Nil
  /\ queued' = TRUE
  /\ UNCHANGED <<governed, ensured, pc, mem, faults>>

AddPolicy(p, i) ==
  /\ Len(policies) < MaxPolicies
  /\ PoliciesChange(InsertAt(policies, i, [version |-> edits + 1, spec |-> p, status |-> Nil]))

EditPolicy(p, i) ==
  /\ p # policies[i].spec
  /\ PoliciesChange([policies EXCEPT ![i] = [@ EXCEPT !.version = edits + 1, !.spec = p]])

DeletePolicy(i) == PoliciesChange(RemoveAt(policies, i))

\* An agent's event reaches the policies there are.
agentToPolicy == queued' = (queued \/ policies # <<>>)

\* failurePolicy=fail: in a governed namespace nothing is stored without the
\* webhook's consent.  A webhook that cannot list the policies consents; what
\* is let in unseen is not what the properties speak of.
ApplyAgent(n, a, listed) ==
  /\ Edit
  /\ governed => HandleAgent(a, IF listed THEN Specs ELSE <<>>) # "denied"
  /\ agents' = [agents EXCEPT ![n] = [@ EXCEPT !.version = edits + 1, !.spec = a,
                                              !.checked = governed /\ listed]]
  /\ agentToPolicy
  /\ UNCHANGED <<policies, team, governed, ensured, pc, mem, faults>>

DeleteAgent(n) ==
  /\ Edit
  /\ agents[n].spec # Nil
  /\ agents' = [agents EXCEPT ![n] = Absent]
  /\ agentToPolicy
  /\ UNCHANGED <<policies, team, governed, ensured, pc, mem, faults>>

ApplyTeam(t, listed) ==
  /\ Edit
  /\ governed => HandleTeam(t, IF listed THEN Specs ELSE <<>>) # "denied"
  /\ team' = IF governed /\ listed THEN t ELSE Nil
  /\ UNCHANGED <<policies, agents, governed, ensured, queued, pc, mem, faults>>

-----------------------------------------------------------------------------
(* A pass of the policy controller *)

PassEnds == pc' = "idle" /\ mem' = Nil

\* Reconcile and reconcileNamespace: without policies the namespace is cleaned.
ListPolicies ==
  /\ pc = "idle" /\ queued
  /\ queued' = FALSE
  /\ mem' = [policies |-> policies, effective |-> MergePolicies(Specs), agents |-> Nil, count |-> Nil, more |-> FALSE]
  /\ pc' = IF policies = <<>> THEN "ungovern" ELSE "listAgents"
  /\ UNCHANGED <<policies, agents, team, governed, ensured, edits, faults>>

ListAgents ==
  /\ pc \in {"listAgents", "listForCleanup"}
  /\ mem' = [mem EXCEPT !.agents = agents]
  /\ pc' = IF pc = "listAgents" THEN "judge" ELSE "strip"
  /\ UNCHANGED <<policies, agents, team, governed, ensured, queued, edits, faults>>

\* The pass ends with an error and the key comes back.
ListFails ==
  /\ pc \in {"listAgents", "listForCleanup"} /\ Fault
  /\ PassEnds /\ queued' = TRUE
  /\ UNCHANGED <<policies, agents, team, governed, ensured, edits>>

Listed == {i \in DOMAIN AgentNames : mem.agents[AgentNames[i]].spec # Nil}

\* Writes to an agent that has changed since the list are refused.
Changed == {i \in DOMAIN AgentNames : mem.agents[AgentNames[i]].version # agents[AgentNames[i]].version}

Complies(a) == EvaluateAgentCompliance(a.spec, mem.effective) = {}

\* Mutant: an agent that was judged before is left alone.
ComplianceOnce(a) ==
  IF a.cond # Nil THEN a
  ELSE [a EXCEPT !.cond = [version |-> a.version, ok |-> Complies(a)], !.mark = Complies(a)]

\* The condition, with the generation it was made for, and the label.
updateAgentCompliance(a) ==
  [a EXCEPT !.cond = [version |-> a.version, ok |-> Complies(a)], !.mark = Complies(a)]

\* The agents of a batch: an agent that cannot be written does not count, one
\* that needs no write does.
Batch(failed) ==
  {i \in Listed : Cardinality({j \in Listed : j < i} \ failed) < PolicyBatchSize}

\* Writes the agents of the batch as written has them.  A failure is only
\* logged; after one that is not a conflict the condition may be stored and the
\* label not.
WriteAgents(written, batch, failed, half) ==
  LET of(n, set) == \E i \in set : AgentNames[i] = n
      next == [n \in DOMAIN agents |->
                 CASE of(n, batch \ failed) -> written[n]
                   [] half /\ of(n, (batch \cap failed) \ Changed) ->
                        [written[n] EXCEPT !.mark = agents[n].mark]
                   [] OTHER -> agents[n]]
  IN  /\ agents' = next
      /\ queued' = (queued \/ (next # agents /\ policies # <<>>))

\* The sets of agents whose calls fail without a conflict.
CallFailures ==
  {{}} \cup {{i} : i \in IF faults < MaxFaults THEN Listed \ Changed ELSE {}}

Judge ==
  /\ pc = "judge"
  /\ \E broken \in CallFailures, half \in BOOLEAN :
       LET failed == broken \cup Changed
           updated == Cardinality(Batch(failed) \ failed)
       IN  /\ faults' = faults + Cardinality(broken)
           /\ WriteAgents([n \in DOMAIN agents |-> updateAgentCompliance(agents[n])], Batch(failed), failed, half)
           /\ mem' = [mem EXCEPT
                !.count = [agents |-> Cardinality(Listed),
                           compliant |-> Cardinality({i \in Listed : Complies(mem.agents[AgentNames[i]])})],
                !.more = updated >= PolicyBatchSize /\ updated < Cardinality(Listed)]
  /\ pc' = "status"
  /\ UNCHANGED <<policies, team, governed, ensured, edits>>

ConflictOf(list) ==
  LET named == findTimeoutPolicies(SpecsOf(list))
  IN  IF Conflicting(MergePolicies(SpecsOf(list)))
      THEN [minPol |-> list[named.minPol].version, maxPol |-> list[named.maxPol].version]
      ELSE Nil

NewStatus(list, count) ==
  [effective |-> sanitizeEffectivePolicy(MergePolicies(SpecsOf(list))),
   count |-> count, conflict |-> ConflictOf(list)]

\* Of the listed policies, those that still are what was listed.
updatePolicyStatus(broken) ==
  [i \in DOMAIN policies |->
    IF policies[i].version \notin broken /\ (\E q \in ToSet(mem.policies) : q.version = policies[i].version)
    THEN [policies[i] EXCEPT !.status = NewStatus(mem.policies, mem.count)]
    ELSE policies[i]]

\* Once per operator process; a failure is only logged.
ensurePolicyGovernedLabel(works) ==
  IF ensured \/ ~works THEN UNCHANGED <<governed, ensured>>
  ELSE governed' = TRUE /\ ensured' = TRUE

\* A stored status is an event of its policy; with more agents than a batch
\* the key comes back at once.
StoreStatus(works, broken) ==
  /\ pc = "status"
  /\ works \/ ~ensured
  /\ IF works /\ broken = {} THEN UNCHANGED faults ELSE Fault
  /\ ensurePolicyGovernedLabel(works)
  /\ policies' = updatePolicyStatus(broken)
  /\ queued' = (queued \/ policies' # policies \/ mem.more)
  /\ PassEnds
  /\ UNCHANGED <<agents, team, edits>>

\* Mutant: the cache survives the label.
UngovernKeepsCache(works) ==
  governed' = (governed /\ ~works) /\ UNCHANGED ensured

removePolicyGovernedLabel(works) ==
  governed' = (governed /\ ~works) /\ ensured' = FALSE

\* cleanupNamespace
Ungovern(works) ==
  /\ pc = "ungovern"
  /\ IF works THEN UNCHANGED faults ELSE Fault
  /\ removePolicyGovernedLabel(works)
  /\ pc' = "listForCleanup"
  /\ UNCHANGED <<policies, agents, team, queued, mem, edits>>

removeAgentPolicyState(a) == [a EXCEPT !.cond = Nil, !.mark = Nil]

Strip ==
  /\ pc = "strip"
  /\ \E broken \in CallFailures, half \in BOOLEAN :
       /\ faults' = faults + Cardinality(broken)
       /\ WriteAgents([n \in DOMAIN agents |-> removeAgentPolicyState(agents[n])], Listed, broken \cup Changed, half)
  /\ PassEnds
  /\ UNCHANGED <<policies, team, governed, ensured, edits>>

\* The operator dies; its successor lists the policies there are.
Restart ==
  /\ pc # "idle" /\ Fault
  /\ PassEnds /\ ensured' = FALSE /\ queued' = (policies # <<>>)
  /\ UNCHANGED <<policies, agents, team, governed, edits>>

Next ==
  \/ \E p \in Policies, i \in 1 .. Len(policies) + 1 : AddPolicy(p, i)
  \/ \E p \in Policies, i \in DOMAIN policies : EditPolicy(p, i)
  \/ \E i \in DOMAIN policies : DeletePolicy(i)
  \/ \E n \in DOMAIN agents, a \in Agents, listed \in BOOLEAN : ApplyAgent(n, a, listed)
  \/ \E n \in DOMAIN agents : DeleteAgent(n)
  \/ \E t \in Pipelines, listed \in BOOLEAN : ApplyTeam(t, listed)
  \/ ListPolicies \/ ListAgents \/ ListFails
  \/ Judge
  \/ \E works \in BOOLEAN, broken \in {{}} \cup {{p.version} : p \in ToSet(policies)} : StoreStatus(works, broken)
  \/ \E works \in BOOLEAN : Ungovern(works)
  \/ Strip
  \/ Restart

Spec == Init /\ [][Next]_vars

-----------------------------------------------------------------------------
Enforcing == \E i \in DOMAIN policies : Specs[i].mode = "Enforce"

\* One policy's own reading of an agent, without merging and without int32.
Satisfies(a, p) ==
  LET within(f, v) == p.limits[f] # Nil => v <= p.limits[f]
  IN  /\ p.requires \subseteq a.has
      /\ \A m \in p.denied : ~globMatch(m, a.model)
      /\ a.limits # Nil =>
           /\ within("maxDaily", a.limits.daily)
           /\ within("maxTokens", a.limits.tokens) \/ a.limits.tokens >= TwoTo31
           /\ within("maxTimeout", a.limits.timeout) \/ a.limits.timeout >= TwoTo31
           /\ p.limits.minTimeout # Nil => a.limits.timeout >= p.limits.minTimeout

\* What a namespace with an Enforce policy admits satisfies each of its
\* policies taken alone, Audit and Warn ones included, whatever the order of
\* the list: merging never weakens a requirement, a limit or a deny list.
\* (Numbers beyond int32 wrap around in checkLimits and pass.)
AdmittedComply ==
  Enforcing =>
    /\ \A n \in DOMAIN agents : agents[n].checked =>
         \A i \in DOMAIN Specs : Satisfies(agents[n].spec, Specs[i])
    /\ team # Nil => \E top \in DOMAIN policies :
         /\ \A i \in DOMAIN policies : validationLevelOrder[Specs[i].validation]
                                        <= validationLevelOrder[Specs[top].validation]
         /\ Specs[top].validation = "none" \/
              \A s \in DOMAIN team : Specs[top].validation \in team[s]

\* Whatever an agent asks for, int32 wrap-around included, the limits its pod
\* is given keep every policy's ceilings, and its timeout floors and ceilings
\* unless these conflict, in which case the stored policy has neither.
PodsObeyPolicies ==
  LET merged == MergePolicies(Specs)
      eff == sanitizeEffectivePolicy(merged)
  IN  \A a \in Agents :
        LET pod == PodLimits(a, eff)
            under(i, f, v) == Specs[i].limits[f] # Nil => v # Nil /\ v <= Specs[i].limits[f]
        IN  \A i \in DOMAIN policies :
              /\ under(i, "maxTokens", pod.tokens)
              /\ under(i, "maxDaily", pod.daily)
              /\ Specs[i].limits.maxDaily # Nil => pod.daily > 0
              /\ under(i, "maxThinking", pod.thinking)
              /\ under(i, "maxAnswer", pod.answer)
              /\ ~Conflicting(merged) =>
                   /\ under(i, "maxTimeout", pod.timeout)
                   /\ Specs[i].limits.minTimeout # Nil =>
                        pod.timeout >= Specs[i].limits.minTimeout
              /\ Specs[i].toolDeny \subseteq buildPolicyEnvVars(eff).toolDeny

\* Merging never weakens: every policy of the namespace, taken alone, is met by
\* what admission lets in and by the limits a pod is given.
PoliciesAreObeyed == AdmittedComply /\ PodsObeyPolicies

\* The two policies that a conflict message names are different, and it is
\* their timeouts that the merged limits carry and that exclude each other.
ConflictIsExplained ==
  LET eff == MergePolicies(Specs)
      named == findTimeoutPolicies(Specs)
  IN  policies # <<>> /\ Conflicting(eff) =>
        /\ named.minPol # named.maxPol
        /\ Specs[named.minPol].limits.minTimeout = eff.limits.minTimeout
        /\ Specs[named.maxPol].limits.maxTimeout = eff.limits.maxTimeout

Present == {n \in DOMAIN agents : agents[n].spec # Nil}

\* The agents that every policy together finds fault with.
NonCompliant ==
  LET eff == MergePolicies(Specs)
  IN  {n \in Present : EvaluateAgentCompliance(agents[n].spec, eff) # {}}

\* What a conflict is blamed on is its cause, and when the controller has
\* nothing left to do and no call has failed, the namespace is governed if it
\* has policies and only then, every policy's status is the merge of them all
\* as they are now, with the number of agents that comply, and every agent's
\* condition and label say whether it does, whatever was edited or deleted in
\* the middle of a pass.
PolicyStatusIsCurrent ==
  /\ ConflictIsExplained
  /\ pc = "idle" /\ ~queued /\ faults = 0 =>
       /\ governed <=> policies # <<>>
       /\ LET status == NewStatus(policies, [agents |-> Cardinality(Present),
                                             compliant |-> Cardinality(Present \ NonCompliant)])
          IN  \A i \in DOMAIN policies : policies[i].status = status
       /\ policies # <<>> => \A n \in Present :
            /\ agents[n].cond = [version |-> agents[n].version, ok |-> n \notin NonCompliant]
            /\ agents[n].mark = (n \notin NonCompliant)

\* Allow lists apart, adding a policy never turns a denied agent into an
\* admitted one, never drops a violation, and never relaxes a pod's limits.
AddingNeverRelaxes ==
  [][Len(policies') > Len(policies) /\ policies # <<>> =>
       LET old == MergePolicies(Specs)
           new == MergePolicies(Specs')
       IN  \A a \in Agents :
             /\ EvaluateAgentCompliance(a, old) \ {"allowed"}
                  \subseteq EvaluateAgentCompliance(a, new)
             /\ PodLimits(a, new).tokens <= PodLimits(a, old).tokens
             /\ old.trust # Nil => trustLevelOrder[new.trust] >= trustLevelOrder[old.trust]
             /\ Conflicting(old) => Conflicting(new)]_vars

\* "a model is allowed only if it matches at least one pattern in EVERY policy
\* that specified an allowlist" (swarmpolicy_merge.go).
AllowListsIntersect ==
  Enforcing => \A n \in DOMAIN agents, i \in DOMAIN Specs :
    agents[n].checked /\ Specs[i].allowed # {} =>
      \E p \in Specs[i].allowed : globMatch(p, agents[n].spec.model)
=============================================================================
