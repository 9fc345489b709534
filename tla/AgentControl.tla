---------------------------- MODULE AgentControl ----------------------------
(***************************************************************************)
(* The SwarmAgent controller over one agent: a pass reads the agent and    *)
(* everything it refers to, one object after the other, enforces its       *)
(* budgets, writes the prompt's ConfigMap, the Deployment, the             *)
(* NetworkPolicy and the ScaledObject, and stores the status               *)
(* (internal/controller/swarmagent_controller.go, keda.go).                *)
(*                                                                         *)
(* While it does so users edit what it reads, steps of runs complete, KEDA *)
(* scales the Deployment and calls fail.  The passes of one agent never    *)
(* overlap, and a key that is added during a pass waits for the next one.  *)
(***************************************************************************)
EXTENDS AgentDeployment

CONSTANTS
  AgentSpecs,   \* the specs a user gives the agent
  FirstWorld,   \* the other objects at first, by kind
  Values,       \* what they may become
  StepTokens,   \* the tokens of a step
  DayLength,    \* ticks in 24 hours
  MaxClock,     \* bound on the clock
  MaxSteps,     \* bound on completed steps
  LastStep,     \* when no more of them complete
  MaxEdits,     \* bound on the users' edits
  MaxFaults,    \* bound on failed calls and on KEDA's changes
  Resyncs       \* do the informers resync, as they do every ten hours?

ASSUME DayAssumption == DayLength \in Nat \ {0}

VARIABLES
  agent,     \* spec and metadata of the agent
  world,     \* the other objects a pass reads, by kind
  steps,     \* completed steps that count for this agent: [tokens, at, via]
  clock,
  status,    \* the stored conditions: [exceeded, ready, reasoning, registry, degraded, advisors]
  dep,       \* the Deployment, Nil before it exists
  pods,      \* its ready replicas
  prompt,    \* the content of the prompt's ConfigMap
  netpol,    \* the egress of the NetworkPolicy, Nil when there is none
  scaled,    \* the ScaledObject
  account,   \* which of ServiceAccount, Role and RoleBinding exist
  ensured,   \* what this operator process has made sure of
  pc, in,    \* where the pass is and what it has read
  fresh,     \* has the agent the resourceVersion the pass read?
  queued,    \* is the agent's key in the work queue?
  wakeAt,    \* when RequeueAfter adds it again, Nil for never
  unseen,    \* the kinds of objects whose present state no pass has read
  edits, faults

vars == <<agent, world, steps, clock, status, dep, pods, prompt, netpol, scaled, account,
          ensured, pc, in, fresh, queued, wakeAt, unseen, edits, faults>>

objects == <<dep, pods, prompt, netpol, scaled, account, ensured>>
outside == <<agent, world, steps, clock, edits>>

Kinds == {"settings", "memory", "configMap", "secret", "key", "bindings", "registry", "policy",
          "others", "addresses", "budget"}

\* The agents a changed run, prompt source, setting or other agent brings
\* back.  A run brings the agent it names and those of its roles, not one a
\* registry lookup chose; the other agents matter to gateways only.
runToAgents(via) == via = "role"
configMapToAgents == agent.promptFrom = "configMap"
secretToAgents == agent.promptFrom = "secret"
settingsToAgents == agent.settings # <<>>
agentToGateways == agent.gateway # Nil

\* SetupWithManager: the changes that bring the agent back.
Watched(kind) ==
  \/ kind \in {"agent", "steps"}
  \/ kind = "configMap" /\ configMapToAgents
  \/ kind = "secret" /\ secretToAgents
  \/ kind = "settings" /\ settingsToAgents
  \/ kind = "others" /\ agentToGateways

Account == {"ServiceAccount", "Role", "RoleBinding"}

Fault == faults < MaxFaults /\ faults' = faults + 1

NewStatus ==
  [exceeded |-> Nil, ready |-> Nil, reasoning |-> Nil, registry |-> Nil,
   degraded |-> FALSE, advisors |-> Nil]

Init ==
  /\ agent \in AgentSpecs
  /\ world = FirstWorld
  /\ steps = <<>> /\ clock = 0
  /\ status = NewStatus
  /\ dep = Nil /\ pods = 0 /\ prompt = Nil /\ netpol = Nil /\ scaled = Nil
  /\ account = {} /\ ensured = {}
  /\ pc = "idle" /\ in = Nil /\ fresh = TRUE
  /\ queued = TRUE /\ wakeAt = Nil /\ unseen = {}
  /\ edits = 0 /\ faults = 0

-----------------------------------------------------------------------------
(* A pass *)

\* Mutant: an error is logged and not returned.
PassEndsQuietly(s, failed, after) ==
  /\ pc' = "idle" /\ in' = Nil
  /\ status' = IF fresh THEN s ELSE status
  /\ queued' = (queued \/ ~fresh \/ s # status)
  /\ wakeAt' = after
  /\ UNCHANGED fresh

\* The deferred Status().Update.  Without a change it stores nothing, and a
\* change is an event of the agent itself.  An error, the conflict of this
\* update included, puts the key back.
PassEnds(s, failed, after) ==
  /\ pc' = "idle" /\ in' = Nil
  /\ status' = IF fresh THEN s ELSE status
  /\ queued' = (queued \/ failed \/ ~fresh \/ s # status)
  /\ wakeAt' = after
  /\ UNCHANGED fresh

PassFails(reason) ==
  /\ PassEnds([in.status EXCEPT !.ready = reason], TRUE, Nil)
  /\ UNCHANGED <<objects, outside, unseen>>

\* Once per operator process and namespace.
ensureDefaultRegistry ==
  IF "registry" \in ensured THEN UNCHANGED <<world, ensured>>
  ELSE /\ world' = [world EXCEPT !.registry = @ \cup {"default"}]
       /\ ensured' = ensured \cup {"registry"}

\* A timer that another event overtakes is forgotten here; the work queue
\* keeps it, which only adds a pass.
Get ==
  /\ pc = "idle" /\ queued
  /\ queued' = FALSE /\ wakeAt' = Nil
  /\ pc' = "resolve" /\ fresh' = TRUE
  /\ in' = [agent |-> agent, status |-> status]
  /\ ensureDefaultRegistry
  /\ unseen' = unseen \ {"agent"}
  /\ UNCHANGED <<dep, pods, prompt, netpol, scaled, account, agent, steps, clock, edits, status, faults>>

\* What a call that fails here leaves in the condition Ready.
FailureReasons ==
  CASE pc = "resolve" -> {in.status.ready, "PromptResolutionError", "APIKeyResolutionError",
                          "MCPResolutionError"}
    [] pc = "budget"  -> {in.status.ready}
    [] pc = "network" -> {"NetworkPolicyError"}
    [] OTHER          -> {"ReconcileError"}

CallFails ==
  /\ pc \in {"resolve", "budget", "prompt", "deployment", "network"} /\ Fault
  /\ \E reason \in FailureReasons : PassFails(reason)

loadSettingsRefs(a) == [i \in DOMAIN a.settings |-> world.settings[a.settings[i]]]

loadSwarmMemory(a) == IF a.memory THEN world.memory ELSE Nil

resolveSystemPrompt(a) == IF a.promptFrom = Nil THEN a.prompt ELSE world[a.promptFrom]

\* The resource version of the Secret.
resolveAPIKeyEnvVar(a) == IF a.apiKey = Nil THEN Nil ELSE world.key

reconcileRegistryRef(a) ==
  IF a.registry = Nil \/ a.registry \in world.registry THEN Nil ELSE "RegistryNotFound"

applyReasoningCondition(a, settings) ==
  reasoningConditionReason(mergeReasoningConfig(a, settings), a.limits)

\* Why the inputs cannot be resolved, Nil when they can.  Without a memory or
\* a registry the pass goes on.
ResolutionError(a) ==
  CASE Nil \in ToSet(loadSettingsRefs(a)) -> "SettingsError"
    [] a.promptFrom # Nil /\ resolveSystemPrompt(a) = Nil -> "PromptResolutionError"
    [] a.apiKey # Nil /\ resolveAPIKeyEnvVar(a) = Nil -> "APIKeyResolutionError"
    [] Unresolved(a.tools, world.bindings) # {} -> "MCPResolutionError"
    [] OTHER -> Nil

Inputs(a) ==
  [agent |-> a, settings |-> loadSettingsRefs(a), memory |-> loadSwarmMemory(a),
   prompt |-> resolveSystemPrompt(a), key |-> resolveAPIKeyEnvVar(a),
   servers |-> resolveMCPServers(a.tools, world.bindings)]

\* Missing settings leave Ready as it was.
Resolve ==
  /\ pc = "resolve"
  /\ LET error == ResolutionError(in.agent)
         known == IF error = "SettingsError" THEN in.status
                  ELSE [in.status EXCEPT !.reasoning =
                          applyReasoningCondition(in.agent, loadSettingsRefs(in.agent))]
     IN  IF error # Nil
         THEN /\ PassEnds([known EXCEPT !.ready = IF error = "SettingsError" THEN @ ELSE error], TRUE, Nil)
              /\ UNCHANGED unseen
         ELSE /\ in' = [read |-> Inputs(in.agent), agent |-> in.agent, after |-> Nil,
                        status |-> [known EXCEPT !.registry = reconcileRegistryRef(in.agent)]]
              /\ pc' = "budget"
              /\ unseen' = unseen \ {"settings", "memory", "configMap", "secret", "key", "bindings", "registry"}
              /\ UNCHANGED <<status, queued, wakeAt, fresh>>
  /\ UNCHANGED <<objects, outside, faults>>

InWindow == SelectSeq(steps, LAMBDA s : s.at >= clock - DayLength)
Usage == FoldLeft(LAMBDA sum, s : sum + s.tokens, 0, InWindow)

\* Mutant: the limit itself is not yet over it.
DailyBudgetLate(a) ==
  IF a.limits # Nil /\ a.limits.daily > 0 /\ Usage > a.limits.daily
  THEN [exceeded |-> "DailyLimitReached", after |-> clock + DayLength + 1]
  ELSE [exceeded |-> Nil, after |-> Nil]

\* Over the limit: come back when the oldest step leaves the window.
reconcileDailyBudget(a) ==
  LET limit == IF a.limits = Nil THEN 0 ELSE a.limits.daily
      oldest == CHOOSE t \in {s.at : s \in ToSet(InWindow)} : \A s \in ToSet(InWindow) : t <= s.at
  IN  IF limit > 0 /\ Usage >= limit
      THEN [exceeded |-> "DailyLimitReached", after |-> oldest + DayLength + 1]
      ELSE [exceeded |-> Nil, after |-> Nil]

\* A budget that cannot be read is logged and counts as not exceeded.
reconcileBudgetRef(a, daily, readable) ==
  IF a.budgetRef /\ readable /\ world.budget # Nil /\ world.budget.hardStop /\ world.budget.exceeded
  THEN "BudgetRefExceeded" ELSE daily

Budget(readable) ==
  /\ pc = "budget"
  /\ IF readable THEN UNCHANGED faults ELSE in.agent.budgetRef /\ Fault
  /\ LET daily == reconcileDailyBudget(in.agent)
     IN  in' = [in EXCEPT !.after = daily.after,
                          !.status.exceeded = reconcileBudgetRef(in.agent, daily.exceeded, readable)]
  /\ pc' = "prompt"
  /\ unseen' = (unseen \ {"steps", "lookups", "budget"}) \cup (IF readable THEN {} ELSE {"budget"})
  /\ UNCHANGED <<objects, outside, status, fresh, queued, wakeAt>>

\* Once made sure of, only the ServiceAccount is looked at again.
AccountEnsured == "account" \in ensured /\ "ServiceAccount" \in account

reconcileAgentServiceAccount ==
  IF AccountEnsured THEN UNCHANGED <<account, ensured>>
  ELSE account' = Account /\ ensured' = ensured \cup {"account"}

\* The three objects are created in order, and any of the calls may fail.
AccountFails ==
  /\ pc = "prompt" /\ Fault
  /\ ~AccountEnsured
  /\ account' \in {account \cup {"ServiceAccount"}, account \cup {"ServiceAccount", "Role"}}
  /\ ensured' = ensured \ {"account"}
  /\ PassEnds([in.status EXCEPT !.ready = "ReconcileError"], TRUE, Nil)
  /\ UNCHANGED <<dep, pods, prompt, netpol, scaled, outside, unseen>>

reconcilePromptConfigMap ==
  /\ pc = "prompt"
  /\ reconcileAgentServiceAccount
  /\ prompt' = assembleSystemPrompt(in.read.prompt, in.read.settings, in.read.servers)
  /\ pc' = "deployment"
  /\ UNCHANGED <<dep, pods, netpol, scaled, outside, status, in, fresh, queued, wakeAt, unseen, faults>>

\* The status of the first policy that has one, else a merge of all; nothing
\* when the list cannot be read.
fetchEffectivePolicy(listed) ==
  LET stored == SelectSeq(world.policy, LAMBDA p : p.effective # Nil)
  IN  IF ~listed \/ world.policy = <<>> THEN Nil
      ELSE IF stored # <<>> THEN stored[1].effective
      ELSE MergePolicies([i \in DOMAIN world.policy |-> world.policy[i].spec])

\* Created, or patched where it differs; the patch has no resourceVersion.  A
\* change of the Deployment is an event of the agent.
reconcileDeployment(listed) ==
  /\ pc = "deployment"
  /\ IF listed THEN UNCHANGED faults ELSE Fault
  /\ LET read == in.read @@ [policy |-> fetchEffectivePolicy(listed), others |-> world.others]
         desired == buildDeployment(read, in.status.exceeded # Nil)
     IN  dep' = desired /\ queued' = (queued \/ desired # dep)
  /\ pc' = "network"
  /\ unseen' = (unseen \ {"policy", "others"}) \cup (IF listed THEN {} ELSE {"policy"})
  /\ UNCHANGED <<pods, prompt, netpol, scaled, account, ensured, outside, status, in, fresh, wakeAt>>

\* A name that does not resolve fails a strict policy.
reconcileNetworkPolicy ==
  /\ pc = "network"
  /\ IF in.agent.network = "strict" /\ \E s \in ToSet(in.read.servers) : world.addresses[s.url] = Nil
     THEN PassFails("NetworkPolicyError")
     ELSE /\ netpol' = IF in.agent.network = "disabled" THEN Nil
                       ELSE buildNetworkPolicy(in.agent, in.read.servers, world.addresses)
          /\ queued' = (queued \/ netpol' # netpol)
          /\ in' = IF in.agent.network = "strict" /\ (in.after = Nil \/ in.after > clock + 1)
                   THEN [in EXCEPT !.after = clock + 1] ELSE in
          /\ pc' = "status"
          /\ unseen' = unseen \ {"addresses"}
          /\ UNCHANGED <<dep, pods, prompt, scaled, account, ensured, outside, status, fresh, wakeAt>>
  /\ UNCHANGED faults

\* Its own Status().Update, when Ready changes; a conflict ends the pass.
syncStatus ==
  /\ pc = "status"
  /\ LET ready == IF pods = dep.replicas /\ pods > 0 THEN "AllReplicasReady" ELSE "Progressing"
         next == [in.status EXCEPT !.ready = ready]
     IN  IF ready # in.status.ready /\ ~fresh
         THEN PassFails(ready)
         ELSE /\ in' = [in EXCEPT !.status = next]
              /\ status' = IF ready # in.status.ready THEN next ELSE status
              /\ queued' = (queued \/ status' # status)
              /\ pc' = "scale"
              /\ UNCHANGED <<objects, outside, fresh, wakeAt, unseen>>
  /\ UNCHANGED faults

\* A pass with MCP servers probes them and comes back after a minute.
reconcileMCPHealth(after) ==
  IF in.read.servers = <<>> THEN after
  ELSE IF after = Nil \/ after > clock + 1 THEN clock + 1 ELSE after

\* Without autoscaling and over a budget there is no ScaledObject; a failure
\* of KEDA's API is only logged.
reconcileKEDA(works) ==
  IF ~works THEN scaled
  ELSE IF in.status.exceeded # Nil \/ in.agent.autoscaling = Nil THEN Nil
  ELSE IF resolveRedisAddress(in.agent) = Nil THEN scaled
  ELSE buildScaledObject(in.agent)

Finish(works) ==
  /\ pc = "scale"
  /\ IF works THEN UNCHANGED faults ELSE Fault
  /\ scaled' = reconcileKEDA(works)
  /\ PassEnds([in.status EXCEPT
                !.degraded = \E s \in ToSet(in.read.servers) : world.addresses[s.url] = Nil,
                !.advisors = <<reconcileAdvisorConnections(in.agent, world.others),
                               reconcileToolAgentConnections(in.agent, world.others)>>],
              FALSE, reconcileMCPHealth(in.after))
  /\ UNCHANGED <<dep, pods, prompt, netpol, account, ensured, outside, unseen>>

-----------------------------------------------------------------------------
(* Everything around the controller *)

\* Mutant: an event during a pass is lost.
ChangedWhenIdle(kind) ==
  /\ unseen' = unseen \cup {kind}
  /\ queued' = (queued \/ (Watched(kind) /\ pc = "idle"))

Changed(kind) ==
  /\ unseen' = unseen \cup {kind}
  /\ queued' = (queued \/ Watched(kind))

EditAgent(spec) ==
  /\ edits < MaxEdits /\ edits' = edits + 1
  /\ spec # agent
  /\ agent' = spec /\ fresh' = FALSE
  /\ Changed("agent")
  /\ UNCHANGED <<world, steps, clock, status, objects, pc, in, wakeAt, faults>>

EditWorld(kind, value) ==
  /\ edits < MaxEdits /\ edits' = edits + 1
  /\ value # world[kind]
  /\ world' = [world EXCEPT ![kind] = value]
  /\ Changed(kind)
  /\ UNCHANGED <<agent, steps, clock, status, objects, pc, in, fresh, wakeAt, faults>>

\* A run's controller stores a completed step.
StepCompletes(tokens, via) ==
  /\ Len(steps) < MaxSteps /\ clock < LastStep
  /\ steps' = Append(steps, [tokens |-> tokens, at |-> clock, via |-> via])
  /\ unseen' = unseen \cup {IF runToAgents(via) THEN "steps" ELSE "lookups"}
  /\ queued' = (queued \/ runToAgents(via))
  /\ UNCHANGED <<agent, world, clock, edits, status, objects, pc, in, fresh, wakeAt, faults>>

\* A pod whose configuration does not load exits and is never ready.
PodsFollow ==
  /\ dep # Nil /\ pods # dep.replicas
  /\ dep.replicas > 0 => Load(dep.env, prompt) # Nil
  /\ pods' = dep.replicas /\ queued' = TRUE
  /\ UNCHANGED <<outside, status, dep, prompt, netpol, scaled, account, ensured, pc, in, fresh, wakeAt, unseen, faults>>

KedaScales(n) ==
  /\ Fault
  /\ scaled # Nil /\ dep # Nil /\ n # dep.replicas
  /\ n >= scaled.min /\ n <= scaled.max
  /\ dep' = [dep EXCEPT !.replicas = n] /\ queued' = TRUE
  /\ UNCHANGED <<outside, status, pods, prompt, netpol, scaled, account, ensured, pc, in, fresh, wakeAt, unseen>>

RequeueAfter ==
  /\ wakeAt # Nil /\ wakeAt <= clock
  /\ wakeAt' = Nil /\ queued' = TRUE
  /\ UNCHANGED <<outside, status, objects, pc, in, fresh, unseen, faults>>

\* The operator dies; its successor lists every agent.
Restart ==
  /\ pc # "idle" /\ Fault
  /\ pc' = "idle" /\ in' = Nil /\ queued' = TRUE /\ wakeAt' = Nil /\ ensured' = {}
  /\ UNCHANGED <<outside, status, dep, pods, prompt, netpol, scaled, account, fresh, unseen>>

Resync ==
  /\ Resyncs /\ unseen # {} /\ ~queued
  /\ queued' = TRUE
  /\ UNCHANGED <<outside, status, objects, pc, in, fresh, wakeAt, unseen, faults>>

Tick ==
  /\ clock < MaxClock
  /\ clock' = clock + 1
  /\ UNCHANGED <<agent, world, steps, edits, status, objects, pc, in, fresh, queued, wakeAt, unseen, faults>>

Pass ==
  \/ Get \/ Resolve \/ Budget(TRUE)
  \/ reconcilePromptConfigMap \/ reconcileDeployment(TRUE) \/ reconcileNetworkPolicy
  \/ syncStatus \/ Finish(TRUE)

Next ==
  \/ Pass
  \/ CallFails \/ AccountFails \/ Budget(FALSE) \/ reconcileDeployment(FALSE) \/ Finish(FALSE)
  \/ Restart
  \/ \E s \in AgentSpecs : EditAgent(s)
  \/ \E k \in Kinds : \E v \in Values[k] : EditWorld(k, v)
  \/ \E t \in StepTokens, via \in {"role", "registry"} : StepCompletes(t, via)
  \/ PodsFollow \/ (\E n \in 0 .. 3 : KedaScales(n))
  \/ RequeueAfter \/ Resync \/ Tick

Steps == {"idle", "resolve", "budget", "prompt", "deployment", "network", "status", "scale"}

\* A worker takes a queued key, and a pass that has begun moves on.
PassMoves == (pc # "idle" \/ queued) /\ pc' \in Steps \ {pc}

\* The manager's workers and timers run, pods follow, informers resync.
Spec ==
  Init /\ [][Next]_vars
  /\ WF_pc(PassMoves) /\ WF_vars(PodsFollow) /\ WF_vars(RequeueAfter)
  /\ WF_vars(Resync) /\ WF_vars(Tick)

-----------------------------------------------------------------------------
Idle == pc = "idle" /\ ~queued /\ dep # Nil

\* What a pass would ask for now.
Desired(exceeded) ==
  buildDeployment(Inputs(agent) @@ [policy |-> fetchEffectivePolicy(TRUE), others |-> world.others], exceeded)

OverDailyLimit == agent.limits # Nil /\ agent.limits.daily > 0 /\ Usage >= agent.limits.daily

OverBudget ==
  agent.budgetRef /\ world.budget # Nil /\ world.budget.hardStop /\ world.budget.exceeded

\* What the pods read out of their environment keeps the policies' limits.
PodObeys(cfg, eff) ==
  /\ cfg # Nil
  /\ eff # Nil =>
       /\ cfg.json.toolDeny = eff.toolDeny /\ cfg.trust = eff.trust
       /\ eff.limits.maxTokens # Nil => cfg.numbers.AGENT_MAX_TOKENS <= eff.limits.maxTokens
       /\ eff.limits.maxDaily # Nil => cfg.numbers.AGENT_DAILY_TOKEN_LIMIT \in 1 .. eff.limits.maxDaily

\* When the controller has nothing left to do for the agent, no change of a
\* watched object is unseen, and unless an unwatched one changed the pods are
\* what the objects of this moment ask for, with the prompt file their
\* annotation is the hash of and a complete account, they start, and what they
\* read out of their environment keeps the policies, whatever failed, was
\* edited or died on the way, in the middle of a pass included.
IdleIsCurrent ==
  Idle => /\ \A k \in unseen : ~Watched(k)
          /\ account = Account
          /\ prompt = dep.prompt
          /\ unseen = {} => /\ dep = Desired(status.exceeded # Nil)
                            /\ PodObeys(Load(dep.env, prompt), fetchEffectivePolicy(TRUE))

\* An agent over its daily limit has no replicas once its controller is
\* through, and KEDA no object to bring them back with unless a call to its
\* API failed.  Steps that a registry lookup gave to the agent do not count
\* until a pass has seen them.
BudgetStops ==
  Idle /\ OverDailyLimit /\ "lookups" \notin unseen =>
    /\ dep.replicas = 0 /\ status.exceeded # Nil
    /\ faults = 0 => scaled = Nil

Resolvable ==
  /\ ResolutionError(agent) = Nil
  /\ agent.network = "strict" => \A s \in ToSet(resolveMCPServers(agent.tools, world.bindings)) :
                                   world.addresses[s.url] # Nil

\* In the end, unless something the agent refers to is missing, the pods are
\* what policies, budgets, settings and secrets ask for: stopped while the
\* agent is over a limit, and back when the window has moved on.
EventuallyCurrent ==
  <>[](pc = "idle" /\ Resolvable => dep # Nil /\ dep = Desired(OverDailyLimit \/ OverBudget) /\ pods = dep.replicas)
=============================================================================
