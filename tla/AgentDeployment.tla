--------------------------- MODULE AgentDeployment ---------------------------
(***************************************************************************)
(* What the SwarmAgent controller builds for an agent: the system prompt,  *)
(* the environment and volumes of its pods, its NetworkPolicy and its KEDA *)
(* ScaledObject (internal/controller/swarmagent_controller.go, *_gateway,  *)
(* *_advisor, keda.go, reasoning_cascade.go), and what the runtime in such *)
(* a pod reads out of it.  Only operators, from the inputs a pass has read *)
(* to the objects it asks for.                                             *)
(*                                                                         *)
(* An absent or empty field is Nil.  An environment is a function from     *)
(* variable names; a JSON value is the record it encodes; a prompt is the  *)
(* sequence of its parts.                                                  *)
(***************************************************************************)
EXTENDS PolicyRules, FiniteSets, TLC

CONSTANTS
  ClusterAudit,   \* the audit settings in the operator's environment
  InjectEnv,      \* SWARM_AGENT_INJECT_*, with the prefix removed
  OperatorQueue,  \* TASK_QUEUE_URL in the operator's environment
  MaxGatewayCapabilities

\* The variable name with value v, unless v is empty.
Opt(name, v) == IF v = Nil THEN <<>> ELSE name :> v

Or(v, default) == IF v = Nil THEN default ELSE v

\* The last of these records that sets field f.
LastSet(records, f) ==
  LET set == SelectSeq(records, LAMBDA r : r[f] # Nil)
  IN  IF set = <<>> THEN Nil ELSE Last(set)[f]

-----------------------------------------------------------------------------
(* The system prompt *)

\* The deprecated persona and output rules count only without fragments.
FragmentsOf(setting) ==
  IF setting.fragments # <<>> THEN setting.fragments
  ELSE SelectSeq(<<[name |-> "persona", text |-> setting.persona, position |-> "prepend"],
                   [name |-> "output_rules", text |-> setting.outputRules, position |-> "append"]>>,
                 LAMBDA f : f.text # Nil)

\* A fragment keeps the place of its first occurrence, with the text and the
\* position of its last.
assembleSystemPrompt(base, settings, servers) ==
  LET all == FlattenSeq([i \in DOMAIN settings |-> FragmentsOf(settings[i])])
      first == {i \in DOMAIN all : \A j \in 1 .. i - 1 : all[j].name # all[i].name}
      last(name) == Last(SelectSeq(all, LAMBDA f : f.name = name))
      order == SetToSortSeq(first, <)
      kept == SelectSeq([k \in DOMAIN order |-> last(all[order[k]].name)], LAMBDA f : f.text # Nil)
      texts(fs) == [k \in DOMAIN fs |-> fs[k].text]
      guided == SelectSeq(servers, LAMBDA s : s.instructions # Nil)
  IN  texts(SelectSeq(kept, LAMBDA f : f.position = "prepend"))
      \o (IF base = Nil THEN <<>> ELSE <<base>>)
      \o texts(SelectSeq(kept, LAMBDA f : f.position # "prepend"))
      \o (IF guided = <<>> THEN <<>>
          ELSE <<[k \in DOMAIN guided |-> <<guided[k].name, guided[k].instructions>>]>>)
      \o <<"injection defence">>

-----------------------------------------------------------------------------
(* MCP servers: [name, url, capability, auth, instructions, trust] *)

\* bindings is the union of all the registries' bindings, the last one wins.
Unresolved(servers, bindings) ==
  {s \in ToSet(servers) : s.capability # Nil /\ s.capability \notin DOMAIN bindings}

resolveMCPServers(servers, bindings) ==
  [i \in DOMAIN servers |->
    IF servers[i].capability = Nil THEN servers[i]
    ELSE [servers[i] EXCEPT !.url = bindings[servers[i].capability]]]

\* A server's token variable, volume and mount are named after the server.
buildMCPRuntimeConfigs(servers) ==
  [i \in DOMAIN servers |->
    [name |-> servers[i].name, url |-> servers[i].url, auth |-> servers[i].auth]]

buildMCPAuthEnvVars(servers) ==
  [n \in {<<"AGENT_MCP_TOKEN", s.name>> : s \in {x \in ToSet(servers) : x.auth = "bearer"}} |-> "secret"]

buildMCPVolumes(servers) ==
  {s.name : s \in {x \in ToSet(servers) : x.auth = "mtls"}}

\* The prompt's ConfigMap, the certificates and the team's artifact claim.
buildVolumes(agent, servers) ==
  {"system-prompt"} \cup buildMCPVolumes(servers)
  \cup (IF agent.notes.claim = Nil THEN {} ELSE {agent.notes.claim})

effectiveTrust(explicit, agent) ==
  Or(explicit, Or(agent.trust, "external"))

-----------------------------------------------------------------------------
(* The environment of a pod, part by part *)

mergeSettingsEnvVars(settings) ==
  Opt("AGENT_TEMPERATURE", LastSet(settings, "temperature"))
  @@ Opt("AGENT_OUTPUT_FORMAT", LastSet(settings, "format"))
  @@ Opt("AGENT_MEMORY_BACKEND", LastSet(settings, "backend"))

buildRedisMemoryEnvVars(redis) ==
  IF redis = Nil THEN <<>>
  ELSE "AGENT_MEMORY_REDIS_URL" :> redis.secret @@ Opt("AGENT_MEMORY_REDIS_TTL", redis.ttl)

\* The unified URL has the provider as its scheme, pgvector being postgres.
buildVectorStoreMemoryEnvVars(vs) ==
  IF vs = Nil THEN <<>>
  ELSE "AGENT_MEMORY_VECTOR_STORE_PROVIDER" :> vs.provider
       @@ Opt("AGENT_MEMORY_VECTOR_STORE_ENDPOINT", vs.endpoint)
       @@ (IF vs.endpoint = Nil THEN <<>>
           ELSE "AGENT_VECTOR_STORE_URL" :>
                  <<IF vs.provider = "pgvector" THEN "postgres" ELSE vs.provider,
                    vs.endpoint, Or(vs.collection, "agent-memories")>>)

buildMemoryEnvVars(memory) ==
  IF memory = Nil THEN <<>>
  ELSE "AGENT_MEMORY_BACKEND" :> memory.backend
       @@ (CASE memory.backend = "redis" -> buildRedisMemoryEnvVars(memory.redis)
             [] memory.backend = "vector-store" ->
                  buildVectorStoreMemoryEnvVars(memory.vector)
                  @@ Opt("AGENT_EMBEDDING_MODEL", memory.embedding)
             [] OTHER -> <<>>)

\* A queue URL is [address, stream].
appendStreamParam(url, stream) == [url EXCEPT !.stream = stream]

cachedInjectQueueURL ==
  IF "TASK_QUEUE_URL" \in DOMAIN InjectEnv THEN InjectEnv["TASK_QUEUE_URL"] ELSE Nil

\* notes are the annotations and the label a team puts on its agents.  An
\* agent without a team's queue gets a stream of its own.
buildTeamEnvVars(agent) ==
  LET base == Or(cachedInjectQueueURL, OperatorQueue)
  IN
  (IF agent.notes.queueURL # Nil THEN "TASK_QUEUE_URL" :> agent.notes.queueURL
   ELSE IF base # Nil THEN "TASK_QUEUE_URL" :> appendStreamParam(base, <<"agent", agent.name>>)
   ELSE <<>>)
  @@ Opt("AGENT_TEAM_ROUTES", agent.notes.routes)
  @@ Opt("AGENT_TEAM_ROLE", agent.notes.role)
  @@ Opt("AGENT_TEAM_NAME", agent.notes.team)

buildArtifactEnvVars(agent) ==
  Opt("AGENT_ARTIFACT_STORE_URL", agent.notes.store)

buildPluginEnvVars(agent) ==
  Opt("SWARM_PLUGIN_LLM_ADDR", agent.plugins.llm) @@ Opt("SWARM_PLUGIN_QUEUE_ADDR", agent.plugins.queue)

buildObservabilityEnvVars(agent) ==
  Opt("AGENT_LOG_LEVEL", agent.logLevel) @@ Opt("AGENT_VALIDATOR_PROMPT", agent.healthPrompt)

buildCircuitBreakerEnvVars(agent) == Opt("AGENT_CIRCUIT_BREAKER", agent.breaker)

\* Off in the agent wins over the cluster, anything else in the agent too;
\* the redaction patterns of both apply.
buildAuditLogEnvVar(agent) ==
  LET mode == Or(agent.audit.mode, ClusterAudit.mode)
  IN  IF mode \in {Nil, "off"} THEN Nil
      ELSE [mode |-> mode, sink |-> ClusterAudit.sink,
            redact |-> ClusterAudit.redact \cup agent.audit.redact]

\* Settings in order, field by field, then the agent's own.
mergeReasoningConfig(agent, settings) ==
  LET layers == [i \in DOMAIN settings |-> settings[i].reasoning] \o <<agent.reasoning>>
      set == SelectSeq(layers, LAMBDA r : r # Nil)
  IN  [f \in {"mode", "effort", "budget"} |-> LastSet(set, f)]

isClamped(cfg, limits) ==
  /\ limits # Nil /\ limits.thinking # Nil
  /\ cfg.budget # Nil /\ cfg.budget > limits.thinking

reasoningConditionReason(cfg, limits) ==
  IF cfg.mode \in {Nil, "disabled"} THEN "Disabled"
  ELSE IF isClamped(cfg, limits) THEN "ClampedByGuardrail" ELSE "Active"

buildReasoningEnvVars(agent, settings, pod) ==
  LET cfg == mergeReasoningConfig(agent, settings)
  IN  Opt("AGENT_REASONING_MODE", cfg.mode) @@ Opt("AGENT_REASONING_EFFORT", cfg.effort)
      @@ Opt("AGENT_REASONING_BUDGET_TOKENS", cfg.budget)
      @@ Opt("AGENT_MAX_THINKING_TOKENS_PER_CALL", pod.thinking)
      @@ Opt("AGENT_MAX_ANSWER_TOKENS_PER_CALL", pod.answer)

-----------------------------------------------------------------------------
(* Connections to other agents *)

Advisors(agent) == SelectSeq(agent.conns, LAMBDA c : c.role = "advisor")

\* Only advisors that name an agent reach the pod.
buildAdvisorEnvVars(agent) ==
  LET named == SelectSeq(Advisors(agent), LAMBDA c : c.target # Nil)
  IN  IF named = <<>> THEN <<>> ELSE "AGENT_ADVISORS" :> named

\* others gives the ready replicas of the agents that exist.
IsReady(conn, others) ==
  conn.target \in DOMAIN others /\ others[conn.target].ready > 0

\* The condition AdvisorsReady: the reason of the first one that is not.
reconcileAdvisorConnections(agent, others) ==
  LET bad == SelectSeq(Advisors(agent), LAMBDA c : ~IsReady(c, others))
  IN  IF Advisors(agent) = <<>> THEN "NoAdvisors"
      ELSE IF bad = <<>> THEN "AllAdvisorsReady"
      ELSE IF bad[1].target \in DOMAIN others THEN "AdvisorNoReplicas" ELSE "AdvisorNotFound"

reconcileToolAgentConnections(agent, others) ==
  LET tools == SelectSeq(agent.conns, LAMBDA c : c.role = "tool")
  IN  [i \in DOMAIN tools |-> [name |-> tools[i].name, ready |-> IsReady(tools[i], others),
                              trust |-> effectiveTrust(tools[i].trust, agent)]]

hasAllTags(tags, required) == required \subseteq tags

filterCapabilities(gw, entries) ==
  {e \in entries : /\ e.ready > 0
                   /\ ~e.isGateway \/ gw.allowGateways
                   /\ hasAllTags(e.tags, gw.tags)}

\* The capabilities of the agents in the gateway's registry.
resolveGatewayCapabilities(gateway, others) ==
  UNION {{[name |-> c.name, tags |-> c.tags, agent |-> a, ready |-> others[a].ready,
           isGateway |-> others[a].isGateway] : c \in others[a].capabilities} :
         a \in {x \in DOMAIN others \ {gateway.name} :
                  others[x].registry # Nil /\ others[x].registry = gateway.gateway.registry}}

\* The readiest capabilities, then by name, up to the limit, and the dispatch
\* tool unless dispatching is off.  Names are numbers: strings are ordered.
buildGatewayEnvVars(agent, entries) ==
  IF agent.gateway = Nil THEN <<>>
  ELSE LET found == filterCapabilities(agent.gateway, entries)
           better(e) == {x \in found : x.ready > e.ready \/ (x.ready = e.ready /\ x.name < e.name)}
           shown == {e \in found : Cardinality(better(e)) < MaxGatewayCapabilities}
       IN  "AGENT_GATEWAY_CAPABILITIES" :> shown
           @@ "AGENT_GATEWAY_CONFIG" :> [dispatch |-> agent.gateway.dispatch, fallback |-> agent.gateway.fallback]
           @@ "AGENT_GATEWAY_TOOLS" :>
                ({"registry_search"} \cup IF agent.gateway.dispatch = "enabled" THEN {"dispatch"} ELSE {})

-----------------------------------------------------------------------------
(* The objects *)

(***************************************************************************)
(* in holds what a pass has read: [agent, settings, memory, prompt, key,   *)
(* servers, policy, others].  Of two parts that set the same variable the  *)
(* later one wins, so the code's list of parts is written here from its    *)
(* end (f @@ g prefers f).                                                 *)
(***************************************************************************)
buildEnvVars(in) ==
  LET pod == PodLimits(in.agent, in.policy)
      policy == buildPolicyEnvVars(in.policy)
  IN  buildGatewayEnvVars(in.agent, resolveGatewayCapabilities(in.agent, in.others))
      @@ buildAdvisorEnvVars(in.agent)
      @@ buildCircuitBreakerEnvVars(in.agent)
      @@ Opt("AGENT_AUDIT_LOG", buildAuditLogEnvVar(in.agent))
      @@ Opt("AGENT_LOOP_POLICY", in.agent.loop)
      @@ Opt("AGENT_POLICY_FORCE_TRUST_LEVEL", policy.trust)
      @@ Opt("AGENT_POLICY_TOOL_DENY", IF policy.toolDeny = {} THEN Nil ELSE policy.toolDeny)
      @@ buildReasoningEnvVars(in.agent, in.settings, pod)
      @@ buildPluginEnvVars(in.agent)
      @@ buildArtifactEnvVars(in.agent)
      @@ buildMCPAuthEnvVars(in.servers)
      @@ Opt("API_KEY", in.agent.apiKey)
      @@ buildTeamEnvVars(in.agent)
      @@ Opt("AGENT_WEBHOOK_TOOLS", in.agent.webhooks)
      @@ buildMemoryEnvVars(in.memory)
      @@ mergeSettingsEnvVars(in.settings)
      @@ InjectEnv
      @@ buildObservabilityEnvVars(in.agent)
      @@ ("AGENT_MODEL" :> in.agent.model @@ "AGENT_SYSTEM_PROMPT_PATH" :> "prompt file"
          @@ "AGENT_MCP_SERVERS" :> buildMCPRuntimeConfigs(in.servers)
          @@ "AGENT_MAX_TOKENS" :> pod.tokens @@ "AGENT_TIMEOUT_SECONDS" :> pod.timeout
          @@ "AGENT_MAX_RETRIES" :> pod.retries @@ "AGENT_DAILY_TOKEN_LIMIT" :> pod.daily)

\* The agent's own sources come first and so take precedence.
EnvFrom(agent) ==
  agent.envFrom \o <<"agent-api-keys">>
  \o (IF agent.notes.credentials = Nil THEN <<>> ELSE <<agent.notes.credentials>>)

buildDeployment(in, exceeded) ==
  [replicas |-> IF exceeded THEN 0 ELSE Or(in.agent.replicas, 1),
   prompt   |-> assembleSystemPrompt(in.prompt, in.settings, in.servers),
   key      |-> in.key,
   env      |-> buildEnvVars(in),
   envFrom  |-> EnvFrom(in.agent),
   volumes  |-> buildVolumes(in.agent, in.servers)]

\* addresses gives what the servers' names resolve to.
buildNetworkPolicy(agent, servers, addresses) ==
  {"dns", "redis"} \cup
  IF agent.network = "strict" THEN UNION {addresses[s.url] : s \in ToSet(servers)} ELSE {"any"}

resolveRedisAddress(agent) ==
  LET url == Or(agent.notes.queueURL, cachedInjectQueueURL)
  IN  IF url = Nil THEN Nil ELSE url.address

resolveStreamName(agent) ==
  LET url == Or(agent.notes.queueURL, cachedInjectQueueURL)
  IN  IF url = Nil \/ url.stream = Nil THEN "agent-tasks" ELSE url.stream

minReplicas(agent) == Or(agent.autoscaling.min, Or(agent.replicas, 1))
maxReplicas(agent) == Or(agent.autoscaling.max, 10)

buildScaledObject(agent) ==
  [min |-> minReplicas(agent), max |-> maxReplicas(agent),
   address |-> resolveRedisAddress(agent), stream |-> resolveStreamName(agent)]

-----------------------------------------------------------------------------
(* What the runtime makes of its environment (pkg/agent/config).  Numbers  *)
(* and JSON that the operator wrote always parse.                          *)

\* os.Getenv: a variable that is not set is empty.
Getenv(env, key) == IF key \in DOMAIN env THEN env[key] ELSE Nil

\* file is the mounted ConfigMap; an empty prompt is refused.
loadSystemPrompt(env, file) ==
  IF Getenv(env, "AGENT_SYSTEM_PROMPT_PATH") = Nil THEN Getenv(env, "AGENT_SYSTEM_PROMPT")
  ELSE IF file = <<>> THEN Nil ELSE file

NumericDefaults ==
  [AGENT_MAX_TOKENS |-> 8000, AGENT_TIMEOUT_SECONDS |-> 120, AGENT_MAX_RETRIES |-> 3,
   AGENT_MAX_CONCURRENT_TASKS |-> 5, AGENT_DAILY_TOKEN_LIMIT |-> 0]

\* What the runtime accepts; it does not start with anything else.
NumericRange(key) ==
  CASE key = "AGENT_MAX_TOKENS" -> 1 .. 200000
    [] key = "AGENT_TIMEOUT_SECONDS" -> 1 .. 86400
    [] key = "AGENT_MAX_RETRIES" -> 0 .. 100
    [] key = "AGENT_MAX_CONCURRENT_TASKS" -> 1 .. 1000
    [] key = "AGENT_DAILY_TOKEN_LIMIT" -> Nat

\* Mutant: the values are checked and not stored.
NumericDropped(env) == NumericDefaults

applyNumericEnvs(env) ==
  [key \in DOMAIN NumericDefaults |-> Or(Getenv(env, key), NumericDefaults[key])]

optionalIntEnv(env, key) == Or(Getenv(env, key), 0)

\* The embedding of the agent's SwarmMemory goes into the loop policy's memory
\* and is lost without a loop policy.
parseLoopPolicy(env) ==
  LET loop == Getenv(env, "AGENT_LOOP_POLICY")
      model == Getenv(env, "AGENT_EMBEDDING_MODEL")
  IN  IF loop = Nil \/ model = Nil THEN loop
      ELSE [loop EXCEPT !.memory = IF @ = Nil THEN [embedding |-> model] ELSE [@ EXCEPT !.embedding = model]]

parseAuditLog(env) ==
  LET log == Getenv(env, "AGENT_AUDIT_LOG")
  IN  IF log = Nil \/ log.mode \in {Nil, "off"} THEN Nil ELSE log

applyJSONEnvs(env) ==
  [servers |-> Getenv(env, "AGENT_MCP_SERVERS"), webhooks |-> Getenv(env, "AGENT_WEBHOOK_TOOLS"),
   routes |-> Getenv(env, "AGENT_TEAM_ROUTES"), toolDeny |-> Or(Getenv(env, "AGENT_POLICY_TOOL_DENY"), {})]

\* Nil when the runtime exits instead.
Load(env, file) ==
  LET queue == Getenv(env, "TASK_QUEUE_URL")
      numbers == applyNumericEnvs(env)
      complete == /\ Getenv(env, "AGENT_MODEL") # Nil
                  /\ loadSystemPrompt(env, file) # Nil
                  /\ queue # Nil
                  /\ \A key \in DOMAIN numbers : numbers[key] \in NumericRange(key)
  IN  IF ~complete THEN Nil
      ELSE [model    |-> Getenv(env, "AGENT_MODEL"),
            prompt   |-> loadSystemPrompt(env, file),
            queue    |-> queue,
            stream   |-> Or(Getenv(env, "STREAM_CHANNEL_URL"), queue),
            numbers  |-> numbers,
            json     |-> applyJSONEnvs(env),
            loop     |-> parseLoopPolicy(env),
            audit    |-> parseAuditLog(env),
            trust    |-> Getenv(env, "AGENT_POLICY_FORCE_TRUST_LEVEL"),
            budget   |-> optionalIntEnv(env, "AGENT_REASONING_BUDGET_TOKENS"),
            thinking |-> optionalIntEnv(env, "AGENT_MAX_THINKING_TOKENS_PER_CALL"),
            answer   |-> optionalIntEnv(env, "AGENT_MAX_ANSWER_TOKENS_PER_CALL"),
            advisors |-> Getenv(env, "AGENT_ADVISORS"),
            tools    |-> Or(Getenv(env, "AGENT_GATEWAY_TOOLS"), {}),
            breaker  |-> Getenv(env, "AGENT_CIRCUIT_BREAKER")]
=============================================================================
