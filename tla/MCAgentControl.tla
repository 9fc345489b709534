--------------------------- MODULE MCAgentControl ---------------------------
(* An instance of AgentControl for TLC. *)
EXTENDS AgentControl

CONSTANTS one, two, text, tool

NoNotes == [queueURL |-> Nil, routes |-> Nil, role |-> Nil, team |-> Nil, claim |-> Nil,
            store |-> Nil, credentials |-> Nil]

\* More tokens than the runtime accepts: the policies cap them.
Daily(n) == [daily |-> n, tokens |-> 200001, timeout |-> 0, retries |-> 0, thinking |-> 1, answer |-> Nil]

MCDefaultLimits ==
  [daily |-> 0, tokens |-> 4, timeout |-> 3, retries |-> 3, thinking |-> Nil, answer |-> Nil]

Plain ==
  [name |-> "a", replicas |-> Nil, limits |-> Daily(2), has |-> {}, model |-> one, tools |-> <<>>,
   webhooks |-> Nil, settings |-> <<one, two>>, prompt |-> Nil, promptFrom |-> "configMap", apiKey |-> Nil,
   memory |-> FALSE, budgetRef |-> FALSE, autoscaling |-> [min |-> Nil, max |-> 2],
   network |-> "default", registry |-> "default", gateway |-> Nil, conns |-> <<>>, loop |-> Nil,
   trust |-> Nil, plugins |-> [llm |-> Nil, queue |-> Nil], logLevel |-> Nil, healthPrompt |-> Nil,
   breaker |-> Nil, audit |-> [mode |-> Nil, redact |-> {}], envFrom |-> <<>>,
   reasoning |-> [mode |-> "enabled", effort |-> Nil, budget |-> 2], notes |-> NoNotes]

Rich ==
  [Plain EXCEPT
    !.limits = Nil, !.replicas = 2, !.promptFrom = "secret", !.budgetRef = TRUE, !.memory = TRUE, !.apiKey = "key",
    !.network = "strict", !.autoscaling = Nil, !.settings = <<two>>,
    !.loop = [dedup |-> TRUE, memory |-> Nil],
    !.tools = <<[name |-> tool, url |-> Nil, capability |-> tool, auth |-> "mtls",
                 instructions |-> text, trust |-> Nil]>>,
    !.gateway = [registry |-> "default", allowGateways |-> FALSE, tags |-> {}, dispatch |-> "enabled",
                 fallback |-> Nil],
    !.conns = <<[name |-> one, role |-> "advisor", target |-> "b", trust |-> Nil],
               [name |-> two, role |-> "tool", target |-> "b", trust |-> Nil]>>,
    !.notes = [NoNotes EXCEPT !.queueURL = [address |-> "redis", stream |-> <<"team", "a">>], !.team = "t"]]

MCAgentSpecs == {Plain, Rich}

Setting(fragments, temperature, reasoning) ==
  [fragments |-> fragments, persona |-> text, outputRules |-> Nil, temperature |-> temperature,
   format |-> Nil, backend |-> Nil, reasoning |-> reasoning]

Fragment(name, position) == [name |-> name, text |-> <<name, position>>, position |-> position]

First == Setting(<<Fragment("x", "append"), Fragment("y", "prepend")>>, 1, Nil)
Second == Setting(<<Fragment("x", "prepend")>>, 2, [mode |-> "disabled", effort |-> "low", budget |-> Nil])
Legacy == Setting(<<>>, Nil, Nil)

Cap(maxTokens) == [NoPolicy EXCEPT !.limits = [NoLimits EXCEPT !.maxTokens = maxTokens]]

Other(ready) == [ready |-> ready, isGateway |-> FALSE, registry |-> "default",
                 capabilities |-> {[name |-> 1, tags |-> {}]}]

MCValues ==
  [settings  |-> {(one :> First @@ two :> Second), (one :> First @@ two :> Legacy), (one :> First @@ two :> Nil)},
   memory    |-> {[backend |-> "redis", redis |-> [secret |-> text, ttl |-> Nil], vector |-> Nil, embedding |-> Nil],
                  [backend |-> "vector-store", redis |-> Nil, embedding |-> text,
                   vector |-> [provider |-> "pgvector", endpoint |-> text, collection |-> Nil]]},
   configMap |-> {text, Nil},
   secret    |-> {text, tool},
   key       |-> {1, 2},
   bindings  |-> {tool :> one, <<>>},
   registry  |-> {{}},
   policy    |-> {<<[spec |-> Cap(1), effective |-> Cap(1)]>>, <<[spec |-> Cap(3), effective |-> Nil]>>},
   others    |-> {"b" :> Other(1), "b" :> Other(0)},
   addresses |-> {one :> {two}, one :> Nil},
   budget    |-> {[hardStop |-> TRUE, exceeded |-> FALSE], [hardStop |-> TRUE, exceeded |-> TRUE]}]

MCFirstWorld ==
  [settings |-> one :> First @@ two :> Second,
   memory |-> [backend |-> "redis", redis |-> [secret |-> text, ttl |-> Nil], vector |-> Nil, embedding |-> Nil],
   configMap |-> text, secret |-> text, key |-> 1, bindings |-> tool :> one, registry |-> {},
   policy |-> <<[spec |-> Cap(1), effective |-> Cap(1)]>>, others |-> "b" :> Other(1),
   addresses |-> one :> {two}, budget |-> [hardStop |-> TRUE, exceeded |-> FALSE]]

MCInjectEnv == "TASK_QUEUE_URL" :> [address |-> "redis", stream |-> Nil]
MCClusterAudit == [mode |-> "actions", sink |-> "stdout", redact |-> {text}]
=============================================================================
