----------------------------- MODULE MCAgentPod -----------------------------
(* Small pods for TLC: two slots, and one group of features at a time.      *)
EXTENDS McpGateway

CONSTANTS s1, s2, t1, t2, t3, c1, c2, x1, x2

Plain == [tools |-> {}, denied |-> {}, dedup |-> FALSE, breaker |-> FALSE,
          gateway |-> FALSE, limited |-> FALSE, sandbox |-> FALSE,
          roots |-> {t1, t2}, deep |-> {}, retries |-> 0,
          asks |-> 1, faults |-> 2, clients |-> FALSE]

MCWorlds == {
    \* MCP tools behind the breaker; failed tasks come back
    [Plain EXCEPT !.tools = {"mcp"}, !.breaker = TRUE, !.roots = {t1, t2, t3}],
    [Plain EXCEPT !.tools = {"mcp"}, !.breaker = TRUE, !.retries = 1, !.faults = 3],
    \* the loop's hooks: dedup, sandbox and recall, a denied tool
    [Plain EXCEPT !.tools = {"mcp", "recall", "submit"}, !.denied = {"submit"},
                  !.dedup = TRUE, !.sandbox = TRUE, !.asks = 2, !.faults = 1],
    \* tasks that wait for tasks of the same queue
    [Plain EXCEPT !.tools = {"submit", "collect", "delegate"}, !.asks = 2,
                  !.faults = 1],
    [Plain EXCEPT !.tools = {"spawn"}, !.breaker = TRUE, !.faults = 1],
    \* a gateway, with one task at the end of a chain of dispatches
    [Plain EXCEPT !.tools = {"dispatch"}, !.gateway = TRUE, !.breaker = TRUE,
                  !.deep = {t1}, !.asks = 2, !.faults = 1],
    [Plain EXCEPT !.tools = {"dispatch", "search"}, !.gateway = TRUE,
                  !.deep = {t1}, !.asks = 2, !.faults = 0, !.roots = {t1, t2, t3}],
    \* advisors
    [Plain EXCEPT !.tools = {"advisor"}, !.breaker = TRUE],
    \* a daily limit
    [Plain EXCEPT !.limited = TRUE, !.roots = {t1, t2, t3}, !.retries = 1],
    \* the pod calls agents through the gateway, and serves the calls itself
    [Plain EXCEPT !.tools = {"peer"}, !.faults = 1, !.roots = {t1}],
    \* external clients of the gateway
    [Plain EXCEPT !.clients = TRUE, !.roots = {}, !.faults = 0] }
=============================================================================
