----------------------------- MODULE MCRunModes -----------------------------
(***************************************************************************)
(* A standalone agent's run, a dynamic team's and a routed team's, and a   *)
(* team with a budget and more runs than the budget allows.                *)
(***************************************************************************)
EXTENDS RunModes

Plain ==
  [mode |-> "agent", team |-> Nil, agent |-> 1, byRef |-> FALSE, required |-> FALSE, timeout |-> TRUE,
   maxTokens |-> FALSE, fallback |-> Nil, buckets |-> <<>>,
   notifyRef |-> TRUE, channels |-> {"slack"}, on |-> {}, window |-> 1,
   budgets |-> {}, store |-> "redis", healthy |-> TRUE, days |-> 0, others |-> 0, deleted |-> FALSE]

Dynamic == [Plain EXCEPT !.mode = "dynamic", !.team = "t", !.byRef = TRUE]

Routed == [Plain EXCEPT !.mode = "routed", !.team = "t", !.fallback = 2, !.buckets = <<(1 :> {[name |-> "c", tags |-> {}]})>>]

Monthly == [team |-> "t", period |-> "monthly", limit |-> 1, warnAt |-> 50, hardStop |-> TRUE]

Costly == [Dynamic EXCEPT !.byRef = FALSE, !.timeout = FALSE, !.budgets = {Monthly}, !.others = 3, !.days = 1,
                             !.on = {"BudgetExceeded"}, !.window = 0]

MCWorlds ==
  {[Plain EXCEPT !.deleted = TRUE],
   [Plain EXCEPT !.timeout = FALSE, !.on = {"Failed", "TimedOut"}, !.channels = {"slack", "webhook"}],
   Dynamic, [Dynamic EXCEPT !.required = TRUE],
   Routed, [Routed EXCEPT !.maxTokens = TRUE, !.fallback = Nil, !.window = 0],
   [Routed EXCEPT !.buckets = <<>>, !.fallback = Nil],
   Costly, [Costly EXCEPT !.healthy = FALSE, !.days = 0, !.store = "memory"]}
=============================================================================
