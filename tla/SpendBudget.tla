----------------------------- MODULE SpendBudget -----------------------------
(***************************************************************************)
(* What was spent and what a SwarmBudget makes of it (pkg/costs, its       *)
(* memory and Redis stores, and the callers in swarmrun_controller.go and  *)
(* swarmbudget_controller.go).  Only operators.                            *)
(*                                                                         *)
(* An entry is [team, day], a step of that team that was paid for on that  *)
(* day, and costs one unit.  Time is counted in days.                      *)
(***************************************************************************)
EXTENDS Integers, Sequences, FiniteSets

CONSTANTS
  Nil,
  Week, Month,  \* how many days they have
  MaxRead       \* maxEntries: how many entries a query reads

\* The start of the period a day is in.  Any other name than "week" and
\* "month" is taken for a day.
TruncateToPeriod(day, period) ==
  CASE period = "week"  -> day - (day % Week)
    [] period = "month" -> day - (day % Month)
    [] OTHER            -> day

\* The period of a budget is "daily", "weekly" or "monthly", and is handed on
\* as it is.
PeriodWindowStart(day, period) == TruncateToPeriod(day, period)

matchesScope(e, team) == team \in {Nil, e.team}

\* fetchEntries of the Redis store: where the entries of the window are.
fetchEntries(entries, team, since) ==
  {i \in DOMAIN entries : entries[i].day >= since /\ matchesScope(entries[i], team)}

\* The query returns the oldest MaxRead of them; each costs one unit.
Total(entries, team, since) ==
  LET found == Cardinality(fetchEntries(entries, team, since))
  IN  IF found > MaxRead THEN MaxRead ELSE found

\* Mutant: the limit has to be exceeded.
DecisionAbove(b, team, day, entries) ==
  IF b.limit > 0 /\ Total(entries, team, PeriodWindowStart(day, b.period)) > b.limit THEN "Exceeded" ELSE "OK"

\* StandardBudgetPolicy.
StandardDecision(b, team, day, entries) ==
  LET spent == Total(entries, team, PeriodWindowStart(day, b.period))
  IN  CASE b.limit > 0 /\ spent >= b.limit -> "Exceeded"
        [] b.limit > 0 /\ spent < b.limit /\ b.warnAt > 0 /\ spent * 100 >= b.warnAt * b.limit -> "Warning"
        [] OTHER -> "OK"

\* HardStopPolicy around it.  Neither caller sets the HardStop of the input:
\* without a store every budget is OK.
Evaluate(b, team, day, entries, healthy) ==
  IF healthy THEN StandardDecision(b, team, day, entries) ELSE "OK"

budgetMatchesRun(b, team) == b.team \in {Nil, team}

\* Is a new run of the team blocked?  What it is held against is the spend of
\* its own team, whatever teams the budget is for.
checkBudgets(budgets, team, day, entries, healthy) ==
  \E b \in budgets :
    budgetMatchesRun(b, team) /\ b.hardStop /\ Evaluate(b, team, day, entries, healthy) = "Exceeded"
=============================================================================
