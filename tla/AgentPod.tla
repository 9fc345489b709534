------------------------------ MODULE AgentPod ------------------------------
(***************************************************************************)
(* One agent pod: the goroutines that run tasks, the tool calls of each,   *)
(* and what they share.                                                    *)
(*                                                                         *)
(* pollLoop runs up to MaxConcurrentTasks tasks at once (Slots).  A task   *)
(* is checked for age and against the agent's daily token budget, run by   *)
(* the LLM provider, which asks for tools one after another, and answered  *)
(* with Ack or Nack.  All slots share one Runner: the circuit breaker, the *)
(* gateway's counters and the advisors' counters.  Each of them is guarded *)
(* by its own mutex, so a step below is what happens under one of them.    *)
(*                                                                         *)
(* A tool may put a task on this pod's own queue and wait for its answer,  *)
(* so that every slot can be waiting for a task that no slot is free to    *)
(* run.  The queue itself is the subject of TaskQueue; here a task is      *)
(* queued, running, or has an answer.                                      *)
(*                                                                         *)
(* The provider, the MCP servers, the webhooks and the other agents are    *)
(* external: they answer, fail or are late as they like.  Every failure    *)
(* that the environment chooses, and every task timeout, uses up one of    *)
(* world.faults; a task makes at most world.asks tool calls.               *)
(***************************************************************************)
EXTENDS Integers, FiniteSets

CONSTANTS
    Slots,              \* task goroutines; MaxConcurrentTasks of them
    Tasks,              \* the tasks the pod's own queue may come to hold
    Remote,             \* the id of a task on another agent's queue
    Worlds,             \* the configurations to start from
    FailureThreshold, HalfOpenMaxCalls,
    MaxDispatchCalls, MaxDispatchDepth, MaxSearchCalls, MaxAdvisorCalls,
    SandboxMaxTotal,    \* maxTotalBytes, in large results
    DailyLimit          \* tokens a day, in tasks

\* The tools of an agent: its MCP servers and webhooks, agents called through
\* the MCP gateway, and the built-in ones.
ToolNames == {"mcp", "peer", "recall", "submit", "delegate", "spawn", "collect",
              "search", "dispatch", "advisor"}

ASSUME PodAssumption ==
    /\ IsFiniteSet(Slots)
    /\ FailureThreshold \in Nat \ {0}
    /\ HalfOpenMaxCalls \in Nat \ {0}
    /\ MaxDispatchCalls \in Nat \ {0}
    /\ MaxDispatchDepth \in Nat \ {0}
    /\ MaxSearchCalls \in Nat
    /\ DailyLimit \in Nat \ {0}
    /\ Remote \notin Tasks

\* The dispatch tool is registered only for an agent with a gateway.
ASSUME WorldAssumption ==
    \A w \in Worlds :
        /\ w.tools \subseteq ToolNames
        /\ "dispatch" \in w.tools => w.gateway
        /\ w.retries \in Nat

VARIABLES
    world,    \* the agent's configuration
    task,     \* the pod's own queue
    job,      \* what each slot is doing
    breaker,  \* circuit.Breaker
    gate,     \* gatewayHandler's counters
    advised,  \* advisorState.callCount
    usage,    \* tokens recorded in the rolling day
    faults,   \* failures left
    spent,    \* history: tokens of the day's answered tasks
    lost,     \* history: of these, unrecorded or let through unchecked
    started,  \* history: tasks that were started
    sent      \* history: the dispatches submitted and their greatest depth

vars == <<world, task, job, breaker, gate, advised, usage, faults,
          spent, lost, started, sent>>
daily == <<usage, spent, lost>>
shared == <<breaker, gate, advised>>

-----------------------------------------------------------------------------
(* circuit.Breaker.  cool: the cooldown has elapsed since the last failure. *)

Min2(a, b) == IF a < b THEN a ELSE b

Allowed(b) ==
    \/ b.state = "closed"
    \/ b.state = "open" /\ b.cool
    \/ b.state = "half-open" /\ b.calls < HalfOpenMaxCalls

\* The call that finds the cooldown over is the first probe; it is not counted.
Allow(b) ==
    CASE b.state = "open" -> [b EXCEPT !.state = "half-open", !.calls = 0]
      [] b.state = "half-open" -> [b EXCEPT !.calls = @ + 1]
      [] OTHER -> b

RecordSuccess(b) ==
    IF b.state = "half-open"
    THEN [b EXCEPT !.failures = 0, !.state = "closed", !.calls = 0]
    ELSE [b EXCEPT !.failures = 0]

\* Mutant: a failed probe is counted and does not open the circuit again.
ProbeFailureIgnored(b) ==
    LET n == Min2(b.failures + 1, FailureThreshold)
    IN  [b EXCEPT !.failures = n, !.cool = FALSE,
                  !.state = IF @ = "closed" /\ n >= FailureThreshold
                            THEN "open" ELSE @]

\* consecutiveFailures is compared with the threshold only: it may stop there.
RecordFailure(b) ==
    LET n == Min2(b.failures + 1, FailureThreshold)
    IN  [b EXCEPT !.failures = n, !.cool = FALSE,
                  !.calls = IF b.state = "half-open" THEN 0 ELSE @,
                  !.state = IF \/ @ = "half-open"
                               \/ @ = "closed" /\ n >= FailureThreshold
                            THEN "open" ELSE @]

Recorded(ok) ==
    breaker' = IF ~world.breaker THEN breaker
               ELSE IF ok THEN RecordSuccess(breaker) ELSE RecordFailure(breaker)

Admits == world.breaker => Allowed(breaker)

Admitted == breaker' = IF world.breaker THEN Allow(breaker) ELSE breaker

\* Time passes since the last failure.
CoolDown ==
    /\ breaker.state = "open" /\ ~breaker.cool
    /\ breaker' = [breaker EXCEPT !.cool = TRUE]
    /\ UNCHANGED <<world, task, job, gate, advised, daily, faults, started, sent>>

-----------------------------------------------------------------------------
(* The queue, the slots and the environment's failures.                    *)

Idle == [pc |-> "idle", task |-> Remote, tool |-> "none", asks |-> 0,
         seen |-> {}, kids |-> {}, wait |-> {}, due |-> FALSE,
         late |-> FALSE, stored |-> 0,
         mine |-> 0, alone |-> TRUE]

Answered == {t \in Tasks : task[t].st \in {"done", "failed"}}

Fault == faults > 0 /\ faults' = faults - 1

\* The failure of a call: the environment's choice, or the deadline's.
FaultOrLate(s) ==
    \/ Fault
    \/ job[s].late /\ UNCHANGED faults

Submit(t, depth) ==
    /\ task[t].st = "unused"
    /\ task' = [task EXCEPT ![t] = [st |-> "queued", depth |-> depth, tries |-> 0]]

\* Nack: back to the queue while retries are left, then the dead letters.
Nacked(t) ==
    task' = [task EXCEPT ![t].st = IF task[t].tries < world.retries
                                   THEN "queued" ELSE "failed",
                         ![t].tries = Min2(@ + 1, world.retries)]

-----------------------------------------------------------------------------
(* processTask.                                                            *)

\* Mutant: the limit itself is still allowed.
CheckAbove == usage > DailyLimit

\* redisStore.Check: the day's total has reached the limit.
Exceeded == usage >= DailyLimit

\* Polled and found stale: older than three timeouts.
Stale(s, t) ==
    /\ job[s].pc = "idle" /\ task[t].st = "queued"
    /\ Fault
    /\ Nacked(t)
    /\ UNCHANGED <<world, job, shared, daily, started, sent>>

OverBudget(s, t) ==
    /\ job[s].pc = "idle" /\ task[t].st = "queued"
    /\ world.limited /\ Exceeded
    /\ Nacked(t)
    /\ UNCHANGED <<world, job, shared, daily, faults, started, sent>>

\* The task runs.  When Redis cannot be read the check lets it through.
Begin(s, t) ==
    /\ job[s].pc = "idle" /\ task[t].st = "queued"
    /\ \/ ~(world.limited /\ Exceeded) /\ UNCHANGED <<faults, lost>>
       \/ world.limited /\ Exceeded /\ Fault /\ lost' = lost + 1
    /\ task' = [task EXCEPT ![t].st = "running"]
    /\ job' = [job EXCEPT ![s] = [Idle EXCEPT !.task = t,
                                  !.pc = IF world.gateway THEN "start" ELSE "admit"]]
    /\ UNCHANGED <<world, shared, usage, spent, started, sent>>

\* resetPerTask: the counters are the Runner's, so other tasks lose theirs.
Start(s) ==
    /\ job[s].pc = "start"
    /\ gate' = [dispatches |-> 0, searches |-> 0, depth |-> task[job[s].task].depth]
    /\ job' = [r \in Slots |->
                 IF r = s THEN [job[s] EXCEPT !.pc = "admit",
                                 !.alone = \A q \in Slots \ {s} : job[q].pc = "idle"]
                 ELSE [job[r] EXCEPT !.alone = FALSE]]
    /\ started' = started + 1
    /\ UNCHANGED <<world, task, breaker, advised, daily, faults, sent>>

\* RunTask asks the breaker before it calls the provider.
Admit(s) ==
    /\ job[s].pc = "admit"
    /\ IF Admits
       THEN Admitted /\ job' = [job EXCEPT ![s].pc = "think"]
       ELSE job' = [job EXCEPT ![s].pc = "nack"] /\ UNCHANGED breaker
    /\ UNCHANGED <<world, task, gate, advised, daily, faults, started, sent>>

\* The provider returns the final text.
Answer(s) ==
    /\ job[s].pc = "think"
    /\ Recorded(TRUE)
    /\ job' = [job EXCEPT ![s].pc = "ack"]
    /\ UNCHANGED <<world, task, gate, advised, daily, faults, started, sent>>

\* The provider returns an error; the tokens it used are not reported.
Fail(s) ==
    /\ job[s].pc = "think"
    /\ FaultOrLate(s)
    /\ Recorded(FALSE)
    /\ job' = [job EXCEPT ![s].pc = "nack"]
    /\ UNCHANGED <<world, task, gate, advised, daily, started, sent>>

Nack(s) ==
    /\ job[s].pc = "nack"
    /\ Nacked(job[s].task)
    /\ job' = [job EXCEPT ![s] = Idle]
    /\ UNCHANGED <<world, shared, daily, faults, started, sent>>

Ack(s) ==
    /\ job[s].pc = "ack"
    /\ task' = [task EXCEPT ![job[s].task].st = "done"]
    /\ IF world.limited
       THEN spent' = spent + 1 /\ job' = [job EXCEPT ![s].pc = "spend"]
       ELSE spent' = spent /\ job' = [job EXCEPT ![s] = Idle]
    /\ UNCHANGED <<world, shared, usage, lost, faults, started, sent>>

\* budgetStore.Record with the task's context, after the answer.
Spend(s) ==
    /\ job[s].pc = "spend" /\ ~job[s].late
    /\ usage' = usage + 1
    /\ job' = [job EXCEPT ![s] = Idle]
    /\ UNCHANGED <<world, task, shared, spent, lost, faults, started, sent>>

SpendFails(s) ==
    /\ job[s].pc = "spend"
    /\ FaultOrLate(s)
    /\ lost' = lost + 1
    /\ job' = [job EXCEPT ![s] = Idle]
    /\ UNCHANGED <<world, task, shared, usage, spent, started, sent>>

\* The oldest entry leaves the rolling day; Check prunes it.
DayPasses ==
    /\ usage > 0 /\ spent > 0
    /\ usage' = usage - 1 /\ spent' = spent - 1
    /\ UNCHANGED <<world, task, job, shared, lost, faults, started, sent>>

\* taskCtx runs out.
Expire(s) ==
    /\ job[s].pc # "idle" /\ ~job[s].late
    /\ Fault
    /\ job' = [job EXCEPT ![s].late = TRUE]
    /\ UNCHANGED <<world, task, shared, daily, started, sent>>

-----------------------------------------------------------------------------
(* The wrapper that buildCallTool puts around a tool call, and CallTool.   *)

\* sandbox_recall answers from the task's own map, before everything else.
Recall(s) ==
    /\ "recall" \in world.tools /\ job[s].pc = "think" /\ job[s].asks < world.asks
    /\ job' = [job EXCEPT ![s].asks = @ + 1]
    /\ UNCHANGED <<world, task, shared, daily, faults, started, sent>>

\* checkToolDenied.
Denied(tool) == tool \in world.denied

\* A duplicate (same: the input is one used before with this tool) is skipped,
\* a denied tool and an open circuit are errors that the model sees; otherwise
\* the tool is called.
Ask(s, tool, same) ==
    /\ job[s].pc = "think" /\ job[s].asks < world.asks
    /\ LET dup == world.dedup /\ same /\ tool \in job[s].seen
           runs == ~dup /\ ~Denied(tool) /\ Admits
       IN  /\ IF runs THEN Admitted ELSE UNCHANGED breaker
           /\ job' = [job EXCEPT
                 ![s].asks = @ + 1,
                 ![s].seen = IF world.dedup THEN @ \union {tool} ELSE @,
                 ![s].pc = IF runs THEN "call" ELSE @,
                 ![s].tool = IF runs THEN tool ELSE @]
    /\ UNCHANGED <<world, task, gate, advised, daily, faults, started, sent>>

\* ToolResultSandbox.Store: a large result is kept while the total, without
\* it, is within the bound.
Store(j) == IF world.sandbox /\ j.stored <= SandboxMaxTotal
            THEN [j EXCEPT !.stored = @ + 1] ELSE j

\* The call returns: the breaker hears of it, a result may be stored.
Returned(j) == [j EXCEPT !.pc = "think", !.tool = "none",
                          !.wait = {}, !.due = FALSE]

Return(s, j, ok) ==
    /\ Recorded(ok)
    /\ \E r \in {Returned(j), IF ok THEN Store(Returned(j)) ELSE Returned(j)} :
          job' = [job EXCEPT ![s] = r]

\* Any tool: bad arguments, or the call itself fails.  A submission fails
\* also when the bound on Tasks is reached.
CallFails(s) ==
    /\ job[s].pc = "call"
    /\ \/ FaultOrLate(s)
       \/ /\ job[s].tool = "submit" /\ \A t \in Tasks : task[t].st # "unused"
          /\ UNCHANGED faults
    /\ Return(s, job[s], FALSE)
    /\ UNCHANGED <<world, task, gate, advised, daily, started, sent>>

\* An MCP server or a webhook answers.
CallMcp(s) ==
    /\ job[s].pc = "call" /\ job[s].tool = "mcp"
    /\ Return(s, job[s], TRUE)
    /\ UNCHANGED <<world, task, gate, advised, daily, faults, started, sent>>

SubmitSubtask(s, t) ==
    /\ job[s].pc = "call" /\ job[s].tool = "submit"
    /\ Submit(t, 0)
    /\ Return(s, [job[s] EXCEPT !.kids = @ \union {t}], TRUE)
    /\ UNCHANGED <<world, gate, advised, daily, faults, started, sent>>

Delegate(s) ==
    /\ job[s].pc = "call" /\ job[s].tool = "delegate"
    /\ Return(s, [job[s] EXCEPT !.kids = @ \union {Remote}], TRUE)
    /\ UNCHANGED <<world, task, gate, advised, daily, faults, started, sent>>

\* handleSpawnAndCollect submits the tasks one by one, to the pod's own queue
\* or to a role's.  When one submission fails the call fails (CallFails) and
\* the earlier ones stay on the queue.
Spawn(s, t) ==
    /\ job[s].pc = "call" /\ job[s].tool = "spawn" /\ t \notin job[s].wait
    /\ IF t = Remote THEN UNCHANGED task ELSE Submit(t, 0)
    /\ job' = [job EXCEPT ![s].wait = @ \union {t}]
    /\ UNCHANGED <<world, shared, daily, faults, started, sent>>

SpawnedAll(s) ==
    /\ job[s].pc = "call" /\ job[s].tool = "spawn"
    /\ job' = [job EXCEPT ![s].pc = "poll"]
    /\ UNCHANGED <<world, task, shared, daily, faults, started, sent>>

\* collect_results: the model names some of the ids it was given.
Collect(s, ids) ==
    /\ job[s].pc = "call" /\ job[s].tool = "collect"
    /\ job' = [job EXCEPT ![s].pc = "poll", ![s].wait = ids]
    /\ UNCHANGED <<world, task, shared, daily, faults, started, sent>>

\* registrySearch counts the search and answers, over the limit too.
Search(s) ==
    /\ job[s].pc = "call" /\ job[s].tool = "search"
    /\ gate' = [gate EXCEPT !.searches = Min2(@ + 1, MaxSearchCalls + 1)]
    /\ Return(s, job[s], TRUE)
    /\ UNCHANGED <<world, task, advised, daily, faults, started, sent>>

\* Mutant: the depth limit is compared with >.
DispatchDeeper(g) == g.dispatches <= MaxDispatchCalls /\ g.depth <= MaxDispatchDepth

\* gatewayHandler.dispatch, validations 4 and 5, after the count.
DispatchAllowed(g) == g.dispatches <= MaxDispatchCalls /\ g.depth < MaxDispatchDepth

Dispatch(s) ==
    /\ job[s].pc = "call" /\ job[s].tool = "dispatch"
    /\ gate' = [gate EXCEPT !.dispatches = Min2(@ + 1, MaxDispatchCalls + 1)]
    /\ IF DispatchAllowed(gate')
       THEN /\ job' = [job EXCEPT ![s].pc = "poll", ![s].mine = @ + 1]
            /\ sent' = [n |-> sent.n + 1,
                        depth |-> IF gate.depth + 1 > sent.depth
                                  THEN gate.depth + 1 ELSE sent.depth]
            /\ UNCHANGED breaker
       ELSE Return(s, job[s], FALSE) /\ UNCHANGED sent
    /\ UNCHANGED <<world, task, advised, daily, faults, started>>

\* checkAndIncrement.  The tracker is the Runner's: it counts over all tasks.
AdvisorAllowed == advised < MaxAdvisorCalls

\* callAdvisor: over the limit the model is told so, and it is no error.
Advise(s) ==
    /\ job[s].pc = "call" /\ job[s].tool = "advisor"
    /\ IF AdvisorAllowed
       THEN /\ advised' = advised + 1
            /\ job' = [job EXCEPT ![s].pc = "poll"]
            /\ UNCHANGED breaker
       ELSE Return(s, job[s], TRUE) /\ UNCHANGED advised
    /\ UNCHANGED <<world, task, gate, daily, faults, started, sent>>

\* The ids whose results the polled queue has: a role's queue, polled only by
\* spawn_and_collect, may have them at any time.
Found(s) == Answered \union (IF job[s].tool = "spawn" THEN {Remote} ELSE {})

\* Mutant: a collection ends only when every result is there.
WaitForAll(s) == job[s].tool \in {"collect", "spawn"} => job[s].wait \subseteq Found(s)

\* A collection ends with the results or at a deadline, the tool's or the
\* task's; the answer of another agent ends its wait at any time.
WaitOver(s) ==
    job[s].tool \in {"collect", "spawn"} =>
        job[s].wait \subseteq Found(s) \/ job[s].due \/ job[s].late

\* timeout_seconds pass.
DeadlinePasses(s) ==
    /\ job[s].pc = "poll" /\ job[s].tool \in {"collect", "spawn"} /\ ~job[s].due
    /\ job' = [job EXCEPT ![s].due = TRUE]
    /\ UNCHANGED <<world, task, shared, daily, faults, started, sent>>

\* collectResultsFromQueue, dispatch and callAdvisorViaGateway poll; what is
\* missing at the deadline is reported as pending or as a timeout, a result.
\* A dispatch whose task ran out of time is an error.
PollEnds(s) ==
    /\ job[s].pc = "poll" /\ WaitOver(s)
    /\ LET ok == ~(job[s].tool = "dispatch" /\ job[s].late)
       IN  Return(s, job[s], ok)
    /\ UNCHANGED <<world, task, gate, advised, daily, faults, started, sent>>

\* One failed read ends a collection.  A dispatch reports its third as a
\* result, and an advisor's polls go on.
PollFails(s) ==
    /\ job[s].pc = "poll" /\ Fault
    /\ Return(s, job[s], job[s].tool \notin {"collect", "spawn"})
    /\ UNCHANGED <<world, task, gate, advised, daily, started, sent>>

-----------------------------------------------------------------------------
Init ==
    /\ world \in Worlds
    /\ task = [t \in Tasks |-> [st |-> IF t \in world.roots THEN "queued" ELSE "unused",
                               depth |-> IF t \in world.deep THEN MaxDispatchDepth
                                         ELSE 0,
                               tries |-> 0]]
    /\ job = [s \in Slots |-> Idle]
    /\ breaker = [state |-> "closed", failures |-> 0, calls |-> 0, cool |-> FALSE]
    /\ gate = [dispatches |-> 0, searches |-> 0, depth |-> 0]
    /\ advised = 0 /\ usage = 0 /\ faults = world.faults
    /\ spent = 0 /\ lost = 0 /\ started = 0
    /\ sent = [n |-> 0, depth |-> 0]

Tool(s) ==
    \/ Recall(s)
    \/ \E tool \in world.tools \ {"recall"}, same \in BOOLEAN : Ask(s, tool, same)
    \/ CallFails(s)
    \/ CallMcp(s)
    \/ \E t \in Tasks : SubmitSubtask(s, t)
    \/ Delegate(s)
    \/ \E t \in Tasks \union {Remote} : Spawn(s, t)
    \/ SpawnedAll(s)
    \/ \E ids \in SUBSET job[s].kids : Collect(s, ids)
    \/ Search(s)
    \/ Dispatch(s)
    \/ Advise(s)
    \/ PollEnds(s)
    \/ PollFails(s)

Step(s) ==
    \/ \E t \in Tasks : Stale(s, t) \/ OverBudget(s, t) \/ Begin(s, t)
    \/ Start(s)
    \/ Admit(s)
    \/ Answer(s)
    \/ Fail(s)
    \/ Nack(s)
    \/ Ack(s)
    \/ Spend(s)
    \/ SpendFails(s)
    \/ Tool(s)

Next ==
    \/ \E s \in Slots : Step(s) \/ Expire(s) \/ DeadlinePasses(s)
    \/ CoolDown
    \/ DayPasses

Spec == Init /\ [][Next]_vars

-----------------------------------------------------------------------------
(* Properties.                                                             *)

\* Calls that the breaker let through and has not heard of: a task's from its
\* admission to the provider's return, and its tool call's.
InFlight == {s \in Slots : job[s].pc \in {"think", "call", "poll", "peer"}}

\* The breaker never waits for a probe that nobody makes: while it is half-open
\* (breaker.go:Allow turns later callers away once the probes are taken), a
\* call that it admitted is still going to be recorded.
ProbeInFlight == breaker.state = "half-open" => InFlight # {}

\* Daily budget of concurrent tasks: the check is made before and the record
\* after a task, so the day's tokens exceed the limit by at most one task for
\* each slot, beside those whose check or record failed (Check, Record in
\* runtime/pkg/budget/redisstore/store.go, processTask).
DailyBudgetHolds == spent - lost <= DailyLimit - 1 + Cardinality(Slots)

\* gatewayHandler.dispatch: no task is sent deeper than the limit, all tasks
\* together send at most MaxDispatchCalls for each that was started, and a task
\* during which no other one started keeps its own count and its own depth
\* although the counters belong to the Runner.
DispatchIsBounded ==
    /\ sent.depth <= MaxDispatchDepth
    /\ sent.n <= MaxDispatchCalls * started
    /\ \A s \in Slots :
          job[s].alone /\ job[s].pc \in {"think", "call", "poll"} /\ world.gateway =>
              /\ job[s].mine <= MaxDispatchCalls
              /\ gate.depth = task[job[s].task].depth

\* Every task gets an answer (the queue is empty again and again) although
\* tasks wait for tasks of the same queue and may hold every slot
\* (collectResultsFromQueue's deadline breaks the circle).
TasksEnd == []<>(\A t \in Tasks : task[t].st \in {"unused", "done", "failed"})

=============================================================================
