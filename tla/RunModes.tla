------------------------------- MODULE RunModes -------------------------------
(***************************************************************************)
(* A SwarmRun that has a single step: a standalone agent, the entry role   *)
(* of a dynamic team, or an agent that a router chose                      *)
(* (internal/controller/swarmrun_controller.go, internal/routing), with    *)
(* what a team's run has to pass first, the notifications it sends when it *)
(* ends (notify.go) and the budgets its cost counts for                    *)
(* (swarmbudget_controller.go).                                            *)
(*                                                                         *)
(* The frame of a pass over the stored object is module RunObject, what a  *)
(* budget makes of the spend is module SpendBudget and what the registry   *)
(* returns is module RegistryIndex.                                        *)
(***************************************************************************)
EXTENDS Integers, Sequences, FiniteSets, SequencesExt, RegistryIndex

CONSTANTS
  Worlds,        \* the runs considered, each with what surrounds it
  MaxTasks,      \* bound on the tasks the controller can submit
  MaxTries,      \* how often a notification is tried
  Week, Month, MaxRead,  \* see SpendBudget
  MaxAtOnce,     \* how many runs are under way at a time
  MaxFaults,     \* bound on crashes, failed calls, stale reads and user edits
  MayDelete      \* may the user delete the run?

\* Only a team has a router.
ASSUME ModesAssumption ==
  /\ MaxTasks \in Nat /\ MaxFaults \in Nat
  /\ \A w \in Worlds : w.mode = "routed" => w.team # Nil

\* The run is one of those under way.  The CRD has a limit without a sign.
ASSUME BudgetAssumption ==
  /\ MaxAtOnce \in Nat \ {0} /\ MaxRead \in Nat
  /\ Week \in Nat \ {0} /\ Month \in Nat \ {0}
  /\ \A w \in Worlds : \A b \in w.budgets : b.limit \in Nat

VARIABLES
  api, cache, cacheFresh, mem, memFresh, pc, wake, faults,  \* see RunObject
  world,         \* the spec of the run, its team, budget and notify policy
  filled,        \* does the pass's copy have the default inputs?
  late,          \* has the run's deadline passed?
  ready,         \* does the agent of the run have ready replicas?
  moved,         \* was the agent given another queue?
  ledger, issued,
  task,          \* what was submitted: [agent, queue, filled]
  fired,         \* the rate limiter's keys within their window
  sending,       \* the deliveries under way: [channel, event, try]
  sent,          \* how often an event was sent out
  report,        \* the last result in the status of the SwarmNotify
  entries,       \* the spend store
  healthy,       \* is it connected?
  day,
  others,        \* the other runs of the team that are under way
  started,       \* how many there were
  budget, alarm  \* the phase of the SwarmBudget; what its pass is to send

object == <<api, cache, cacheFresh>>
pass   == <<mem, memFresh, pc, filled>>
agent  == <<ready, moved>>
tasks  == <<ledger, issued, task>>
post   == <<fired, sending, sent, report>>
money  == <<entries, healthy, day, others, started>>
purse  == <<budget, alarm>>
vars   == <<object, pass, wake, faults, world, late, agent, tasks, post, money, purse>>

TaskIds == 1 .. MaxTasks
NoTask  == 0
Events  == {"Succeeded", "Failed", "TimedOut", "BudgetWarning", "BudgetExceeded"}

\* The status of a run; reason is that of its Ready condition.
NewRun ==
  [exists |-> TRUE, deleting |-> FALSE, finalizer |-> FALSE, phase |-> "", snapped |-> FALSE,
   reason |-> "", step |-> "", task |-> NoTask, agent |-> Nil]

Queue == INSTANCE TaskLedger WITH Tasks <- TaskIds

INSTANCE RunObject
INSTANCE SpendBudget

Init ==
  /\ ObjectInit
  /\ world \in Worlds
  /\ filled = FALSE /\ late = FALSE /\ moved = FALSE
  /\ ready \in IF world.mode = "routed" THEN {TRUE} ELSE BOOLEAN  \* a router does not look
  /\ Queue!Init /\ issued = 0 /\ task = [t \in TaskIds |-> Nil]
  /\ fired = {} /\ sending = <<>> /\ sent = [e \in Events |-> 0] /\ report = Nil
  /\ entries = <<>> /\ healthy = world.healthy /\ day = 0 /\ others = 0 /\ started = 0
  /\ budget = "" /\ alarm = Nil

IsTeamRun == world.team # Nil

-----------------------------------------------------------------------------
(* Notifications *)

\* Outside the window of the last notification of its kind.
allow(key) == world.window = 0 \/ key \notin fired

\* An empty list stands for every event.
policyMatchesEvent(event) == world.on = {} \/ event \in world.on

\* The key is recorded first; one goroutine per channel then delivers.
dispatch(key, event) ==
  IF world.notifyRef /\ policyMatchesEvent(event) /\ allow(key)
  THEN /\ fired' = fired \cup {key}
       /\ sending' = sending \o SetToSeq({[channel |-> c, event |-> event, try |-> 1] : c \in world.channels})
       /\ sent' = [sent EXCEPT ![event] = @ + 1]
       /\ UNCHANGED report
  ELSE UNCHANGED post

\* "TimedOut", the reason EnforceRunTimeout gives, is not recognised: the
\* controller replaces it by "Timeout" where it calls that function itself.
runPhaseToEvent(run) ==
  CASE run.phase = "Succeeded" -> "Succeeded"
    [] run.phase = "Failed" /\ run.reason = "Timeout" -> "TimedOut"
    [] OTHER -> "Failed"

\* Mutant: only a success is notified.
DispatchRunSucceeded(run) ==
  IF run.phase = "Succeeded" THEN dispatch(<<"run", "Succeeded">>, "Succeeded") ELSE UNCHANGED post

\* resolveNotifyRef gives the owner in the rate limiter's key: the team or,
\* without one, the agent.
DispatchRun(run) ==
  LET event == runPhaseToEvent(run) IN dispatch(<<"run", event>>, event)

\* A policy or a team that cannot be fetched is logged.
DispatchRunOrNot(run) ==
  \/ DispatchRun(run) /\ UNCHANGED faults
  \/ Fault /\ UNCHANGED post

Deliver(i) ==
  /\ sending' = RemoveAt(sending, i)
  /\ report' = [event |-> sending[i].event, ok |-> TRUE]
  /\ UNCHANGED <<fired, sent, faults>>

\* Mutant: a delivery that failed is tried for ever.
DeliverFailsAgain(i) ==
  /\ sending' = [sending EXCEPT ![i].try = IF @ < MaxTries THEN @ + 1 ELSE 1]
  /\ UNCHANGED <<fired, sent, report, faults>>

\* The third failure is the last.
DeliverFails(i) ==
  /\ IF sending[i].try < MaxTries
     THEN sending' = [sending EXCEPT ![i].try = @ + 1] /\ UNCHANGED report
     ELSE sending' = RemoveAt(sending, i) /\ report' = [event |-> sending[i].event, ok |-> FALSE]
  /\ UNCHANGED <<fired, sent, faults>>

Delivery ==
  /\ \E i \in DOMAIN sending : Deliver(i) \/ DeliverFails(i)
  /\ UNCHANGED <<object, pass, wake, world, late, agent, tasks, money, purse>>

WindowEnds ==
  /\ \E k \in fired : fired' = fired \ {k}
  /\ UNCHANGED <<object, pass, wake, faults, world, late, agent, tasks, sending, sent, report, money, purse>>

-----------------------------------------------------------------------------
(* The start of a pass *)

\* Nothing of a pass outlives it.
EndPass(again) == PassEnds(again) /\ filled' = FALSE

Outside == UNCHANGED <<world, late, agent, post, money, purse>>

\* The queue of the agent is looked up again whenever it is needed: what was
\* submitted to an earlier one is neither found nor cancelled.
Reachable(t) == task[t].queue = moved

\* The tasks that cancelRunTasks cancels.  A cancel that fails is logged.
Cancellable(run) ==
  {t \in {run.task} \ {NoTask} : run.step \in {"Running", "Pending", "WarmingUp"} /\ Reachable(t)}

ReconcileGone == GetNotFound /\ UNCHANGED filled /\ UNCHANGED tasks /\ Outside

ReconcileDeleting ==
  /\ FinalizeDeletion
  /\ IF cache.finalizer THEN Queue!Cancel(Cancellable(cache)) /\ UNCHANGED <<issued, task>> ELSE UNCHANGED tasks
  /\ UNCHANGED filled /\ Outside

LoadRun == EnsureFinalizer /\ UNCHANGED filled /\ UNCHANGED tasks /\ Outside

ReleaseTerminal == RemoveFinalizer /\ UNCHANGED filled /\ UNCHANGED tasks /\ Outside

Loaded == pc = "load" /\ ~Terminal(mem.phase)

\* The copy the pass goes on with.
Goes(run, to) == mem' = run /\ pc' = to /\ UNCHANGED <<object, memFresh, wake, filled>>

Fails(reason) == Goes([mem EXCEPT !.phase = "Failed", !.reason = reason], "persist")

\* A run that only names its team gets the team's spec; that is stored before
\* anything else and brings the copy up to date.
SnapshotTeam ==
  /\ Loaded /\ IsTeamRun /\ world.byRef /\ ~mem.snapped
  /\ \/ /\ memFresh /\ api.exists
        /\ Store([api EXCEPT !.snapped = TRUE])
        /\ mem' = api' /\ UNCHANGED <<memFresh, pc, wake, filled, faults>>
     \/ ~(memFresh /\ api.exists) /\ EndPass(TRUE) /\ Untouched /\ UNCHANGED faults
     \/ Fault /\ Fails("TeamNotFound")
  /\ UNCHANGED tasks /\ Outside

Snapped == IsTeamRun => ~world.byRef \/ mem.snapped

\* validateAndDefaultInputs and checkBudgets come before the first step.  An
\* error of the API server is an invalid input, too.
Reject ==
  /\ Loaded /\ Snapped /\ IsTeamRun /\ mem.phase = ""
  /\ \/ world.required /\ Fails("InvalidInput") /\ UNCHANGED faults
     \/ ~world.required /\ Fault /\ Fails("InvalidInput")
     \/ /\ ~world.required /\ checkBudgets(world.budgets, world.team, day, entries, healthy)
        /\ Fails("BudgetExceeded") /\ UNCHANGED faults
  /\ UNCHANGED tasks /\ Outside

Over == checkBudgets(world.budgets, world.team, day, entries, healthy)

\* A store that cannot be queried blocks nothing.
Admitted ==
  IF IsTeamRun /\ mem.phase = "" THEN ~world.required /\ (IF Over THEN Fault ELSE UNCHANGED faults)
  ELSE UNCHANGED faults

\* InitializeDynamicStep, InitializeRouteStep and the same for an agent run.
Initialized(run) ==
  IF run.phase # "" THEN run ELSE [run EXCEPT !.phase = "Running", !.step = "Pending", !.reason = "Validated"]

\* EnforceRunTimeout, for a run that has a start time.  A WarmingUp step
\* stays as it is.
Expired(run) == late /\ run.phase = "Running"

TimedOut(run, reason) ==
  [run EXCEPT !.phase = "Failed", !.reason = reason,
              !.step = IF @ \in {"Running", "Pending"} THEN "Failed" ELSE @]

\* Mutant: the first pass stores the step and leaves the rest to the next.
BeginOnly ==
  /\ Loaded /\ Snapped /\ ~Expired(mem) /\ Admitted
  /\ mem' = Initialized(mem) /\ pc' = IF mem.phase = "" THEN "persist" ELSE "drive"
  /\ filled' = (IsTeamRun /\ mem.phase = "")
  /\ UNCHANGED <<object, memFresh, wake, tasks>> /\ Outside

\* Defaults go into the copy of the first pass, and nowhere else.
Begin ==
  /\ Loaded /\ Snapped /\ ~Expired(mem) /\ Admitted
  /\ mem' = Initialized(mem) /\ pc' = "drive"
  /\ filled' = (IsTeamRun /\ mem.phase = "")
  /\ UNCHANGED <<object, memFresh, wake, tasks>> /\ Outside

\* The step has failed by the time cancelRunTasks looks for tasks to cancel.
BeginLate ==
  /\ Loaded /\ Snapped /\ Expired(mem)
  /\ LET run == TimedOut(mem, "Timeout")
     IN  /\ Goes(run, "persist")
         /\ Queue!Cancel(Cancellable(run)) /\ UNCHANGED <<issued, task>>
         /\ DispatchRunOrNot(run)
  /\ UNCHANGED <<world, late, agent, money, purse>>

-----------------------------------------------------------------------------
(* Submitting the step *)

\* Mutant: a step that was submitted is submitted again.
WaitsUntilDone == mem.step \in {"Pending", "WarmingUp", "Running"}

Waits == mem.step \in {"Pending", "WarmingUp"}

\* The scale-from-zero guard, which a routed step does not have.
WarmUp ==
  /\ pc = "drive" /\ world.mode # "routed" /\ Waits /\ ~ready
  /\ Goes([mem EXCEPT !.step = "WarmingUp"], "finish")
  /\ UNCHANGED <<faults, tasks>> /\ Outside

\* The task goes to the queue the agent has now.
Ask(a) ==
  /\ issued < MaxTasks
  /\ issued' = issued + 1
  /\ Queue!Submit(issued')
  /\ task' = [task EXCEPT ![issued'] = [agent |-> a, queue |-> moved, filled |-> filled]]
  /\ Goes([mem EXCEPT !.step = "Running", !.task = issued', !.agent = a], "finish")

\* submitAgentStep and submitDynamicEntryStep.  An error of the readiness
\* check is taken for ready.
Submit ==
  /\ pc = "drive" /\ world.mode # "routed" /\ Waits
  /\ IF ready THEN UNCHANGED faults ELSE Fault
  /\ Ask(world.agent)
  /\ Outside

\* The router model picks a capability, none, or fails, which is all that the
\* fallback does not help against.  Nil stands for a failure.
Route(w) ==
  LET caps == {c.name : c \in UNION {UNION {w.buckets[k][a] : a \in DOMAIN w.buckets[k]} : k \in DOMAIN w.buckets}}
      OrFallback(a) == IF a = Nil THEN w.fallback ELSE a
  IN  IF caps = {} THEN {w.fallback}
      ELSE {Nil, w.fallback} \cup
           UNION {{OrFallback(a) : a \in Resolve(w.buckets, c, {}, "least-busy")} : c \in caps \cup {Nil}}

\* submitRoutedStep: a step that cannot be routed has failed.
SubmitRouted ==
  /\ pc = "drive" /\ world.mode = "routed" /\ mem.step = "Pending"
  /\ \E a \in Route(world) :
       IF a = Nil THEN Goes([mem EXCEPT !.step = "Failed"], "finish") /\ UNCHANGED tasks ELSE Ask(a)
  /\ UNCHANGED faults /\ Outside

\* No queue, or no answer from it: the pass ends with an error.
QueueError ==
  /\ pc = "drive" /\ mem.step \in {"Pending", "WarmingUp", "Running"} /\ Fault
  /\ EndPass(TRUE) /\ Untouched
  /\ UNCHANGED tasks /\ Outside

-----------------------------------------------------------------------------
(* Collecting its result *)

Found == mem.task # NoTask /\ ledger[mem.task] \in Queue!Answer /\ Reachable(mem.task)

\* recordStepSpend: an error is logged, the Noop store drops the entry.
recordStepSpend ==
  \/ /\ entries' = IF healthy THEN Append(entries, [team |-> world.team, day |-> day]) ELSE entries
     /\ UNCHANGED faults
  \/ Fault /\ UNCHANGED entries

\* collectAgentResult, collectDynamicResult and, for a routed step,
\* collectResults.
Collect ==
  /\ pc = "drive" /\ mem.step = "Running" /\ Found
  /\ IF ledger[mem.task] = "ok"
     THEN Goes([mem EXCEPT !.step = "Succeeded"], "finish") /\ recordStepSpend
     ELSE Goes([mem EXCEPT !.step = "Failed"], "finish") /\ UNCHANGED <<entries, faults>>
  /\ UNCHANGED <<tasks, world, late, agent, post, healthy, day, others, started, purse>>

\* Without a result, or a failed poll of an agent or dynamic run, the step
\* stays as it is.
Poll ==
  /\ pc = "drive" /\ mem.step \notin {"Pending", "WarmingUp"}
  /\ \/ ~(mem.step = "Running" /\ Found) /\ UNCHANGED faults
     \/ mem.step = "Running" /\ Found /\ world.mode # "routed" /\ Fault
  /\ Goes(mem, "finish")
  /\ UNCHANGED tasks /\ Outside

-----------------------------------------------------------------------------
(* The end of a pass *)

\* Mutant: a failed step does not end the run.
FinalizedSucceeded(run) ==
  IF run.step = "Succeeded" THEN [run EXCEPT !.phase = "Succeeded", !.reason = "Succeeded"] ELSE run

\* finalizeAgentRun and finalizeDynamicRun.
Finalized(run) ==
  CASE run.step = "Succeeded" -> [run EXCEPT !.phase = "Succeeded", !.reason = "Succeeded"]
    [] run.step = "Failed"    -> [run EXCEPT !.phase = "Failed", !.reason = "StepFailed"]
    [] OTHER                  -> run

\* UpdateRunPipelinePhase, which looks at the clock and at the tokens first.
\* Its timeout goes out as a plain failure.
PipelinePhase(run) ==
  CASE Expired(run) -> TimedOut(run, "TimedOut")
    [] ~Expired(run) /\ run.step = "Succeeded" /\ world.maxTokens ->
         [run EXCEPT !.phase = "Failed", !.reason = "BudgetExceeded"]
    [] OTHER -> Finalized(run)

\* Only a routed run cancels what is left of it.
Finish ==
  /\ pc = "finish"
  /\ LET run == IF world.mode = "routed" THEN PipelinePhase(mem) ELSE Finalized(mem)
     IN  /\ Goes(run, "persist")
         /\ IF Terminal(run.phase) THEN DispatchRunOrNot(run) ELSE UNCHANGED <<post, faults>>
         /\ Queue!Cancel(IF Terminal(run.phase) /\ world.mode = "routed" THEN Cancellable(run) ELSE {})
  /\ UNCHANGED <<issued, task, world, late, agent, money, purse>>

Persist == UpdateStatus /\ filled' = FALSE /\ UNCHANGED tasks /\ Outside

Conflict == UpdateConflict /\ filled' = FALSE /\ UNCHANGED tasks /\ Outside

-----------------------------------------------------------------------------
(* Budgets *)

\* The SwarmBudget controller looks at every minute; it evaluates the scope of
\* the budget, stores the phase and notifies on a change for the worse.
BudgetReconcile ==
  /\ alarm = Nil
  /\ \E b \in world.budgets :
       LET phase == Evaluate(b, b.team, day, entries, healthy)
       IN  /\ phase # budget
           /\ budget' = phase
           /\ alarm' = CASE phase = "Exceeded" -> "BudgetExceeded"
                         [] phase = "Warning"  -> "BudgetWarning"
                         [] OTHER -> Nil
  /\ UNCHANGED <<object, pass, wake, faults, world, late, agent, tasks, post, money>>

maybeNotify ==
  /\ alarm # Nil
  /\ dispatch(<<"budget", alarm>>, alarm)
  /\ alarm' = Nil
  /\ UNCHANGED <<object, pass, wake, faults, world, late, agent, tasks, money, budget>>

\* retryLoop: the store is reached at last.
Reconnect ==
  /\ ~healthy /\ healthy' = TRUE
  /\ UNCHANGED <<object, pass, wake, faults, world, late, agent, tasks, post, entries, day, others, started, purse>>

NewDay ==
  /\ day < world.days /\ day' = day + 1
  /\ UNCHANGED <<object, pass, wake, faults, world, late, agent, tasks, post, entries, healthy, others, started, purse>>

\* Another run of the team passes checkBudgets, and is paid for later.
OtherStarts ==
  /\ started < world.others /\ others + 1 < MaxAtOnce
  /\ ~Over
  /\ others' = others + 1 /\ started' = started + 1
  /\ UNCHANGED <<object, pass, wake, faults, world, late, agent, tasks, post, entries, healthy, day, purse>>

OtherSpends ==
  /\ others > 0
  /\ others' = others - 1
  /\ entries' = IF healthy THEN Append(entries, [team |-> world.team, day |-> day]) ELSE entries
  /\ UNCHANGED <<object, pass, wake, faults, world, late, agent, tasks, post, healthy, day, started, purse>>

-----------------------------------------------------------------------------
(* Everything around the controllers *)

\* A memory store does not survive the operator.
Kept == IF world.store = "memory" THEN <<>> ELSE entries

\* The rate limiter and the deliveries are only in memory.
OperatorRestart ==
  /\ Restart /\ filled' = FALSE
  /\ entries' = Kept
  /\ fired' = {} /\ sending' = <<>> /\ alarm' = Nil
  /\ UNCHANGED <<tasks, world, late, agent, sent, report, healthy, day, others, started, budget>>

Around == UNCHANGED <<filled, tasks>> /\ Outside

CacheSync == Watch /\ Around

UserEdit == Edit /\ Around

UserDelete == world.deleted /\ Delete /\ Around

DeadlinePasses ==
  /\ world.timeout /\ api.phase = "Running" /\ ~late
  /\ late' = TRUE
  /\ UNCHANGED <<object, pass, wake, faults, world, agent, tasks, post, money, purse>>

AgentReady ==
  /\ ~ready /\ ready' = TRUE
  /\ UNCHANGED <<object, pass, wake, faults, world, late, moved, tasks, post, money, purse>>

\* The agent joins or leaves a team, and with it gets another queue.
AgentMoves ==
  /\ ~moved /\ moved' = TRUE /\ Fault
  /\ UNCHANGED <<object, pass, wake, world, late, ready, tasks, post, money, purse>>

AgentAnswers ==
  /\ \E t \in TaskIds, a \in Queue!Answer : Queue!Settle(t, a)
  /\ UNCHANGED <<object, pass, wake, faults, world, late, agent, issued, task, post, money, purse>>

-----------------------------------------------------------------------------

Pass ==
  \/ ReconcileGone \/ ReconcileDeleting \/ LoadRun \/ ReleaseTerminal
  \/ SnapshotTeam \/ Reject \/ Begin \/ BeginLate
  \/ WarmUp \/ Submit \/ SubmitRouted \/ QueueError \/ Collect \/ Poll
  \/ Finish \/ Persist \/ Conflict

Next ==
  \/ Pass \/ Delivery \/ WindowEnds
  \/ BudgetReconcile \/ maybeNotify \/ Reconnect \/ NewDay \/ OtherStarts \/ OtherSpends
  \/ OperatorRestart \/ CacheSync \/ UserEdit \/ UserDelete
  \/ DeadlinePasses \/ AgentReady \/ AgentMoves \/ AgentAnswers

Spec == Init /\ [][Next]_vars

\* A queued key is reconciled, the cache follows the API server, pods become
\* ready, agents answer (module TaskQueue), time passes and a delivery that was
\* started goes on.
FairSpec ==
  /\ Spec
  /\ WF_<<pc, wake, mem>>(Pass) /\ WF_cacheFresh(CacheSync)
  /\ WF_ready(AgentReady) /\ WF_ledger(AgentAnswers) /\ WF_late(DeadlinePasses)
  /\ WF_sending(Delivery)

-----------------------------------------------------------------------------
(* Properties *)

\* A pass that is lost, or repeated on a stale copy, submits the task again and
\* forgets the first one; nothing else does.  A run that is deleted during a
\* pass loses at most the task of that pass.
AsksOnce ==
  Cardinality({t \in TaskIds : ledger[t] = "open" /\ t \notin {api.task, mem.task}})
    <= faults + (IF api.deleting \/ ~api.exists THEN 1 ELSE 0)

\* A router sees the default inputs however often its pass is repeated:
\* whatever stores the phase of a routed run has also submitted its task.
RoutedInputIsComplete ==
  world.mode = "routed" => \A t \in 1 .. issued : task[t].filled

\* Repeated passes neither ask the agent twice nor ask it with other inputs.
AskedAsRun == AsksOnce /\ RoutedInputIsComplete

RunEvents == {"Succeeded", "Failed", "TimedOut"}

\* The end of a run that had a step is notified once, with the event its stored
\* status stands for, unless something goes wrong on the way; each thing that
\* goes wrong loses it or repeats it at most once.
EndIsNotified ==
  LET n == sent["Succeeded"] + sent["Failed"] + sent["TimedOut"]
      wanted == {e \in RunEvents : world.notifyRef /\ policyMatchesEvent(e)}
  IN  /\ n <= 1 + faults
      /\ Terminal(api.phase) /\ api.step # "" /\ runPhaseToEvent(api) \in wanted =>
           n + faults >= 1 /\ (faults = 0 => sent[runPhaseToEvent(api)] = 1)

\* What a team spends in the window of a hard-stop budget it is in, beyond the limit,
\* is what the runs under way at once had not recorded when the last one was
\* let in.
SpendIsBounded ==
  \A b \in world.budgets :
    budgetMatchesRun(b, world.team) /\ b.hardStop /\ b.limit > 0 /\ world.healthy /\ world.team # Nil =>
      Total(entries, world.team, PeriodWindowStart(day, b.period)) <= b.limit - 1 + MaxAtOnce + faults

\* Its agent has another queue than when the task was submitted.
Stranded == ~world.timeout /\ api.task # NoTask /\ ~Reachable(api.task)

\* Every run ends, whatever is lost or repeated on the way, unless its agent
\* has moved to another queue and the run has no timeout.
RunEnds == <>(Terminal(api.phase) \/ ~api.exists \/ Stranded)

\* A delivery is given up after MaxTries: none stays under way for ever.
DeliveryEnds == sending # <<>> ~> sending = <<>>

\* A run ends, and so does the delivery of what its end is notified with.
RunEndsDelivered == RunEnds /\ DeliveryEnds
=============================================================================
