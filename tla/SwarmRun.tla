------------------------------- MODULE SwarmRun -------------------------------
(***************************************************************************)
(* One pipeline-mode SwarmRun and the controller that drives it            *)
(* (internal/controller/swarmrun_controller.go with pkg/flow).             *)
(*                                                                         *)
(* The frame of a pass over the stored object is module RunObject.  The    *)
(* controller talks to the task queue while it goes over the steps; when   *)
(* the status update at the end of the pass fails, what it told the queue  *)
(* is not undone.  The queue is the TaskLedger that module TaskQueue       *)
(* implements.                                                             *)
(***************************************************************************)
EXTENDS Integers, Sequences, FiniteSets, Functions

CONSTANTS
  Pipeline,      \* the steps, in the order of spec.pipeline
  Outputs,       \* the outputs agents may give
  MaxTasks,      \* bound on the tasks the controller can submit
  TimeoutSet,    \* does the run have a timeoutSeconds?
  MaxTokens,     \* spec.maxTokens, 0 for no limit
  TaskTokens,    \* input and output tokens of an answered task
  Thinking,      \* its thinking tokens
  MaxFaults,     \* bound on crashes, failed calls, stale reads and user edits
  MayReject,     \* may the inputs be invalid, or a hard budget be spent?
  MayDelete      \* may the user delete the run?

Steps   == DOMAIN Pipeline
TaskIds == 1 .. MaxTasks
NoTask  == 0

\* What an output says to a loop, as text and, unless it is "prose", as JSON.
OutputKinds == {"again", "stop", "prose"}

\* A step of spec.pipeline: dependsOn; whether it has an `if`; its loop's
\* maxIterations (0: no loop) and what the loop condition reads; whether it
\* has an outputSchema; the steps whose .data its inputs use; how many
\* validation attempts it has (0: no validation); whether its agent comes
\* from a registry lookup.
StepSpec ==
  [dependsOn : SUBSET Steps, cond : BOOLEAN, loop : Nat,
   loopReads : {"output", "data"}, schema : BOOLEAN, reads : SUBSET Steps,
   attempts : Nat, lookup : BOOLEAN]

ASSUME ConstAssumption ==
  /\ Pipeline \in Seq(StepSpec) /\ Pipeline # <<>>
  /\ Outputs \subseteq OutputKinds
  /\ MaxTasks \in Nat
  /\ MaxTokens \in Nat /\ TaskTokens \in Nat /\ Thinking \in Nat
  /\ MaxFaults \in Nat
  /\ {TimeoutSet, MayReject, MayDelete} \subseteq BOOLEAN

VARIABLES
  api,         \* the run as the API server stores it
  cache,       \* the run as the controller's cache holds it
  cacheFresh,  \* is that the stored version?
  mem,         \* the copy the current pass works on
  memFresh,    \* is its resourceVersion still the stored one?
  data,        \* the .steps.<name>.data of the pass's template data
  pc,          \* where the pass is: idle, load, submit, finish or persist
  at,          \* the step submitPendingSteps has come to
  wake,        \* is the run's key in the controller's work queue?
  late,        \* has the run's deadline passed?
  ready,       \* the steps whose agent has ready replicas
  ledger,      \* the task queue's view of every task
  issued,      \* how many tasks were submitted so far
  taskStep,    \* the step a task was submitted for
  taskOut,     \* the output of an answered task
  spent,       \* how often a task's usage was recorded in the SpendStore
  faults       \* what is used of MaxFaults

object == <<api, cache, cacheFresh>>
pass   == <<mem, memFresh, data, pc, at>>
tasks  == <<ledger, issued, taskStep, taskOut, spent>>
vars   == <<object, pass, wake, late, ready, tasks, faults>>

Queue == INSTANCE TaskLedger WITH Tasks <- TaskIds

-----------------------------------------------------------------------------
(* Types and helpers *)

StepPhase == {"absent", "Pending", "WarmingUp", "Running",
              "Succeeded", "Failed", "Skipped"}
RunPhase  == {"", "Running", "Succeeded", "Failed"}

StepStatus ==
  [phase : StepPhase, task : 0 .. MaxTasks, out : Outputs \cup {""},
   json : Outputs \cup {""}, iter : Nat, attempts : Nat,
   tokens : Nat, thinking : Nat, why : {"", "template", "other"}]

RunRecord ==
  [exists : BOOLEAN, deleting : BOOLEAN, finalizer : BOOLEAN,
   phase : RunPhase, step : [Steps -> StepStatus]]

AbsentStep ==
  [phase |-> "absent", task |-> NoTask, out |-> "", json |-> "", iter |-> 0,
   attempts |-> 0, tokens |-> 0, thinking |-> 0, why |-> ""]

NewRun ==
  [exists |-> TRUE, deleting |-> FALSE, finalizer |-> FALSE, phase |-> "",
   step |-> [s \in Steps |-> AbsentStep]]

NoData == [s \in Steps |-> ""]

TypeOK ==
  /\ api \in RunRecord /\ cache \in RunRecord /\ mem \in RunRecord
  /\ cacheFresh \in BOOLEAN /\ memFresh \in BOOLEAN
  /\ data \in [Steps -> Outputs \cup {""}]
  /\ pc \in {"idle", "load", "submit", "finish", "persist"}
  /\ at \in 1 .. Len(Pipeline) + 1
  /\ wake \in BOOLEAN /\ late \in BOOLEAN /\ ready \subseteq Steps
  /\ ledger \in [TaskIds -> Queue!LedgerState]
  /\ issued \in 0 .. MaxTasks
  /\ taskStep \in [TaskIds -> Steps]
  /\ taskOut \in [TaskIds -> Outputs \cup {""}]
  /\ spent \in [TaskIds -> Nat]
  /\ faults \in 0 .. MaxFaults

INSTANCE RunObject

Complete(st)    == st.phase \in {"Succeeded", "Skipped"}

\* Mutant: a dependency only has to be under way.
DepsStarted(run, s) ==
  \A d \in Pipeline[s].dependsOn : run.step[d].phase # "Pending"

DepsSucceeded(run, s) ==
  \A d \in Pipeline[s].dependsOn : Complete(run.step[d])

\* sumRunTokens counts thinking tokens, SumRunStepTokens does not.
SumRunStepTokens(run) ==
  SumFunction([s \in Steps |-> run.step[s].tokens])
SumRunTokens(run) ==
  SumRunStepTokens(run) + SumFunction([s \in Steps |-> run.step[s].thinking])

\* Mutant: only tasks of Pending steps are cancelled.
CancellableIfPending(run) ==
  {run.step[s].task :
     s \in {x \in Steps : run.step[x].task # NoTask /\ run.step[x].phase = "Pending"}}

\* The tasks that cancelRunTasks cancels.
CancellableTasks(run) ==
  {run.step[s].task :
     s \in {x \in Steps : /\ run.step[x].task # NoTask
                          /\ run.step[x].phase \in
                               {"Running", "Pending", "WarmingUp"}}}

CancelRunTasks(run) ==
  /\ Queue!Cancel(CancellableTasks(run))
  /\ UNCHANGED <<issued, taskStep, taskOut, spent>>

\* Nothing of a pass outlives it.
EndPass(again) == PassEnds(again) /\ data' = NoData /\ at' = 1

Init ==
  /\ ObjectInit
  /\ data = NoData /\ at = 1 /\ late = FALSE
  /\ ready \in SUBSET Steps
  /\ Queue!Init
  /\ issued = 0
  /\ taskStep = [t \in TaskIds |-> 1]
  /\ taskOut = [t \in TaskIds |-> ""]
  /\ spent = [t \in TaskIds |-> 0]

-----------------------------------------------------------------------------
(* The start of a pass: Get, deletion, finalizer *)

ReconcileGone ==
  /\ GetNotFound
  /\ UNCHANGED <<data, at, late, ready, tasks>>

\* Mutant: the tasks are cancelled but the finalizer stays.
DeletingKeepsFinalizer ==
  /\ Get
  /\ cache.exists /\ cache.deleting
  /\ IF cache.finalizer THEN CancelRunTasks(cache) ELSE UNCHANGED tasks
  /\ EndPass(FALSE)
  /\ UNCHANGED <<object, late, ready>>

\* cancelRunTasks, then the finalizer is removed.
ReconcileDeleting ==
  /\ FinalizeDeletion
  /\ IF cache.finalizer THEN CancelRunTasks(cache) ELSE UNCHANGED tasks
  /\ UNCHANGED <<data, at, late, ready>>

\* Mutant: no finalizer is added.
LoadUnguarded ==
  /\ Get
  /\ cache.exists /\ ~cache.deleting
  /\ mem' = cache /\ memFresh' = cacheFresh /\ pc' = "load"
  /\ wake' = FALSE
  /\ UNCHANGED <<object, data, at, late, ready, tasks>>

LoadRun ==
  /\ EnsureFinalizer
  /\ UNCHANGED <<data, at, late, ready, tasks>>

ReleaseTerminal ==
  /\ RemoveFinalizer
  /\ UNCHANGED <<data, at, late, ready, tasks>>

\* Missing team, invalid inputs or a spent hard budget: no step ever exists.
Reject ==
  /\ pc = "load" /\ mem.phase = "" /\ MayReject
  /\ mem' = [mem EXCEPT !.phase = "Failed"]
  /\ pc' = "persist"
  /\ UNCHANGED <<object, memFresh, data, at, wake, late, ready, tasks, faults>>

-----------------------------------------------------------------------------
(* Timeout and collection of results *)

InitializeRunSteps(run) ==
  IF run.phase # "" THEN run
  ELSE [run EXCEPT !.phase = "Running",
          !.step = [s \in Steps |-> [AbsentStep EXCEPT !.phase = "Pending"]]]

\* Running and Pending steps fail; a WarmingUp step stays as it is.
TimedOut(run) ==
  [run EXCEPT
     !.phase = "Failed",
     !.step = [s \in Steps |->
       IF @[s].phase \in {"Running", "Pending"}
       THEN [@[s] EXCEPT !.phase = "Failed", !.why = "other"] ELSE @[s]]]

\* Mutant: a run that is already terminal times out as well.
TimeoutAnyPhase ==
  /\ pc = "load" /\ late
  /\ mem' = TimedOut(mem)
  /\ CancelRunTasks(TimedOut(mem))
  /\ pc' = "persist"
  /\ UNCHANGED <<object, memFresh, data, at, wake, late, ready, faults>>

EnforceRunTimeout ==
  /\ pc = "load" /\ mem.phase = "Running" /\ late
  /\ mem' = TimedOut(mem)
  /\ CancelRunTasks(TimedOut(mem))
  /\ pc' = "persist"
  /\ UNCHANGED <<object, memFresh, data, at, wake, late, ready, faults>>

\* Mutant: steps that are already complete are collected again.
AnsweredAnyPhase(run) ==
  {s \in Steps : /\ run.step[s].task # NoTask
                 /\ ledger[run.step[s].task] \in {"ok", "failed", "cancelled"}}

\* The steps whose task has a result.
Answered(run) ==
  {s \in Steps : /\ run.step[s].phase = "Running"
                 /\ run.step[s].task # NoTask
                 /\ ledger[run.step[s].task] \in {"ok", "failed", "cancelled"}}

AnsweredOk(run) == {s \in Answered(run) : ledger[run.step[s].task] = "ok"}

\* Mutant: one validation attempt too many.
ValidationFailedLate(st, s, answered) ==
  IF st.attempts < Pipeline[s].attempts
  THEN [st EXCEPT !.phase = "Pending", !.task = NoTask, !.out = "",
                  !.json = "", !.tokens = 0, !.thinking = 0,
                  !.attempts = @ + 1]
  ELSE [answered EXCEPT !.phase = "Failed", !.attempts = @ + 1,
                        !.why = "other"]

\* applyValidationFailure: back to Pending while attempts are left.
ValidationFailed(st, s, answered) ==
  IF st.attempts + 1 < Pipeline[s].attempts
  THEN [st EXCEPT !.phase = "Pending", !.task = NoTask, !.out = "",
                  !.json = "", !.tokens = 0, !.thinking = 0,
                  !.attempts = @ + 1]
  ELSE [answered EXCEPT !.phase = "Failed", !.attempts = @ + 1,
                        !.why = "other"]

CollectResults(run, invalid) ==
  [run EXCEPT !.step = [s \in Steps |->
     LET st       == @[s]
         answered == [st EXCEPT !.out = taskOut[st.task],
                        !.tokens = TaskTokens, !.thinking = Thinking]
     IN IF s \notin Answered(run) THEN st
        ELSE IF s \notin AnsweredOk(run)
             THEN [st EXCEPT !.phase = "Failed", !.why = "other"]
        ELSE IF s \in invalid THEN ValidationFailed(st, s, answered)
        ELSE [answered EXCEPT !.phase = "Succeeded"]]]

ParseRunOutputJSON(run) ==
  [run EXCEPT !.step = [s \in Steps |->
     LET st == @[s]
     IN IF /\ Pipeline[s].schema /\ st.phase = "Succeeded"
           /\ st.out # "prose" /\ st.json = ""
        THEN [st EXCEPT !.json = st.out] ELSE st]]

\* A Succeeded loop step goes back to Pending while its condition holds.
\* The condition sees the template data: .output as collected in this pass,
\* .data as it was before ParseRunOutputJSON.
EvaluateRunLoops(run, tmpl) ==
  [run EXCEPT !.step = [s \in Steps |->
     LET st   == @[s]
         seen == IF Pipeline[s].loopReads = "data" THEN tmpl[s] ELSE st.out
     IN IF /\ st.phase = "Succeeded"
           /\ st.iter < Pipeline[s].loop
           /\ seen = "again"
        THEN [st EXCEPT !.phase = "Pending", !.task = NoTask, !.out = "",
                        !.json = "", !.iter = @ + 1]
        ELSE st]]

TemplateData(run) == [s \in Steps |-> run.step[s].json]

\* Mutant: usage is not recorded.
RecordNothing(run, steps) == UNCHANGED spent

\* recordStepSpend for the tasks of these steps.
RecordSpend(run, steps) ==
  spent' = [t \in TaskIds |->
    IF \E s \in steps : run.step[s].task = t THEN spent[t] + 1 ELSE spent[t]]

\* Everything from the initialisation up to submitPendingSteps.  A spend
\* record that fails is logged and forgotten.
Collect ==
  /\ pc = "load" /\ mem.phase \in {"", "Running"}
  /\ ~(mem.phase = "Running" /\ late)
  /\ LET run == InitializeRunSteps(mem)
     IN /\ \E invalid \in SUBSET {s \in AnsweredOk(run) :
                                    Pipeline[s].attempts > 0} :
             LET collected == CollectResults(run, invalid)
             IN /\ data' = TemplateData(collected)
                /\ mem' = EvaluateRunLoops(ParseRunOutputJSON(collected),
                                           TemplateData(collected))
        /\ \/ RecordSpend(run, AnsweredOk(run)) /\ UNCHANGED faults
           \/ /\ Fault
              /\ \E s \in AnsweredOk(run) :
                   RecordSpend(run, AnsweredOk(run) \ {s})
  /\ pc' = "submit" /\ at' = 1
  /\ UNCHANGED <<object, memFresh, wake, late, ready>>
  /\ UNCHANGED <<ledger, issued, taskStep, taskOut>>

\* A queue cannot be read: the pass ends, but what was collected from other
\* queues before is already in the SpendStore.
CollectError ==
  /\ pc = "load" /\ mem.phase = "Running" /\ ~late
  /\ Fault
  /\ \E done \in SUBSET AnsweredOk(mem) : RecordSpend(mem, done)
  /\ EndPass(TRUE)
  /\ UNCHANGED <<object, late, ready, ledger, issued, taskStep, taskOut>>

-----------------------------------------------------------------------------
(* submitPendingSteps: the steps in order, each seeing what became of the  *)
(* ones before it                                                          *)

\* A Running step without a task ID goes back to Pending first.
Resumed(st) ==
  IF st.phase = "Running" /\ st.task = NoTask
  THEN [st EXCEPT !.phase = "Pending"] ELSE st

Current == Resumed(mem.step[at])

Submitting ==
  /\ pc = "submit" /\ at \in Steps
  /\ UNCHANGED <<object, memFresh, data, wake, late, ready>>

Eligible ==
  /\ Current.phase \in {"Pending", "WarmingUp"}
  /\ DepsSucceeded(mem, at)

Advance(st) ==
  /\ mem' = [mem EXCEPT !.step[at] = st]
  /\ at' = at + 1
  /\ UNCHANGED pc

FailStep(why) ==
  /\ Advance([Current EXCEPT !.phase = "Failed", !.why = why])
  /\ UNCHANGED <<tasks, faults>>

NotEligible ==
  /\ Submitting
  /\ ~Eligible
  /\ Advance(Current)
  /\ UNCHANGED <<tasks, faults>>

SkipStep ==
  /\ Submitting
  /\ Eligible
  /\ Pipeline[at].cond /\ Current.phase = "Pending"
  /\ Advance([Current EXCEPT !.phase = "Skipped"])
  /\ UNCHANGED <<tasks, faults>>

\* A field of .data that is missing makes the template fail.
InputsResolve == \A d \in Pipeline[at].reads : data[d] # ""

FailInputs ==
  /\ Submitting
  /\ Eligible
  /\ ~InputsResolve
  /\ FailStep("template")

\* resolveAgentForStep finds nobody: only the first time, since the agent a
\* step was given stays with it.
FailLookup ==
  /\ Submitting
  /\ Eligible /\ InputsResolve
  /\ Pipeline[at].lookup /\ Current.phase = "Pending"
  /\ Current.iter = 0 /\ Current.attempts = 0
  /\ FailStep("other")

WarmUp ==
  /\ Submitting
  /\ Eligible /\ InputsResolve
  /\ at \notin ready
  /\ Advance([Current EXCEPT !.phase = "WarmingUp"])
  /\ UNCHANGED <<tasks, faults>>

\* Mutant: the budget has to be exceeded before it holds a step back.
TokensExceeded == MaxTokens > 0 /\ SumRunTokens(mem) > MaxTokens

TokensSpent == MaxTokens > 0 /\ SumRunTokens(mem) >= MaxTokens

FailTokens ==
  /\ Submitting
  /\ Eligible /\ InputsResolve
  /\ at \in ready
  /\ TokensSpent
  /\ FailStep("other")

\* Mutant: the step is marked Running without the ID of its task.
SubmitForgetsTask ==
  /\ Submitting
  /\ Eligible /\ InputsResolve
  /\ ~TokensSpent
  /\ at \in ready
  /\ issued < MaxTasks
  /\ Queue!Submit(issued + 1)
  /\ issued' = issued + 1
  /\ taskStep' = [taskStep EXCEPT ![issued + 1] = at]
  /\ Advance([Current EXCEPT !.phase = "Running"])
  /\ UNCHANGED <<taskOut, spent, faults>>

\* A readiness check that fails with an error does not hold the step back.
SubmitStep ==
  /\ Submitting
  /\ Eligible /\ InputsResolve
  /\ ~TokensSpent
  /\ \/ at \in ready /\ UNCHANGED faults
     \/ at \notin ready /\ Fault
  /\ issued < MaxTasks
  /\ Queue!Submit(issued + 1)
  /\ issued' = issued + 1
  /\ taskStep' = [taskStep EXCEPT ![issued + 1] = at]
  /\ Advance([Current EXCEPT !.phase = "Running", !.task = issued + 1])
  /\ UNCHANGED <<taskOut, spent>>

\* Submit fails: the pass ends with nothing of it stored.
SubmitError ==
  /\ pc = "submit" /\ at \in Steps
  /\ Eligible /\ InputsResolve
  /\ Fault
  /\ EndPass(TRUE)
  /\ UNCHANGED <<object, late, ready, tasks>>

-----------------------------------------------------------------------------
(* The end of a pass *)

\* Mutant: a WarmingUp step counts as done.
PhaseIgnoresWarmUp(run) ==
  IF \E s \in Steps : run.step[s].phase = "Failed"
  THEN [run EXCEPT !.phase = "Failed"]
  ELSE IF \A s \in Steps : run.step[s].phase \notin {"Pending", "Running"}
  THEN [run EXCEPT !.phase = "Succeeded"] ELSE run

UpdateRunPipelinePhase(run) ==
  CASE late -> TimedOut(run)
    [] ~late /\ MaxTokens > 0 /\ SumRunStepTokens(run) > MaxTokens
         -> [run EXCEPT !.phase = "Failed"]
    [] OTHER ->
         IF \E s \in Steps : run.step[s].phase = "Failed"
         THEN [run EXCEPT !.phase = "Failed"]
         ELSE IF \A s \in Steps : Complete(run.step[s])
         THEN [run EXCEPT !.phase = "Succeeded"] ELSE run

Finish ==
  /\ pc = "submit" /\ at = Len(Pipeline) + 1
  /\ mem' = UpdateRunPipelinePhase(mem)
  /\ IF Terminal(mem'.phase)
     THEN CancelRunTasks(UpdateRunPipelinePhase(mem)) ELSE UNCHANGED tasks
  /\ pc' = "persist"
  /\ UNCHANGED <<object, memFresh, data, at, wake, late, ready, faults>>

\* Mutant: the run is not queued again while it is Running.
PersistNoRequeue ==
  /\ pc = "persist" /\ memFresh
  /\ Store(mem)
  /\ EndPass(FALSE)
  /\ UNCHANGED <<late, ready, tasks, faults>>

Persist ==
  /\ UpdateStatus
  /\ data' = NoData /\ at' = 1
  /\ UNCHANGED <<late, ready, tasks>>

Conflict ==
  /\ UpdateConflict
  /\ data' = NoData /\ at' = 1
  /\ UNCHANGED <<late, ready, tasks>>

-----------------------------------------------------------------------------
(* Everything around the controller *)

OperatorRestart ==
  /\ Restart
  /\ data' = NoData /\ at' = 1
  /\ UNCHANGED <<late, ready, tasks>>

Around == UNCHANGED <<data, at, late, ready, tasks>>

CacheSync  == Watch /\ Around
UserEdit   == Edit /\ Around
UserDelete == Delete /\ Around

DeadlinePasses ==
  /\ TimeoutSet /\ api.phase = "Running" /\ ~late
  /\ late' = TRUE
  /\ UNCHANGED <<object, pass, wake, ready, tasks, faults>>

AgentReady(s) ==
  /\ s \notin ready
  /\ ready' = ready \cup {s}
  /\ UNCHANGED <<object, pass, wake, late, tasks, faults>>

Answer(t, a, out) ==
  /\ Queue!Settle(t, a)
  /\ taskOut' = [taskOut EXCEPT ![t] = IF a = "ok" THEN out ELSE ""]
  /\ UNCHANGED <<object, pass, wake, late, ready, issued, taskStep, spent, faults>>

-----------------------------------------------------------------------------

Start == ReconcileGone \/ ReconcileDeleting \/ LoadRun

Load ==
  ReleaseTerminal \/ Reject \/ EnforceRunTimeout \/ Collect \/ CollectError

SubmitPendingSteps ==
  \/ NotEligible \/ SkipStep \/ FailInputs \/ FailLookup \/ WarmUp
  \/ FailTokens \/ SubmitStep \/ SubmitError

Reconcile ==
  Start \/ Load \/ SubmitPendingSteps \/ Finish \/ Persist \/ Conflict

Environment ==
  \/ OperatorRestart \/ CacheSync \/ UserEdit \/ UserDelete \/ DeadlinePasses
  \/ \E s \in Steps : AgentReady(s)
  \/ \E t \in TaskIds, a \in Queue!Answer, out \in Outputs : Answer(t, a, out)

Next == Reconcile \/ Environment

Spec == Init /\ [][Next]_vars

\* The work queue keeps the controller going and the watch delivers every
\* change.  Agents come up and open tasks are answered: what TaskQueue's
\* EveryTaskAnswered shows of a queue that loses no writes.
Fairness ==
  /\ WF_vars(Reconcile)
  /\ WF_vars(CacheSync)
  /\ \A s \in Steps : WF_vars(AgentReady(s))
  /\ \A t \in TaskIds :
       WF_vars(ledger[t] = "open" /\
               \E a \in Queue!Answer, out \in Outputs : Answer(t, a, out))

FairSpec == Spec /\ Fairness

-----------------------------------------------------------------------------
(* Properties *)

\* A stored Running step has a task, and no other step has the same one: the
\* result that collectResults finds under a task ID belongs to that step.
TaskBelongsToStep ==
  \A s \in Steps :
    /\ api.step[s].phase = "Running" => api.step[s].task # NoTask
    /\ api.step[s].task # NoTask => taskStep[api.step[s].task] = s

\* A step that was given a task has all its dependencies complete, then and
\* for as long as the run lasts.
DependenciesStayComplete ==
  \A s \in Steps :
    api.step[s].task # NoTask =>
      \A d \in Pipeline[s].dependsOn : Complete(api.step[d])

\* A terminal phase says what happened: Succeeded only with every step
\* complete; Failed for a failed step, a rejected run or spent tokens.
PhaseMatchesSteps ==
  /\ api.phase = "Succeeded" => \A s \in Steps : Complete(api.step[s])
  /\ api.phase = "Running" => \A s \in Steps : api.step[s].phase # "Failed"

\* What is stored of a terminal run never changes again.
TerminalIsFinal ==
  [][Terminal(api.phase) => api'.phase = api.phase /\ api'.step = api.step]_vars

TasksOf(s) == {t \in 1 .. issued : taskStep[t] = s}

\* Loops, validation retries and lost passes bound the tasks of a step.
ResubmissionBound ==
  \A s \in Steps :
    Cardinality(TasksOf(s)) <=
      1 + Pipeline[s].loop + (IF Pipeline[s].attempts > 1
                              THEN Pipeline[s].attempts - 1 ELSE 0) + faults

\* The usage of a step stored as Succeeded is in the SpendStore, unless a
\* Record call failed.
SpendRecorded ==
  Cardinality({s \in Steps : /\ api.step[s].phase = "Succeeded"
                             /\ spent[api.step[s].task] = 0}) <= faults

\* A task's usage is recorded again only for a pass that was lost.
SpendBound == \A t \in TaskIds : spent[t] <= 1 + faults

\* As long as a run may have tasks in the queue, it cannot be removed without
\* the controller seeing its deletion.
RunningIsGuarded == api.exists /\ api.phase = "Running" => api.finalizer

\* The status that a pass stores can be taken up by any later pass: each Running
\* step has its own task, steps run behind complete ones, the phase agrees with
\* the steps, and deletion cannot pass the controller by.
StatusIsConsistent ==
  /\ TaskBelongsToStep /\ DependenciesStayComplete
  /\ PhaseMatchesSteps /\ RunningIsGuarded

\* The usage of every answered task is recorded, and once: what is missing or
\* double is accounted for by a failed call or a lost pass.
SpendIsExact == SpendRecorded /\ SpendBound

OpenTasks == {t \in TaskIds : ledger[t] = "open"}

\* A run that ended in time leaves no task behind, except those of a pass that
\* a fault or the deletion of the run cut off between Submit and the status
\* update.
OrphanBound ==
  Terminal(api.phase) /\ ~late =>
    Cardinality(OpenTasks) <=
      Len(Pipeline) * (faults + IF api.deleting THEN 1 ELSE 0)

Consumed ==
  (TaskTokens + Thinking) *
    Cardinality({t \in 1 .. issued : spent[t] > 0})

\* No task is submitted once the run's answered tasks have used up maxTokens.
TokenBudgetHolds ==
  [][issued' > issued /\ MaxTokens > 0 => Consumed < MaxTokens]_vars

\* Every run ends.
RunEnds == <>(Terminal(api.phase) \/ ~api.exists)

\* A run being deleted goes away.
DeletionEnds == api.deleting ~> ~api.exists

\* Whatever one pass loses, a later one makes up for: runs end, and so do
\* deletions.
ObjectEnds == RunEnds /\ DeletionEnds
=============================================================================
