------------------------------ MODULE SearchRun ------------------------------
(***************************************************************************)
(* A search-mode SwarmRun (internal/controller/swarmrun_search.go): a tree *)
(* of tasks grown by a planner agent and worked off by executor agents,    *)
(* all of it in the status of one run object.                              *)
(*                                                                         *)
(* The frame of a pass is module RunObject, the task queue is TaskLedger.  *)
(* A node's ID is its position in the tree minus one.  Scores are small    *)
(* numbers; tasks, outputs and token counts are left out, since nothing    *)
(* in the search depends on them.  The evaluator role is left out as well: *)
(* collectSearchEvaluatorResults looks for Scored nodes that have a task,  *)
(* and TaskBelongsToNode shows that there are none.                        *)
(***************************************************************************)
EXTENDS Integers, Sequences, FiniteSets, SequencesExt

CONSTANTS
  Config,        \* spec.search of every generation of the team
  Scores,        \* the scores a planner may give
  MaxActions,    \* bound on the actions of one planner answer
  MaxTasks,      \* bound on the tasks the controller can submit
  TimeoutSet,    \* does the run have a timeoutSeconds?
  MaxFaults,     \* bound on crashes, failed calls, stale reads, edits and deletions
  MayReject,     \* may the inputs be invalid, or a hard budget be spent?
  MayDelete      \* may the user delete the run or its team?

NoScore == 0
NoTask  == 0
NoNode  == 0     \* what a planner task works on; no solution; no parent
NoTeam  == 0     \* the team was deleted

Generation == DOMAIN Config
TaskIds    == 1 .. MaxTasks

\* The parts of spec.search the controller reads.  A limit of 0 is no limit,
\* beamWidth 0 is strategy BFS, minScore 0 an unset minScorePercent.
SearchSpec ==
  [maxNodes : Nat \ {0}, maxDepth : Nat, maxIterations : Nat,
   maxParallel : Nat \ {0}, beamWidth : Nat, minScore : Nat,
   hasEvaluator : BOOLEAN]

ASSUME SearchAssumption ==
  /\ Config \in Seq(SearchSpec) /\ Config # <<>>
  /\ Scores \subseteq Nat \ {NoScore}
  /\ MaxActions \in Nat /\ MaxTasks \in Nat /\ MaxFaults \in Nat
  /\ {TimeoutSet, MayReject, MayDelete} \subseteq BOOLEAN

VARIABLES
  api, cache, cacheFresh, mem, memFresh, pc, wake, faults,   \* see RunObject
  late,        \* has the run's deadline passed?
  team,        \* the generation of the SwarmTeam, or NoTeam
  ledger,      \* the task queue's view of every task
  issued,      \* how many tasks were submitted so far
  taskNode     \* the node a task was submitted for, NoNode for the planner

object == <<api, cache, cacheFresh>>
pass   == <<mem, memFresh, pc>>
tasks  == <<ledger, issued, taskNode>>
vars   == <<object, pass, wake, faults, late, team, tasks>>

Queue == INSTANCE TaskLedger WITH Tasks <- TaskIds

-----------------------------------------------------------------------------
(* The run and its tree *)

NodePhase == {"Pending", "Running", "Scored", "Pruned", "EvalFailed",
              "Solution"}

\* Why a run is terminal: a limit or the planner ended the search, the
\* planner failed, the deadline passed, or the run was rejected.
Reason == {"", "Converged", "PlannerFailure", "Timeout", "Rejected"}

Node ==
  [parent : Nat, depth : Nat, score : Scores \cup {NoScore},
   phase : NodePhase, task : 0 .. MaxTasks]

SearchTree ==
  [nodes : Seq(Node), solution : Nat, iterations : Nat]

RunRecord ==
  [exists : BOOLEAN, deleting : BOOLEAN, finalizer : BOOLEAN,
   phase : {"", "Running", "Succeeded", "Failed"}, reason : Reason,
   gen : Generation \cup {NoTeam}, tree : SearchTree]

NewNode(parent, depth, score) ==
  [parent |-> parent, depth |-> depth, score |-> score,
   phase |-> "Pending", task |-> NoTask]

NewRun ==
  [exists |-> TRUE, deleting |-> FALSE, finalizer |-> FALSE, phase |-> "",
   reason |-> "", gen |-> NoTeam,
   tree |-> [nodes |-> <<>>, solution |-> NoNode, iterations |-> 0]]

INSTANCE RunObject

TypeOK ==
  /\ api \in RunRecord /\ cache \in RunRecord /\ mem \in RunRecord
  /\ cacheFresh \in BOOLEAN /\ memFresh \in BOOLEAN
  /\ pc \in {"idle", "load", "collect", "submit", "plan", "answer",
             "resubmit", "persist"}
  /\ wake \in BOOLEAN /\ late \in BOOLEAN
  /\ team \in Generation \cup {NoTeam}
  /\ ledger \in [TaskIds -> Queue!LedgerState]
  /\ issued \in 0 .. MaxTasks
  /\ taskNode \in [TaskIds -> Nat]
  /\ faults \in 0 .. MaxFaults

Search(run) == Config[run.gen]

InPhase(tree, phase) ==
  {n \in DOMAIN tree.nodes : tree.nodes[n].phase = phase}

Init ==
  /\ ObjectInit
  /\ late = FALSE /\ team = 1
  /\ Queue!Init
  /\ issued = 0
  /\ taskNode = [t \in TaskIds |-> NoNode]

-----------------------------------------------------------------------------
(* The start of a pass *)

Elsewhere == UNCHANGED <<late, team, tasks>>

ReconcileGone == GetNotFound /\ Elsewhere

\* cancelRunTasks goes over status.steps, which a search run does not have.
ReconcileDeleting == FinalizeDeletion /\ Elsewhere

LoadRun == EnsureFinalizer /\ Elsewhere

ReleaseTerminal == RemoveFinalizer /\ Elsewhere

Ends(run, phase, reason) == [run EXCEPT !.phase = phase, !.reason = reason]

TeamNotFound ==
  /\ pc = "load" /\ ~Terminal(mem.phase)
  /\ team = NoTeam
  /\ mem' = Ends(mem, "Failed", "Rejected") /\ pc' = "persist"
  /\ UNCHANGED <<object, memFresh, wake, faults>> /\ Elsewhere

\* The team's spec is copied into the run whenever the run has no pipeline,
\* routing or entry, so for a search run in every pass.
SnapshotTeam ==
  /\ pc = "load" /\ ~Terminal(mem.phase)
  /\ team # NoTeam /\ memFresh
  /\ Store([api EXCEPT !.gen = team])
  /\ mem' = api' /\ pc' = "collect"
  /\ UNCHANGED <<memFresh, wake, faults>> /\ Elsewhere

SnapshotConflict ==
  /\ pc = "load" /\ ~Terminal(mem.phase)
  /\ team # NoTeam /\ ~memFresh
  /\ PassEnds(TRUE)
  /\ UNCHANGED <<object, faults>> /\ Elsewhere

Reject ==
  /\ pc = "collect" /\ mem.phase = "" /\ MayReject
  /\ mem' = Ends(mem, "Failed", "Rejected") /\ pc' = "persist"
  /\ UNCHANGED <<object, memFresh, wake, faults>> /\ Elsewhere

-----------------------------------------------------------------------------
(* Timeout, collection of results, beam, convergence *)

InitSearchTree(run) ==
  IF run.phase # "" THEN run
  ELSE [run EXCEPT !.phase = "Running",
                   !.tree.nodes = <<NewNode(NoNode, 0, NoScore)>>]

\* Mutant: only tasks of Pending nodes are cancelled.
CancelPendingOnly(run) ==
  LET inFlight == {run.tree.nodes[n].task : n \in InPhase(run.tree, "Pending")}
  IN Queue!Cancel(inFlight \ {NoTask}) /\ UNCHANGED faults

\* cancelSearchTasks: a failing Cancel is logged and forgotten.
CancelSearchTasks(run) ==
  LET inFlight == {run.tree.nodes[n].task : n \in InPhase(run.tree, "Running")
                                                \cup InPhase(run.tree, "Pending")}
  IN \/ Queue!Cancel(inFlight \ {NoTask}) /\ UNCHANGED faults
     \/ Fault /\ UNCHANGED ledger

EnforceRunTimeout ==
  /\ pc = "collect" /\ mem.phase = "Running" /\ late
  /\ mem' = Ends(mem, "Failed", "Timeout") /\ pc' = "persist"
  /\ CancelSearchTasks(mem)
  /\ UNCHANGED <<object, memFresh, wake, late, team, issued, taskNode>>

\* A Running node whose task has a result gets the phase ok or failed.
Collected(tree, ok, failed, keep) ==
  [tree EXCEPT !.nodes = [n \in DOMAIN @ |->
     LET node == @[n]
         res  == IF node.phase = "Running" THEN ledger[node.task] ELSE "open"
     IN IF res = "open" THEN node
        ELSE [node EXCEPT !.phase = IF res = "ok" THEN ok ELSE failed,
                          !.task = IF keep THEN @ ELSE NoTask]]]

\* Mutants: a node with an error is tried again; the ID of the answered task
\* stays.
CollectRetries(tree) == Collected(tree, "Scored", "Pending", FALSE)
CollectKeepsTask(tree) == Collected(tree, "Scored", "EvalFailed", TRUE)

\* A node whose task has a result is Scored, or EvalFailed if it is an error.
CollectSearchExecutorResults(tree) ==
  Collected(tree, "Scored", "EvalFailed", FALSE)

\* The Scored nodes of one depth that have a score, and the ways to keep the
\* best of them: sort.Slice leaves the order of equal scores open.
Rivals(tree, d) ==
  {n \in InPhase(tree, "Scored") :
     tree.nodes[n].depth = d /\ tree.nodes[n].score # NoScore}

KeepsBest(tree, width, kept) ==
  \A d \in {tree.nodes[n].depth : n \in DOMAIN tree.nodes} :
    LET all == Rivals(tree, d)
    IN IF Cardinality(all) <= width
       THEN all \subseteq kept
       ELSE /\ Cardinality(all \cap kept) = width
            /\ \A n \in all \cap kept, m \in all \ kept :
                 tree.nodes[n].score >= tree.nodes[m].score

\* The trees that beamPrune can leave behind.
BeamPruned(tree, width) ==
  LET scored == UNION {Rivals(tree, tree.nodes[n].depth) : n \in DOMAIN tree.nodes}
  IN {[tree EXCEPT !.nodes = [n \in DOMAIN @ |->
         IF n \in scored \ kept THEN [@[n] EXCEPT !.phase = "Pruned"] ELSE @[n]]] :
      kept \in {k \in SUBSET scored : KeepsBest(tree, width, k)}}

CheckConvergence(run) ==
  LET spec == Search(run) nodes == run.tree.nodes
  IN \/ run.tree.solution # NoNode
     \/ /\ spec.minScore > 0
        /\ \E n \in DOMAIN nodes : nodes[n].score >= spec.minScore
     \/ /\ spec.maxDepth > 0
        /\ \E n \in DOMAIN nodes : /\ nodes[n].depth >= spec.maxDepth
                                   /\ nodes[n].phase # "Pruned"
     \/ Len(nodes) >= spec.maxNodes
     \/ /\ spec.maxIterations > 0
        /\ run.tree.iterations >= spec.maxIterations

\* finalizeSearchRun: the tasks of Running nodes are left as they are.
FinalizeOrGoOn(run, next) ==
  IF CheckConvergence(run)
  THEN mem' = Ends(run, "Succeeded", "Converged") /\ pc' = "persist"
  ELSE mem' = run /\ pc' = next

\* An error while collecting is logged, and the pass goes on without results.
Collect ==
  /\ pc = "collect" /\ ~(mem.phase = "Running" /\ late)
  /\ LET run == InitSearchTree(mem)
     IN \E tree \in {run.tree, CollectSearchExecutorResults(run.tree)} :
          /\ \/ tree = CollectSearchExecutorResults(run.tree) /\ UNCHANGED faults
             \/ tree # CollectSearchExecutorResults(run.tree) /\ Fault
          /\ \E beam \in IF Search(run).beamWidth = 0 THEN {tree}
                         ELSE BeamPruned(tree, Search(run).beamWidth) :
               FinalizeOrGoOn([run EXCEPT !.tree = beam], "submit")
  /\ UNCHANGED <<object, memFresh, wake>> /\ Elsewhere

-----------------------------------------------------------------------------
(* submitSearchNodes, before and after the planner is asked *)

Submitting == pc \in {"submit", "resubmit"}

\* Mutant: the limit is checked after the submission.
MaySubmitLate(run) ==
  /\ InPhase(run.tree, "Pending") # {}
  /\ Cardinality(InPhase(run.tree, "Running")) <= Search(run).maxParallel

MaySubmit(run) ==
  /\ InPhase(run.tree, "Pending") # {}
  /\ Cardinality(InPhase(run.tree, "Running")) < Search(run).maxParallel

SubmitTask(node) ==
  /\ issued < MaxTasks
  /\ Queue!Submit(issued + 1)
  /\ issued' = issued + 1
  /\ taskNode' = [taskNode EXCEPT ![issued + 1] = node]

SubmitNode ==
  /\ Submitting /\ MaySubmit(mem)
  /\ LET n == Min(InPhase(mem.tree, "Pending"))
     IN /\ SubmitTask(n)
        /\ mem' = [mem EXCEPT !.tree.nodes[n] =
                    [@ EXCEPT !.phase = "Running", !.task = issued + 1]]
  /\ UNCHANGED <<object, memFresh, pc, wake, faults, late, team>>

\* The queue cannot be opened or Submit fails: nothing of the pass is stored.
SubmitError ==
  /\ Submitting /\ Fault
  /\ PassEnds(TRUE)
  /\ UNCHANGED object /\ Elsewhere

\* Mutant: the planner is asked as soon as there is nothing to submit.
PlanEarly ==
  /\ pc = "submit" /\ ~MaySubmit(mem)
  /\ pc' = "plan"
  /\ UNCHANGED <<object, mem, memFresh, wake, faults>> /\ Elsewhere

\* Executors at work are waited for before the planner is asked.
WaitOrPlan ==
  /\ pc = "submit" /\ ~MaySubmit(mem)
  /\ pc' = IF InPhase(mem.tree, "Running") # {} THEN "persist" ELSE "plan"
  /\ UNCHANGED <<object, mem, memFresh, wake, faults>> /\ Elsewhere

\* Mutant: the iteration is not counted.
EndUncounted ==
  /\ pc = "resubmit" /\ ~MaySubmit(mem)
  /\ pc' = "persist"
  /\ UNCHANGED <<object, mem, memFresh, wake, faults>> /\ Elsewhere

EndIteration ==
  /\ pc = "resubmit" /\ ~MaySubmit(mem)
  /\ mem' = [mem EXCEPT !.tree.iterations = @ + 1]
  /\ pc' = "persist"
  /\ UNCHANGED <<object, memFresh, wake, faults>> /\ Elsewhere

-----------------------------------------------------------------------------
(* invokePlanner and the application of its answer *)

PlannerFailure ==
  /\ mem' = Ends(mem, "Failed", "PlannerFailure") /\ pc' = "persist"
  /\ UNCHANGED <<object, memFresh, wake>> /\ Elsewhere

SubmitPlanner ==
  /\ pc = "plan"
  /\ SubmitTask(NoNode)
  /\ pc' = "answer"
  /\ UNCHANGED <<object, mem, memFresh, wake, faults, late, team>>

\* A failing queue call fails the run: the planner is not asked again.
PlannerCallFails ==
  /\ pc \in {"plan", "answer"} /\ Fault
  /\ PlannerFailure

\* The planner has not answered between Submit and Results: its task is
\* forgotten, and the iteration ends without actions.
PlannerSilent ==
  /\ pc = "answer" /\ ledger[issued] = "open"
  /\ pc' = "resubmit"
  /\ UNCHANGED <<object, mem, memFresh, wake, faults>> /\ Elsewhere

\* An error, no JSON, or actions that validateSearchActions refuses.
PlannerInvalid ==
  /\ pc = "answer" /\ ledger[issued] \in {"ok", "failed"}
  /\ UNCHANGED faults
  /\ PlannerFailure

\* The answers that validateSearchActions accepts: the nodes they name are in
\* the tree already, and without an evaluator they carry a score.
Actions(run) ==
  LET ids   == DOMAIN run.tree.nodes
      given == IF Search(run).hasEvaluator THEN Scores \cup {NoScore} ELSE Scores
  IN [action : {"expand", "converge"}, node : ids, score : given]
       \cup [action : {"prune"}, node : ids, score : {NoScore}]

\* One action.  The first expand moves the nodes to a new array, and the
\* pointers prepared for prune and converge keep pointing into the old one:
\* from then on they change nothing but the solution.
Apply(st, a, maxNodes) ==
  LET nodes == st.tree.nodes
  IN CASE st.stopped -> st
       [] ~st.stopped /\ a.action = "expand" ->
            IF Len(nodes) >= maxNodes THEN [st EXCEPT !.stopped = TRUE]
            ELSE [st EXCEPT !.moved = TRUE,
                    !.tree.nodes = Append(@, NewNode(a.node,
                                             nodes[a.node].depth + 1, a.score))]
       [] ~st.stopped /\ a.action = "prune" ->
            IF st.moved THEN st
            ELSE [st EXCEPT !.tree.nodes[a.node].phase = "Pruned"]
       [] ~st.stopped /\ a.action = "converge" ->
            LET chosen == [st EXCEPT !.tree.solution = a.node]
            IN IF st.moved THEN chosen
               ELSE [chosen EXCEPT !.tree.nodes[a.node] =
                      [nodes[a.node] EXCEPT !.phase = "Solution",
                         !.score = IF a.score = NoScore THEN @ ELSE a.score]]

\* The states after the first k actions.
ApplyLoop(tree, actions, maxNodes) ==
  LET st[k \in 0 .. Len(actions)] ==
        IF k = 0 THEN [tree |-> tree, moved |-> FALSE, stopped |-> FALSE]
        ELSE Apply(st[k - 1], actions[k], maxNodes)
  IN st

ApplySearchActions(run, actions) ==
  [run EXCEPT !.tree = ApplyLoop(@, actions, Search(run).maxNodes)[Len(actions)].tree]

PlannerAnswers ==
  /\ pc = "answer" /\ ledger[issued] = "ok"
  /\ \E actions \in BoundedSeq(Actions(mem), MaxActions) :
       FinalizeOrGoOn(ApplySearchActions(mem, actions), "resubmit")
  /\ UNCHANGED <<object, memFresh, wake, faults>> /\ Elsewhere

-----------------------------------------------------------------------------
(* The end of a pass, and everything around the controller *)

\* Mutant: the run is not queued again while it is Running.
PersistNoRequeue ==
  /\ pc = "persist" /\ memFresh
  /\ Store(mem)
  /\ PassEnds(FALSE)
  /\ UNCHANGED faults /\ Elsewhere

Persist == UpdateStatus /\ Elsewhere
Conflict == UpdateConflict /\ Elsewhere
OperatorRestart == Restart /\ Elsewhere
CacheSync == Watch /\ Elsewhere
UserEdit == Edit /\ Elsewhere

\* Bounded like the faults: no deletion after the last of them.
UserDelete == faults < MaxFaults /\ Delete /\ Elsewhere

DeadlinePasses ==
  /\ TimeoutSet /\ api.phase = "Running" /\ ~late
  /\ late' = TRUE
  /\ UNCHANGED <<object, pass, wake, faults, team, tasks>>

TeamEdited ==
  /\ team # NoTeam /\ team < Len(Config) /\ Fault
  /\ team' = team + 1
  /\ UNCHANGED <<object, pass, wake, late, tasks>>

TeamDeleted ==
  /\ MayDelete /\ team # NoTeam /\ Fault
  /\ team' = NoTeam
  /\ UNCHANGED <<object, pass, wake, late, tasks>>

Answer(t, a) ==
  /\ Queue!Settle(t, a)
  /\ UNCHANGED <<object, pass, wake, faults, late, team, issued, taskNode>>

Reconcile ==
  \/ ReconcileGone \/ ReconcileDeleting \/ LoadRun \/ ReleaseTerminal
  \/ TeamNotFound \/ SnapshotTeam \/ SnapshotConflict \/ Reject
  \/ EnforceRunTimeout \/ Collect
  \/ SubmitNode \/ SubmitError \/ WaitOrPlan \/ EndIteration
  \/ SubmitPlanner \/ PlannerCallFails \/ PlannerSilent \/ PlannerInvalid
  \/ PlannerAnswers
  \/ Persist \/ Conflict

Environment ==
  \/ OperatorRestart \/ CacheSync \/ UserEdit \/ UserDelete
  \/ DeadlinePasses \/ TeamEdited \/ TeamDeleted
  \/ \E t \in TaskIds, a \in Queue!Answer : Answer(t, a)

Next == Reconcile \/ Environment

Spec == Init /\ [][Next]_vars

\* As for SwarmRun: the work queue, the watch, and agents that answer.
FairSpec ==
  /\ Spec
  /\ WF_vars(Reconcile) /\ WF_vars(CacheSync)
  /\ \A t \in TaskIds :
       WF_vars(ledger[t] = "open" /\ \E a \in Queue!Answer : Answer(t, a))

-----------------------------------------------------------------------------
(* Properties *)

\* A stored node has a task exactly while it is Running, and the task was
\* submitted for that node: a result found under its ID is its own.
TaskBelongsToNode ==
  \A n \in DOMAIN api.tree.nodes :
    LET node == api.tree.nodes[n]
    IN /\ (node.task # NoTask) <=> (node.phase = "Running")
       /\ node.task # NoTask => taskNode[node.task] = n

\* Passes that were cut off before the status update.
LostPasses == faults + IF api.deleting THEN 1 ELSE 0

OpenTasks == {t \in TaskIds : ledger[t] = "open"}
Executing == {t \in OpenTasks : taskNode[t] # NoNode}

\* The largest limit of the generations the run has seen.
MaxParallel == Max({Config[g].maxParallel : g \in 1 .. api.gen})

\* maxParallel, "the maximum concurrent executor tasks": kept by the tree,
\* and missed in the queue only by the tasks of lost passes.
ParallelBound ==
  api.phase = "Running" =>
    /\ Cardinality(InPhase(api.tree, "Running")) <= MaxParallel
    /\ Cardinality(Executing) <= MaxParallel * (1 + LostPasses)

\* The planner is asked about full results: every node is settled, every
\* Scored one was answered, and no depth has more of them than the beam.
PlannerSeesResults ==
  pc = "plan" =>
    /\ InPhase(mem.tree, "Pending") \cup InPhase(mem.tree, "Running") = {}
    /\ \A n \in InPhase(mem.tree, "Scored") :
         \E t \in 1 .. issued : taskNode[t] = n /\ ledger[t] = "ok"
    /\ Search(mem).beamWidth > 0 =>
         \A n \in DOMAIN mem.tree.nodes :
           Cardinality(Rivals(mem.tree, mem.tree.nodes[n].depth))
             <= Search(mem).beamWidth

\* maxIterations limits the planner's invocations: every planner task is
\* counted, except that of the last pass and those of lost ones.
PlannerBound ==
  Cardinality({t \in 1 .. issued : taskNode[t] = NoNode})
    <= api.tree.iterations + 1 + LostPasses

Rank(phase) ==
  CASE phase = "Pending" -> 0
    [] phase = "Running" -> 1
    [] phase \in {"Scored", "EvalFailed"} -> 2
    [] phase = "Pruned" -> 3
    [] phase = "Solution" -> 4

\* What a stored node may become: it is never worked on twice, never leaves
\* the tree, and keeps its place in it.
NodesMoveForward ==
  [][\A n \in DOMAIN api.tree.nodes :
       /\ n \in DOMAIN api'.tree.nodes
       /\ api'.tree.nodes[n].parent = api.tree.nodes[n].parent
       /\ Rank(api'.tree.nodes[n].phase) >= Rank(api.tree.nodes[n].phase)]_vars

\* A timed-out search leaves no executor task in the queue, except those of
\* lost passes.
TimeoutCancels ==
  api.reason = "Timeout" => Cardinality(Executing) <= MaxParallel * LostPasses

\* Results reach the node they were computed for, and the planner decides on
\* all of them.
TreeIsConsistent == TaskBelongsToNode /\ PlannerSeesResults

\* The limits of spec.search hold for the tasks in the queue, not only for the
\* tree, whatever passes are lost, and a timeout leaves none of them behind.
SearchIsBounded == PlannerBound /\ ParallelBound /\ TimeoutCancels

\* Every search ends.
SearchEnds == <>(Terminal(api.phase) \/ ~api.exists)
=============================================================================
