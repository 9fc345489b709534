---------------------------- MODULE RunModesProofs ----------------------------
(***************************************************************************)
(* Proofs about the runs of a single step, for every set of worlds and     *)
(* number of faults: repeated passes ask once and with the same inputs,    *)
(* the end of a run is notified once, as far as nothing goes wrong, and a  *)
(* budget is overdrawn by no more than the runs under way at once.         *)
(*                                                                         *)
(* All are shown in the same way.  What a pass does outside the object, a  *)
(* task, a notification or an entry of the spend store, is ahead of what   *)
(* is stored by one at most, and a pass whose outcome is not stored is a   *)
(* fault or, when the copy is known to be old, was paid for by the fault   *)
(* that made it so.                                                        *)
(***************************************************************************)
EXTENDS RunModes, FiniteSetTheorems, TLAPS

\* Whom a run may ask.
Asked == {Nil} \cup UNION {{w.agent} \cup Route(w) : w \in Worlds}

StepPhase == {"", "Pending", "WarmingUp", "Running", "Succeeded", "Failed"}

\* Those of the Ready condition.
Reason == {"", "Validated", "TeamNotFound", "InvalidInput", "BudgetExceeded", "Timeout", "TimedOut",
           "StepFailed", "Succeeded"}

RunRecord ==
  [exists : BOOLEAN, deleting : BOOLEAN, finalizer : BOOLEAN,
   phase : {"", "Running", "Succeeded", "Failed"}, snapped : BOOLEAN,
   reason : Reason, step : StepPhase, task : 0 .. MaxTasks, agent : Asked]

ObjectTypes ==
  /\ api \in RunRecord /\ cache \in RunRecord /\ mem \in RunRecord
  /\ cacheFresh \in BOOLEAN /\ memFresh \in BOOLEAN /\ filled \in BOOLEAN
  /\ pc \in {"idle", "load", "drive", "finish", "persist"}

TaskTypes ==
  /\ ledger \in [TaskIds -> Queue!LedgerState]
  /\ issued \in Nat /\ DOMAIN task = TaskIds

PostTypes ==
  /\ sent \in [Events -> Nat]
  /\ alarm \in {Nil, "BudgetWarning", "BudgetExceeded"}

TypeOK == ObjectTypes /\ TaskTypes /\ PostTypes /\ world \in Worlds /\ faults \in Nat

\* A step that has no task yet.
CopyOK(run) ==
  /\ run.phase = "" => run.step = ""
  /\ run.step \in {"", "Pending", "WarmingUp"} => run.task = NoTask

\* Only a fault makes a pass work on a copy that differs in more than that
\* the run was deleted.
Current == memFresh \/ faults = 0

\* The copies of the run are former versions of it, and a pass that submits or
\* notifies found the run of its copy not ended.
FrameInv ==
  /\ cacheFresh => cache = api
  /\ Terminal(cache.phase) => Terminal(api.phase)
  /\ pc = "load" /\ Terminal(mem.phase) => Terminal(api.phase)
  /\ pc = "load" /\ Current => mem.phase = api.phase
  /\ pc \in {"drive", "finish", "persist"} /\ Current => ~Terminal(api.phase)
  /\ pc \in {"drive", "finish"} => mem.phase = "Running"
  /\ CopyOK(api) /\ CopyOK(cache) /\ CopyOK(mem)

OpenTasks == {t \in TaskIds : ledger[t] = "open"}

\* The open tasks a copy of the run does not wait for.
Loose(open, run) == {t \in open : t # run.task}

\* What the current pass may have submitted so far.
Room == IF pc \in {"load", "drive"} THEN 0 ELSE 1

\* The next pass, or the one under way, is lost without another fault.
Unspent == ~api.deleting /\ (pc = "idle" \/ ~memFresh)

Count(open, run) == Cardinality(Loose(open, run))

\* Every pass leaves at most one task that the stored run does not know of, and
\* every pass that was lost is a fault.
LooseInv ==
  /\ pc # "idle" => Count(OpenTasks, mem) <= faults
  /\ Count(OpenTasks, cache) <= faults + Room
  /\ Count(OpenTasks, api) <= faults + Room
  /\ Unspent => Count(OpenTasks, api) + 1 <= faults + Room

\* A routed step leaves Pending in the pass that filled in the inputs.
RoutedInv ==
  world.mode = "routed" =>
    /\ \A t \in 1 .. issued : task[t].filled
    /\ api.step # "Pending" /\ cache.step # "Pending"
    /\ pc # "drive" => mem.step # "Pending"
    /\ pc = "drive" /\ mem.step = "Pending" => filled

\* How often the run was notified.
Sum(s) == s["Succeeded"] + s["Failed"] + s["TimedOut"]

Wanted(w, e) == w.notifyRef /\ (w.on = {} \/ e \in w.on)

\* The run, ended like this, was notified with sent s and faults f.
Told(run, w, s, f) ==
  Terminal(run.phase) /\ run.step # "" /\ Wanted(w, runPhaseToEvent(run)) =>
    /\ Sum(s) + f >= 1
    /\ f = 0 => s[runPhaseToEvent(run)] = 1

\* A run is notified before it is stored.  As for the tasks, a repetition takes
\* a lost pass.
NotifyInv ==
  /\ Sum(sent) <= 1 + faults
  /\ pc # "idle" /\ ~Terminal(mem.phase) => Sum(sent) <= faults
  /\ ~Terminal(api.phase) /\ Unspent => Sum(sent) <= faults
  /\ ~Terminal(api.phase) /\ Unspent /\ pc # "idle" /\ ~Terminal(mem.phase) => Sum(sent) + 1 <= faults
  /\ \A e \in RunEvents : <<"run", e>> \in fired => sent[e] >= 1
  /\ Told(api, world, sent, faults)
  /\ pc = "persist" => Told(mem, world, sent, faults)

-----------------------------------------------------------------------------
(* What the operations on a run do to its copy.                            *)

\* The copy changes in nothing that the invariants speak of.
Keeps(old, new) ==
  /\ new.phase = old.phase /\ new.step = old.step /\ new.task = old.task
  /\ new.reason = old.reason /\ (old.deleting => new.deleting)

LEMMA ConstFacts ==
  /\ MaxTasks \in Nat /\ MaxFaults \in Nat
  /\ NoTask = 0 /\ NoTask \in 0 .. MaxTasks
  /\ \A t \in TaskIds : t \in 0 .. MaxTasks /\ t # NoTask
BY ModesAssumption DEF NoTask, TaskIds

LEMMA ObjectFacts ==
  ASSUME NEW run \in RunRecord
  PROVE  /\ WithoutFinalizer(run) \in RunRecord /\ Keeps(run, WithoutFinalizer(run))
         /\ [run EXCEPT !.finalizer = TRUE] \in RunRecord
         /\ Keeps(run, [run EXCEPT !.finalizer = TRUE])
         /\ [run EXCEPT !.snapped = TRUE] \in RunRecord
         /\ Keeps(run, [run EXCEPT !.snapped = TRUE])
         /\ [run EXCEPT !.deleting = TRUE, !.exists = run.finalizer] \in RunRecord
         /\ Keeps(run, [run EXCEPT !.deleting = TRUE, !.exists = run.finalizer])
         /\ [run EXCEPT !.deleting = TRUE, !.exists = run.finalizer].deleting = TRUE
<1>1. WithoutFinalizer(run) \in RunRecord /\ Keeps(run, WithoutFinalizer(run))
  <2>1. (~run.deleting) \in BOOLEAN
    BY DEF RunRecord
  <2>2. PICK b \in BOOLEAN : b = ~run.deleting
    BY <2>1
  <2>3. WithoutFinalizer(run) = [run EXCEPT !.finalizer = FALSE, !.exists = b]
    BY <2>2 DEF WithoutFinalizer
  <2>4. QED
    BY <2>3 DEF RunRecord, Keeps
<1>2. /\ [run EXCEPT !.finalizer = TRUE] \in RunRecord
      /\ Keeps(run, [run EXCEPT !.finalizer = TRUE])
  BY DEF RunRecord, Keeps
<1>3. /\ [run EXCEPT !.snapped = TRUE] \in RunRecord
      /\ Keeps(run, [run EXCEPT !.snapped = TRUE])
  BY DEF RunRecord, Keeps
<1>4. /\ [run EXCEPT !.deleting = TRUE, !.exists = run.finalizer] \in RunRecord
      /\ Keeps(run, [run EXCEPT !.deleting = TRUE, !.exists = run.finalizer])
      /\ [run EXCEPT !.deleting = TRUE, !.exists = run.finalizer].deleting = TRUE
  <2>1. PICK b \in BOOLEAN : b = run.finalizer
    BY DEF RunRecord
  <2>2. QED
    BY <2>1 DEF RunRecord, Keeps
<1>5. QED
  BY <1>1, <1>2, <1>3, <1>4

LEMMA NewRunFacts ==
  /\ NewRun \in RunRecord /\ CopyOK(NewRun)
  /\ NewRun.phase = "" /\ NewRun.step = "" /\ NewRun.task = NoTask /\ NewRun.deleting = FALSE
<1>1. Nil \in Asked
  BY DEF Asked
<1>2. QED
  BY <1>1, ConstFacts DEF NewRun, RunRecord, StepPhase, Reason, CopyOK

LEMMA KeepsItself == \A run : Keeps(run, run)
BY DEF Keeps

LEMMA CopyKept ==
  ASSUME NEW old, NEW new, Keeps(old, new), CopyOK(old)
  PROVE  CopyOK(new)
BY DEF Keeps, CopyOK

\* A copy that is given another phase or another step keeps its task.
LEMMA PhaseFacts ==
  ASSUME NEW run \in RunRecord, NEW ph \in {"Running", "Succeeded", "Failed"},
         NEW st \in StepPhase, NEW r \in Reason
  PROVE  LET new == [run EXCEPT !.phase = ph, !.reason = r, !.step = st]
         IN  /\ new \in RunRecord /\ new.phase = ph /\ new.step = st
             /\ new.task = run.task /\ new.reason = r
BY DEF RunRecord

LEMMA StepFacts ==
  ASSUME NEW run \in RunRecord, NEW st \in StepPhase
  PROVE  LET new == [run EXCEPT !.step = st]
         IN  /\ new \in RunRecord /\ new.phase = run.phase /\ new.step = st
             /\ new.task = run.task
BY DEF RunRecord

LEMMA AskedFacts ==
  ASSUME NEW run \in RunRecord, NEW t \in TaskIds, NEW a \in Asked
  PROVE  LET new == [run EXCEPT !.step = "Running", !.task = t, !.agent = a]
         IN  /\ new \in RunRecord /\ new.phase = run.phase /\ new.step = "Running"
             /\ new.task = t
<1>1. t \in 0 .. MaxTasks
  BY ConstFacts
<1>2. QED
  BY <1>1 DEF RunRecord, StepPhase

LEMMA FailedFacts ==
  ASSUME NEW run \in RunRecord, NEW r \in Reason
  PROVE  LET new == [run EXCEPT !.phase = "Failed", !.reason = r]
         IN  /\ new \in RunRecord /\ new.phase = "Failed" /\ new.step = run.step
             /\ new.task = run.task
BY DEF RunRecord

LEMMA InitializedFacts ==
  ASSUME NEW run \in RunRecord, ~Terminal(run.phase)
  PROVE  LET new == Initialized(run)
         IN  /\ new \in RunRecord /\ new.phase = "Running" /\ new.task = run.task
             /\ run.phase = "" => new.step = "Pending"
             /\ run.phase # "" => new.step = run.step
<1>1. CASE run.phase = ""
  <2>1. Initialized(run) = [run EXCEPT !.phase = "Running", !.step = "Pending", !.reason = "Validated"]
    BY <1>1 DEF Initialized
  <2>2. QED
    BY <1>1, <2>1 DEF RunRecord, StepPhase, Reason
<1>2. CASE run.phase # ""
  <2>1. run.phase = "Running"
    BY <1>2 DEF RunRecord, Terminal
  <2>2. QED
    BY <1>2, <2>1 DEF Initialized
<1>3. QED
  BY <1>1, <1>2

\* The run that timed out, or whose step is done or failed: it has ended, or is
\* the one that it was.
Judged(run, new) ==
  /\ new \in RunRecord /\ new.task = run.task
  /\ Terminal(new.phase) \/ new = run
  /\ new.step = run.step \/ (run.step \in {"Running", "Pending"} /\ new.step = "Failed")

LEMMA JudgedFacts ==
  ASSUME NEW run \in RunRecord, run.phase = "Running"
  PROVE  /\ Judged(run, Finalized(run)) /\ Judged(run, PipelinePhase(run))
         /\ \A r \in Reason : Judged(run, TimedOut(run, r)) /\ Terminal(TimedOut(run, r).phase)
<1>1. ASSUME NEW r \in Reason
      PROVE  Judged(run, TimedOut(run, r)) /\ Terminal(TimedOut(run, r).phase)
  <2> DEFINE st == IF run.step \in {"Running", "Pending"} THEN "Failed" ELSE run.step
  <2>1. st \in StepPhase
    BY DEF RunRecord, StepPhase
  <2>2. TimedOut(run, r) = [run EXCEPT !.phase = "Failed", !.reason = r, !.step = st]
    BY DEF TimedOut
  <2>3. st = run.step \/ (run.step \in {"Running", "Pending"} /\ st = "Failed")
    OBVIOUS
  <2> HIDE DEF st
  <2>4. QED
    BY <1>1, <2>1, <2>2, <2>3 DEF Judged, Terminal, RunRecord
<1>2. ASSUME NEW ph \in {"Succeeded", "Failed"}, NEW r \in Reason
      PROVE  Judged(run, [run EXCEPT !.phase = ph, !.reason = r])
  BY <1>2 DEF Judged, Terminal, RunRecord
<1>3. Judged(run, run)
  BY DEF Judged
<1>4. Judged(run, Finalized(run))
  <2>1. \/ Finalized(run) = [run EXCEPT !.phase = "Succeeded", !.reason = "Succeeded"]
        \/ Finalized(run) = [run EXCEPT !.phase = "Failed", !.reason = "StepFailed"]
        \/ Finalized(run) = run
    BY DEF Finalized
  <2>2. QED
    BY <1>2, <1>3, <2>1 DEF Reason
<1>5. Judged(run, PipelinePhase(run))
  <2>1. \/ PipelinePhase(run) = TimedOut(run, "TimedOut")
        \/ PipelinePhase(run) = [run EXCEPT !.phase = "Failed", !.reason = "BudgetExceeded"]
        \/ PipelinePhase(run) = Finalized(run)
    BY DEF PipelinePhase
  <2>2. QED
    BY <1>1, <1>2, <1>4, <2>1 DEF Reason
<1>6. QED
  BY <1>1, <1>4, <1>5

-----------------------------------------------------------------------------
(* What a step does outside the object.                                    *)

OpenShrinks == OpenTasks' \subseteq OpenTasks

\* No event of the run is sent.
Silent ==
  /\ PostTypes'
  /\ \A e \in RunEvents : sent'[e] = sent[e]
  /\ \A e \in RunEvents : <<"run", e>> \in fired' => <<"run", e>> \in fired

\* The end of the run goes out, or is not wanted, or was sent out already, or
\* fails to.
Announced(run) ==
  LET e == runPhaseToEvent(run)
  IN  /\ e \in RunEvents
      /\ \/ /\ PostTypes' /\ sent'[e] = sent[e] + 1 /\ faults' = faults
            /\ \A f \in RunEvents : f # e => sent'[f] = sent[f]
            /\ \A f \in RunEvents : <<"run", f>> \in fired' => f = e \/ <<"run", f>> \in fired
         \/ Silent /\ faults' = faults + 1
         \/ Silent /\ faults' = faults /\ ~(world.notifyRef /\ policyMatchesEvent(e))
         \/ Silent /\ faults' = faults /\ <<"run", e>> \in fired

LEMMA CancelFacts ==
  ASSUME TaskTypes, NEW T, Queue!Cancel(T)
  PROVE  ledger' \in [TaskIds -> Queue!LedgerState] /\ OpenShrinks
BY DEF TaskTypes, Queue!Cancel, Queue!LedgerState, OpenShrinks, OpenTasks

LEMMA SettleFacts ==
  ASSUME TaskTypes, NEW t \in TaskIds, NEW a \in Queue!Answer, Queue!Settle(t, a)
  PROVE  ledger' \in [TaskIds -> Queue!LedgerState] /\ OpenShrinks
BY DEF TaskTypes, Queue!Settle, Queue!LedgerState, Queue!Answer, OpenShrinks, OpenTasks

LEMMA SubmitFacts ==
  ASSUME TaskTypes, issued < MaxTasks, issued' = issued + 1, Queue!Submit(issued')
  PROVE  /\ issued' \in TaskIds /\ ledger' \in [TaskIds -> Queue!LedgerState]
         /\ issued' \in Nat /\ OpenTasks' = OpenTasks \cup {issued'}
<1>1. issued' \in TaskIds /\ issued' \in Nat
  BY ConstFacts DEF TaskTypes, TaskIds
<1>2. QED
  BY <1>1 DEF TaskTypes, Queue!Submit, Queue!LedgerState, OpenTasks

LEMMA SameTasks ==
  ASSUME TaskTypes, UNCHANGED ledger
  PROVE  ledger' \in [TaskIds -> Queue!LedgerState] /\ OpenShrinks
BY DEF TaskTypes, OpenShrinks, OpenTasks

LEMMA SamePost ==
  ASSUME PostTypes, UNCHANGED <<post, purse>>
  PROVE  Silent
BY DEF PostTypes, post, purse, Silent

\* What is sent of one event.
LEMMA DispatchFacts ==
  ASSUME PostTypes, NEW key, NEW e \in Events, dispatch(key, e)
  PROVE  \/ /\ world.notifyRef /\ policyMatchesEvent(e) /\ allow(key)
            /\ sent' \in [Events -> Nat] /\ sent'[e] = sent[e] + 1
            /\ \A f \in Events : f # e => sent'[f] = sent[f]
            /\ fired' = fired \cup {key}
         \/ /\ ~(world.notifyRef /\ policyMatchesEvent(e) /\ allow(key))
            /\ UNCHANGED post
<1>1. CASE world.notifyRef /\ policyMatchesEvent(e) /\ allow(key)
  <2>1. sent' = [sent EXCEPT ![e] = @ + 1] /\ fired' = fired \cup {key}
    BY <1>1 DEF dispatch
  <2>2. QED
    BY <1>1, <2>1 DEF PostTypes
<1>2. CASE ~(world.notifyRef /\ policyMatchesEvent(e) /\ allow(key))
  BY <1>2 DEF dispatch
<1>3. QED
  BY <1>1, <1>2

LEMMA EventFacts ==
  /\ RunEvents \subseteq Events
  /\ \A run : runPhaseToEvent(run) \in RunEvents
  /\ \A e \in RunEvents : e # "BudgetWarning" /\ e # "BudgetExceeded"
  /\ \A e, f : <<"run", e>> = <<"run", f>> => e = f
  /\ \A e, f : <<"run", e>> # <<"budget", f>>
BY DEF RunEvents, Events, runPhaseToEvent

LEMMA AnnounceFacts ==
  ASSUME PostTypes, NEW run, DispatchRunOrNot(run), UNCHANGED purse
  PROVE  Announced(run)
<1> DEFINE e == runPhaseToEvent(run)
<1>1. e \in RunEvents /\ e \in Events
  BY EventFacts
<1> HIDE DEF e
<1>2. CASE Fault /\ UNCHANGED post
  BY <1>1, <1>2, SamePost DEF Announced, Fault, e
<1>3. CASE DispatchRun(run) /\ UNCHANGED faults
  <2>1. dispatch(<<"run", e>>, e)
    BY <1>3 DEF DispatchRun, e
  <2>2. CASE /\ sent' \in [Events -> Nat] /\ sent'[e] = sent[e] + 1
             /\ \A f \in Events : f # e => sent'[f] = sent[f]
             /\ fired' = fired \cup {<<"run", e>>}
    <3>1. PostTypes'
      BY <2>2 DEF PostTypes, purse
    <3>2. \A f \in RunEvents : f # e => sent'[f] = sent[f]
      BY <2>2, EventFacts
    <3>3. \A f \in RunEvents : <<"run", f>> \in fired' => f = e \/ <<"run", f>> \in fired
      BY <2>2, EventFacts
    <3>4. QED
      BY <1>1, <1>3, <2>2, <3>1, <3>2, <3>3 DEF Announced, e
  <2>3. CASE ~(world.notifyRef /\ policyMatchesEvent(e) /\ allow(<<"run", e>>)) /\ UNCHANGED post
    <3>1. Silent
      BY <2>3, SamePost
    <3>2. ~(world.notifyRef /\ policyMatchesEvent(e)) \/ <<"run", e>> \in fired
      BY <2>3 DEF allow
    <3>3. QED
      BY <1>1, <1>3, <3>1, <3>2 DEF Announced, e
  <2>4. QED
    BY <1>1, <2>1, <2>2, <2>3, DispatchFacts
<1>4. QED
  BY <1>2, <1>3 DEF DispatchRunOrNot

-----------------------------------------------------------------------------
(* The kinds of steps.                                                     *)

Counted == faults' \in Nat /\ (faults' = faults \/ faults' = faults + 1)

\* Nothing that the run is made of changes, save that its tasks are answered.
QuietStep ==
  /\ UNCHANGED <<object, pass, world, issued, task>>
  /\ OpenShrinks /\ Silent /\ Counted

\* The pass ends without a status.
EndStep ==
  /\ pc' = "idle" /\ mem' = NewRun /\ memFresh' = TRUE
  /\ api' \in RunRecord /\ Keeps(api, api')
  /\ cache' \in {cache, api'} /\ (cacheFresh' => cache' = api')
  /\ UNCHANGED <<world, issued, task>>
  /\ OpenShrinks /\ Silent /\ Counted
  /\ pc \in {"idle", "load"} \/ ~memFresh \/ faults' = faults + 1

\* The stored object changes, or the cache comes to know of it.
ObjectStep ==
  /\ UNCHANGED <<mem, pc, filled, world, issued, task>>
  /\ api' \in RunRecord /\ Keeps(api, api')
  /\ cache' \in {cache, api'} /\ (cacheFresh' => cache' = api')
  /\ memFresh' = memFresh \/ (memFresh' = FALSE /\ (faults' = faults + 1 \/ api'.deleting))
  /\ OpenShrinks /\ Silent /\ Counted

\* The pass begins, with the copy of the cache or with the stored run.
LoadStep ==
  /\ pc = "idle" /\ pc' = "load" /\ ~cache.deleting
  /\ api' \in RunRecord /\ Keeps(api, api')
  /\ cache' = cache /\ (cacheFresh' => cacheFresh /\ api' = api)
  /\ \/ mem' = cache /\ api' = api /\ memFresh' = cacheFresh
     \/ mem' = api' /\ memFresh' = TRUE
  /\ faults' = IF cacheFresh THEN faults ELSE faults + 1
  /\ UNCHANGED <<filled, world, issued, task>>
  /\ OpenShrinks /\ Silent /\ Counted

\* The team's spec is stored in the run.
SnapStep ==
  /\ pc = "load" /\ ~Terminal(mem.phase) /\ memFresh
  /\ api' \in RunRecord /\ Keeps(api, api') /\ mem' = api'
  /\ cache' = cache /\ (cacheFresh' => cacheFresh /\ api' = api)
  /\ UNCHANGED <<memFresh, pc, filled, world, issued, task, faults>>
  /\ OpenShrinks /\ Silent

\* The pass goes on with the copy.
Forward == <<pc, pc'>> \in {<<"load", "drive">>, <<"load", "persist">>, <<"drive", "finish">>, <<"finish", "persist">>}

WorkStep ==
  /\ Forward /\ ~Terminal(mem.phase)
  /\ mem' \in RunRecord /\ CopyOK(mem') /\ mem'.task = mem.task
  /\ pc' # "persist" => mem'.phase = "Running"
  /\ mem'.step = "Pending" =>
       \/ pc \in {"load", "finish"} /\ mem.step = "Pending"
       \/ pc' = "drive" /\ (IsTeamRun => filled')
  /\ UNCHANGED <<object, memFresh, world, issued, task>>
  /\ OpenShrinks /\ Counted
  /\ \/ Silent /\ (Terminal(mem'.phase) => mem'.step = "" \/ faults' = faults + 1)
     \/ Announced(mem') /\ Terminal(mem'.phase)

\* The step is given a task.
AskStep ==
  /\ pc = "drive" /\ pc' = "finish" /\ Waits
  /\ world.mode = "routed" => mem.step = "Pending"
  /\ mem' \in RunRecord /\ mem'.phase = mem.phase /\ mem'.step = "Running" /\ mem'.task = issued'
  /\ issued' = issued + 1 /\ issued' \in TaskIds /\ OpenTasks' = OpenTasks \cup {issued'}
  /\ DOMAIN task' = TaskIds /\ task'[issued'].filled = filled
  /\ \A t \in TaskIds : t # issued' => task'[t] = task[t]
  /\ UNCHANGED <<object, memFresh, filled, world>>
  /\ Silent /\ Counted

\* The status is stored.
StoreStep ==
  /\ pc = "persist" /\ memFresh
  /\ pc' = "idle" /\ mem' = NewRun /\ memFresh' = TRUE
  /\ api' = mem /\ cache' = cache /\ (cacheFresh' => cacheFresh /\ api' = api)
  /\ UNCHANGED <<world, issued, task, faults>>
  /\ OpenShrinks /\ Silent

KnownStep ==
  QuietStep \/ EndStep \/ ObjectStep \/ LoadStep \/ SnapStep \/ WorkStep \/ AskStep \/ StoreStep

LEMMA FaultFacts ==
  ASSUME faults \in Nat
  PROVE  /\ Fault => Counted /\ faults' = faults + 1
         /\ UNCHANGED faults => Counted
BY DEF Fault, Counted

\* The parts of the type invariant that a step leaves alone.
LEMMA TypesKept ==
  ASSUME TypeOK
  PROVE  /\ UNCHANGED tasks => TaskTypes' /\ OpenShrinks
         /\ UNCHANGED <<post, purse>> => Silent
         /\ Silent => PostTypes'
         /\ UNCHANGED world => (world \in Worlds)'
         /\ Counted => (faults \in Nat)'
         /\ Fault => Counted /\ faults' = faults + 1
         /\ UNCHANGED faults => Counted
<1>1. TaskTypes /\ PostTypes /\ world \in Worlds /\ faults \in Nat
  BY DEF TypeOK
<1>2. ASSUME UNCHANGED tasks PROVE TaskTypes' /\ OpenShrinks
  <2>1. UNCHANGED <<ledger, issued, task>>
    BY <1>2 DEF tasks
  <2>2. QED
    BY <1>1, <2>1, SameTasks DEF TaskTypes
<1>3. UNCHANGED <<post, purse>> => Silent
  BY <1>1, SamePost
<1>4. QED
  BY <1>1, <1>2, <1>3, FaultFacts DEF Silent, Counted

-----------------------------------------------------------------------------
(* Every step is of one of these kinds.                                    *)

\* Around the controller.
LEMMA AroundKinds ==
  ASSUME TypeOK,
         \/ Delivery \/ WindowEnds \/ BudgetReconcile \/ maybeNotify \/ Reconnect \/ NewDay
         \/ OtherStarts \/ OtherSpends \/ DeadlinePasses \/ AgentReady \/ AgentMoves \/ AgentAnswers
         \/ UNCHANGED vars
  PROVE  TypeOK' /\ QuietStep
<1>0. ObjectTypes /\ TaskTypes /\ PostTypes /\ world \in Worlds /\ faults \in Nat
  BY DEF TypeOK
<1>1. ASSUME UNCHANGED <<object, pass, world, tasks>>, Silent, Counted PROVE TypeOK' /\ QuietStep
  <2>1. TaskTypes' /\ OpenShrinks /\ PostTypes' /\ (world \in Worlds)' /\ (faults \in Nat)'
    BY <1>1, TypesKept
  <2>2. ObjectTypes'
    BY <1>0, <1>1 DEF object, pass, ObjectTypes
  <2>3. UNCHANGED <<issued, task>>
    BY <1>1 DEF tasks
  <2>4. QED
    BY <1>1, <2>1, <2>2, <2>3 DEF TypeOK, QuietStep
<1>2. ASSUME UNCHANGED <<object, pass, world, tasks>>, UNCHANGED sent, UNCHANGED alarm, fired' \subseteq fired,
             UNCHANGED faults
      PROVE  TypeOK' /\ QuietStep
  <2>1. Silent /\ Counted
    BY <1>0, <1>2, TypesKept DEF PostTypes, Silent
  <2>2. QED
    BY <1>1, <1>2, <2>1
<1>3. CASE Delivery \/ WindowEnds
  <2>1. UNCHANGED <<object, pass, world, tasks>> /\ UNCHANGED sent /\ UNCHANGED alarm /\ fired' \subseteq fired
    BY <1>3 DEF Delivery, WindowEnds, Deliver, DeliverFails, purse
  <2>2. UNCHANGED faults
    BY <1>3 DEF Delivery, WindowEnds, Deliver, DeliverFails
  <2>3. QED
    BY <1>2, <2>1, <2>2
<1>4. CASE Reconnect \/ NewDay \/ OtherStarts \/ OtherSpends \/ DeadlinePasses \/ AgentReady \/ UNCHANGED vars
  <2>1. UNCHANGED <<object, pass, world, tasks>> /\ UNCHANGED <<post, purse>> /\ UNCHANGED faults
    BY <1>4 DEF Reconnect, NewDay, OtherStarts, OtherSpends, DeadlinePasses, AgentReady, vars
  <2>2. Silent /\ Counted
    BY <2>1, TypesKept
  <2>3. QED
    BY <1>1, <2>1, <2>2
<1>5. CASE AgentMoves
  <2>1. UNCHANGED <<object, pass, world, tasks>> /\ UNCHANGED <<post, purse>> /\ Fault
    BY <1>5 DEF AgentMoves
  <2>2. Silent /\ Counted
    BY <2>1, TypesKept
  <2>3. QED
    BY <1>1, <2>1, <2>2
<1>6. CASE BudgetReconcile
  <2>1. UNCHANGED <<object, pass, world, tasks>> /\ UNCHANGED post /\ UNCHANGED faults
    BY <1>6 DEF BudgetReconcile
  <2>2. alarm' \in {Nil, "BudgetWarning", "BudgetExceeded"}
    BY <1>6 DEF BudgetReconcile
  <2>3. Silent /\ Counted
    BY <1>0, <2>1, <2>2, TypesKept DEF post, Silent, PostTypes
  <2>4. QED
    BY <1>1, <2>1, <2>3
<1>7. CASE maybeNotify
  <2>1. UNCHANGED <<object, pass, world, tasks>> /\ UNCHANGED faults /\ alarm' = Nil /\ alarm # Nil
        /\ dispatch(<<"budget", alarm>>, alarm)
    BY <1>7 DEF maybeNotify
  <2>2. alarm \in {"BudgetWarning", "BudgetExceeded"} /\ alarm \in Events
    BY <1>0, <2>1 DEF PostTypes, Events
  <2>3. sent' \in [Events -> Nat] /\ (\A e \in Events : e # alarm => sent'[e] = sent[e])
        /\ fired' \subseteq fired \cup {<<"budget", alarm>>}
    BY <1>0, <2>1, <2>2, DispatchFacts DEF PostTypes, post
  <2>4. PostTypes'
    BY <2>1, <2>3 DEF PostTypes
  <2>5. \A e \in RunEvents : sent'[e] = sent[e]
    BY <2>2, <2>3, EventFacts
  <2>6. \A e \in RunEvents : <<"run", e>> \in fired' => <<"run", e>> \in fired
    BY <2>3, EventFacts
  <2>7. Silent /\ Counted
    BY <2>1, <2>4, <2>5, <2>6, TypesKept DEF Silent
  <2>8. QED
    BY <1>1, <2>1, <2>7
<1>8. CASE AgentAnswers
  <2>1. UNCHANGED <<object, pass, world, issued, task>> /\ UNCHANGED <<post, purse>> /\ UNCHANGED faults
    BY <1>8 DEF AgentAnswers
  <2>2. PICK t \in TaskIds, a \in Queue!Answer : Queue!Settle(t, a)
    BY <1>8 DEF AgentAnswers
  <2>3. ledger' \in [TaskIds -> Queue!LedgerState] /\ OpenShrinks
    BY <1>0, <2>2, SettleFacts
  <2>4. TaskTypes' /\ ObjectTypes'
    BY <1>0, <2>1, <2>3 DEF TaskTypes, ObjectTypes, object, pass
  <2>5. Silent /\ Counted
    BY <2>1, TypesKept
  <2>6. PostTypes' /\ (world \in Worlds)' /\ (faults \in Nat)'
    BY <2>1, <2>5, TypesKept
  <2>7. QED
    BY <2>1, <2>3, <2>4, <2>5, <2>6 DEF TypeOK, QuietStep
<1>9. QED
  BY <1>3, <1>4, <1>5, <1>6, <1>7, <1>8

\* A copy of the cache that is fresh is the stored run.
CacheTrue == cacheFresh => cache = api

LEMMA StoreFacts ==
  ASSUME ObjectTypes, CacheTrue, NEW run \in RunRecord, Store(run)
  PROVE  /\ api' = run /\ api' \in RunRecord /\ cache' = cache /\ cache' \in RunRecord
         /\ cacheFresh' \in BOOLEAN /\ (cacheFresh' => cacheFresh /\ api' = api)
         /\ cacheFresh' => cache' = api'
BY DEF ObjectTypes, CacheTrue, Store

LEMMA SameObject ==
  ASSUME ObjectTypes, CacheTrue, UNCHANGED object
  PROVE  /\ api' = api /\ api' \in RunRecord /\ cache' = cache /\ cache' \in RunRecord
         /\ cacheFresh' \in BOOLEAN /\ (cacheFresh' => cacheFresh /\ api' = api)
         /\ cacheFresh' => cache' = api'
BY DEF ObjectTypes, CacheTrue, object

LEMMA OutsideFacts ==
  ASSUME TypeOK, Outside
  PROVE  Silent /\ PostTypes' /\ UNCHANGED world /\ (world \in Worlds)'
<1>1. UNCHANGED <<post, purse>> /\ UNCHANGED world
  BY DEF Outside
<1>2. QED
  BY <1>1, TypesKept

\* The end of a pass, whatever is done to the object.
LEMMA EndsSo ==
  ASSUME TypeOK, NEW again, PassEnds(again), filled' \in BOOLEAN,
         api' \in RunRecord, Keeps(api, api'), cache' \in {cache, api'}, cacheFresh' \in BOOLEAN,
         cacheFresh' => cache' = api',
         TaskTypes', OpenShrinks, UNCHANGED <<issued, task>>, Silent, UNCHANGED world, Counted,
         pc \in {"idle", "load"} \/ ~memFresh \/ faults' = faults + 1
  PROVE  TypeOK' /\ EndStep
<1>1. pc' = "idle" /\ mem' = NewRun /\ memFresh' = TRUE
  BY DEF PassEnds
<1>2. ObjectTypes'
  BY <1>1, NewRunFacts DEF TypeOK, ObjectTypes
<1>3. PostTypes' /\ (world \in Worlds)' /\ (faults \in Nat)'
  BY TypesKept
<1>4. TypeOK'
  BY <1>2, <1>3 DEF TypeOK
<1>5. QED
  BY <1>1, <1>4 DEF EndStep

LEMMA GoneKind ==
  ASSUME TypeOK, CacheTrue, ReconcileGone
  PROVE  TypeOK' /\ EndStep
<1>0. ObjectTypes /\ TaskTypes /\ faults \in Nat
  BY DEF TypeOK
<1>1. /\ Get /\ PassEnds(FALSE) /\ UNCHANGED object /\ UNCHANGED tasks /\ Outside /\ UNCHANGED filled
  BY DEF ReconcileGone, GetNotFound, Untouched, object
<1>2. pc = "idle" /\ Counted
  BY <1>1, TypesKept DEF Get
<1>3. Silent /\ UNCHANGED world
  BY <1>1, OutsideFacts
<1>4. TaskTypes' /\ OpenShrinks /\ UNCHANGED <<issued, task>>
  BY <1>1, TypesKept DEF tasks
<1>5. filled' \in BOOLEAN /\ Keeps(api, api')
  BY <1>0, <1>1, SameObject, KeepsItself DEF ObjectTypes
<1>6. QED
  BY <1>0, <1>1, <1>2, <1>3, <1>4, <1>5, SameObject, EndsSo

LEMMA DeletingKind ==
  ASSUME TypeOK, CacheTrue, ReconcileDeleting
  PROVE  TypeOK' /\ EndStep
<1>0. ObjectTypes /\ TaskTypes /\ faults \in Nat
  BY DEF TypeOK
<1>1. /\ Get /\ PassEnds(cache.finalizer /\ ~api.exists) /\ Outside /\ UNCHANGED filled
      /\ Store(WithoutFinalizer(api)) \/ UNCHANGED object
      /\ \/ Queue!Cancel(Cancellable(cache)) /\ UNCHANGED <<issued, task>>
         \/ UNCHANGED tasks
  BY DEF ReconcileDeleting, FinalizeDeletion, Untouched, object
<1>2. pc = "idle" /\ Counted
  BY <1>1, TypesKept DEF Get
<1>3. Silent /\ UNCHANGED world
  BY <1>1, OutsideFacts
<1>4. TaskTypes' /\ OpenShrinks /\ UNCHANGED <<issued, task>>
  <2>1. CASE UNCHANGED tasks
    BY <2>1, TypesKept DEF tasks
  <2>2. CASE Queue!Cancel(Cancellable(cache)) /\ UNCHANGED <<issued, task>>
    BY <1>0, <2>2, CancelFacts DEF TaskTypes
  <2>3. QED
    BY <1>1, <2>1, <2>2
<1>5. filled' \in BOOLEAN
  BY <1>0, <1>1 DEF ObjectTypes
<1>6. /\ api' \in RunRecord /\ Keeps(api, api') /\ cache' = cache
      /\ cacheFresh' \in BOOLEAN /\ (cacheFresh' => cache' = api')
  <2>1. api \in RunRecord
    BY <1>0 DEF ObjectTypes
  <2>2. CASE Store(WithoutFinalizer(api))
    <3>1. WithoutFinalizer(api) \in RunRecord /\ Keeps(api, WithoutFinalizer(api))
      BY <2>1, ObjectFacts
    <3>2. QED
      BY <1>0, <2>2, <3>1, StoreFacts
  <2>3. CASE UNCHANGED object
    BY <1>0, <2>3, SameObject, KeepsItself
  <2>4. QED
    BY <1>1, <2>2, <2>3
<1>7. QED
  BY <1>1, <1>2, <1>3, <1>4, <1>5, <1>6, EndsSo

LEMMA ReleaseKind ==
  ASSUME TypeOK, CacheTrue, ReleaseTerminal
  PROVE  TypeOK' /\ EndStep
<1>0. ObjectTypes /\ TaskTypes /\ faults \in Nat
  BY DEF TypeOK
<1>1. /\ pc = "load" /\ PassEnds(~api.exists) /\ Outside /\ UNCHANGED filled /\ UNCHANGED tasks /\ UNCHANGED faults
      /\ Store(WithoutFinalizer(api)) \/ UNCHANGED object
  BY DEF ReleaseTerminal, RemoveFinalizer, Untouched, object
<1>2. Counted
  BY <1>1, TypesKept
<1>3. Silent /\ UNCHANGED world
  BY <1>1, OutsideFacts
<1>4. TaskTypes' /\ OpenShrinks /\ UNCHANGED <<issued, task>>
  BY <1>1, TypesKept DEF tasks
<1>5. filled' \in BOOLEAN
  BY <1>0, <1>1 DEF ObjectTypes
<1>6. /\ api' \in RunRecord /\ Keeps(api, api') /\ cache' = cache
      /\ cacheFresh' \in BOOLEAN /\ (cacheFresh' => cache' = api')
  <2>1. api \in RunRecord
    BY <1>0 DEF ObjectTypes
  <2>2. CASE Store(WithoutFinalizer(api))
    <3>1. WithoutFinalizer(api) \in RunRecord /\ Keeps(api, WithoutFinalizer(api))
      BY <2>1, ObjectFacts
    <3>2. QED
      BY <1>0, <2>2, <3>1, StoreFacts
  <2>3. CASE UNCHANGED object
    BY <1>0, <2>3, SameObject, KeepsItself
  <2>4. QED
    BY <1>1, <2>2, <2>3
<1>7. QED
  BY <1>1, <1>2, <1>3, <1>4, <1>5, <1>6, EndsSo

\* The pass gives up: an error of the queue, a conflict, a crash.
LEMMA GiveUpKind ==
  ASSUME TypeOK, CacheTrue, QueueError \/ Conflict \/ OperatorRestart
  PROVE  TypeOK' /\ EndStep
<1>0. ObjectTypes /\ TaskTypes /\ PostTypes /\ faults \in Nat
  BY DEF TypeOK
<1>1. PassEnds(TRUE) /\ filled' = FALSE /\ UNCHANGED tasks /\ UNCHANGED world
  BY DEF QueueError, Conflict, OperatorRestart, EndPass, UpdateConflict, Restart, Outside
<1>2. TaskTypes' /\ OpenShrinks /\ UNCHANGED <<issued, task>> /\ filled' \in BOOLEAN
  BY <1>1, TypesKept DEF tasks
<1>3. CASE QueueError \/ Conflict
  <2>1. /\ UNCHANGED object /\ Outside
        /\ \/ pc = "drive" /\ Fault
           \/ ~memFresh /\ UNCHANGED faults
    BY <1>3 DEF QueueError, Conflict, UpdateConflict, Untouched, object
  <2>2. Silent /\ Counted /\ (~memFresh \/ faults' = faults + 1)
    BY <2>1, OutsideFacts, TypesKept
  <2>3. QED
    BY <1>0, <1>1, <1>2, <2>1, <2>2, SameObject, KeepsItself, EndsSo
<1>4. CASE OperatorRestart
  <2>1. /\ Fault /\ cache' = api /\ cacheFresh' = TRUE /\ api' = api
        /\ fired' = {} /\ alarm' = Nil /\ UNCHANGED sent
    BY <1>4 DEF OperatorRestart, Restart
  <2>2. Silent
    BY <1>0, <2>1 DEF Silent, PostTypes
  <2>3. Counted /\ faults' = faults + 1
    BY <2>1, TypesKept
  <2>4. api' \in RunRecord /\ Keeps(api, api') /\ cache' \in {cache, api'} /\ cacheFresh' \in BOOLEAN
        /\ (cacheFresh' => cache' = api')
    BY <1>0, <2>1, KeepsItself DEF ObjectTypes
  <2>5. QED
    BY <1>1, <1>2, <2>2, <2>3, <2>4, EndsSo
<1>5. QED
  BY <1>3, <1>4

LEMMA ObjectKind ==
  ASSUME TypeOK, CacheTrue, CacheSync \/ UserEdit \/ UserDelete
  PROVE  TypeOK' /\ ObjectStep
<1>0. ObjectTypes /\ TaskTypes /\ PostTypes /\ faults \in Nat /\ api \in RunRecord
  BY DEF TypeOK, ObjectTypes
<1>1. UNCHANGED <<filled, tasks>> /\ Outside /\ UNCHANGED <<mem, pc>>
  BY DEF CacheSync, UserEdit, UserDelete, Around, Watch, Edit, Delete
<1>2. TaskTypes' /\ OpenShrinks /\ UNCHANGED <<issued, task>>
  BY <1>1, TypesKept DEF tasks
<1>3. Silent /\ PostTypes' /\ UNCHANGED world /\ (world \in Worlds)'
  BY <1>1, OutsideFacts
<1>4. /\ Counted
      /\ api' \in RunRecord /\ Keeps(api, api')
      /\ cache' \in {cache, api'} /\ (cacheFresh' => cache' = api')
      /\ memFresh' = memFresh \/ (memFresh' = FALSE /\ (faults' = faults + 1 \/ api'.deleting))
      /\ cacheFresh' \in BOOLEAN
  <2>1. CASE CacheSync
    <3>1. cache' = api /\ cacheFresh' = TRUE /\ UNCHANGED <<api, memFresh, faults>>
      BY <2>1 DEF CacheSync, Watch
    <3>2. QED
      BY <1>0, <3>1, TypesKept, KeepsItself
  <2>2. CASE UserEdit
    <3>1. Fault /\ cacheFresh' = FALSE /\ memFresh' = FALSE /\ UNCHANGED <<api, cache>>
      BY <2>2 DEF UserEdit, Edit
    <3>2. QED
      BY <1>0, <3>1, TypesKept, KeepsItself
  <2>3. CASE UserDelete
    <3>1. /\ api' = [api EXCEPT !.deleting = TRUE, !.exists = api.finalizer]
          /\ cacheFresh' = FALSE /\ memFresh' = FALSE /\ UNCHANGED <<cache, faults>>
      BY <2>3 DEF UserDelete, Delete
    <3>2. api' \in RunRecord /\ Keeps(api, api') /\ api'.deleting
      BY <1>0, <3>1, ObjectFacts
    <3>3. QED
      BY <3>1, <3>2, TypesKept
  <2>4. QED
    BY <2>1, <2>2, <2>3
<1>5. ObjectTypes'
  BY <1>0, <1>1, <1>4 DEF ObjectTypes
<1>6. (faults \in Nat)'
  BY <1>4 DEF Counted
<1>7. TypeOK'
  BY <1>2, <1>3, <1>5, <1>6 DEF TypeOK
<1>8. QED
  BY <1>1, <1>2, <1>3, <1>4, <1>7 DEF ObjectStep

LEMMA LoadKind ==
  ASSUME TypeOK, CacheTrue, LoadRun
  PROVE  TypeOK' /\ (LoadStep \/ EndStep)
<1>0. ObjectTypes /\ TaskTypes /\ PostTypes /\ faults \in Nat /\ api \in RunRecord /\ cache \in RunRecord
      /\ filled \in BOOLEAN /\ cacheFresh \in BOOLEAN
  BY DEF TypeOK, ObjectTypes
<1>1. EnsureFinalizer /\ UNCHANGED filled /\ UNCHANGED tasks /\ Outside
  BY DEF LoadRun
<1>2. TaskTypes' /\ OpenShrinks /\ UNCHANGED <<issued, task>>
  BY <1>1, TypesKept DEF tasks
<1>3. Silent /\ PostTypes' /\ UNCHANGED world /\ (world \in Worlds)'
  BY <1>1, OutsideFacts
<1>4. pc = "idle" /\ ~cache.deleting /\ Counted /\ faults' = IF cacheFresh THEN faults ELSE faults + 1
  BY <1>1, TypesKept DEF EnsureFinalizer, Get
<1>5. (faults \in Nat)' /\ filled' \in BOOLEAN
  BY <1>0, <1>1, <1>4 DEF Counted
<1>6. ASSUME pc' = "load", api' \in RunRecord, Keeps(api, api'), cache' = cache, cacheFresh' \in BOOLEAN,
             cacheFresh' => cacheFresh /\ api' = api,
             \/ mem' = cache /\ api' = api /\ memFresh' = cacheFresh
             \/ mem' = api' /\ memFresh' = TRUE
      PROVE  TypeOK' /\ LoadStep
  <2>1. ObjectTypes'
    BY <1>0, <1>5, <1>6 DEF ObjectTypes
  <2>2. TypeOK'
    BY <1>2, <1>3, <1>5, <2>1 DEF TypeOK
  <2>3. QED
    BY <1>1, <1>2, <1>3, <1>4, <1>6, <2>2 DEF LoadStep
<1>7. CASE cache.finalizer /\ mem' = cache /\ memFresh' = cacheFresh /\ pc' = "load" /\ UNCHANGED object
  BY <1>0, <1>6, <1>7, SameObject, KeepsItself
<1>8. CASE Store([api EXCEPT !.finalizer = TRUE]) /\ mem' = api' /\ memFresh' = TRUE /\ pc' = "load"
  <2>1. PICK run : run = [api EXCEPT !.finalizer = TRUE]
    OBVIOUS
  <2>2. run \in RunRecord /\ Keeps(api, run)
    BY <1>0, <2>1, ObjectFacts
  <2>3. Store(run)
    BY <1>8, <2>1
  <2>4. QED
    BY <1>0, <1>6, <1>8, <2>2, <2>3, StoreFacts
<1>9. CASE PassEnds(TRUE) /\ UNCHANGED object
  BY <1>0, <1>2, <1>3, <1>4, <1>5, <1>9, SameObject, KeepsItself, EndsSo
<1>10. QED
  BY <1>1, <1>7, <1>8, <1>9 DEF EnsureFinalizer, Untouched, object

\* A step of the pass on its copy: the parts that all of them share.
LEMMA GoesFacts ==
  ASSUME TypeOK, NEW run \in RunRecord, NEW to \in {"drive", "finish", "persist"}, Goes(run, to)
  PROVE  /\ ObjectTypes' /\ mem' = run /\ pc' = to
         /\ UNCHANGED <<object, memFresh, filled>>
BY DEF TypeOK, ObjectTypes, Goes, object

LEMMA WorksSo ==
  ASSUME TypeOK, ObjectTypes', UNCHANGED <<object, memFresh, issued, task>>, Forward, ~Terminal(mem.phase),
         CopyOK(mem'), mem'.task = mem.task,
         pc' # "persist" => mem'.phase = "Running",
         mem'.step = "Pending" =>
           \/ pc \in {"load", "finish"} /\ mem.step = "Pending"
           \/ pc' = "drive" /\ (IsTeamRun => filled'),
         UNCHANGED world, TaskTypes', OpenShrinks, Counted, PostTypes',
         \/ Silent /\ (Terminal(mem'.phase) => mem'.step = "" \/ faults' = faults + 1)
         \/ Announced(mem') /\ Terminal(mem'.phase)
  PROVE  TypeOK' /\ WorkStep
<1>1. (world \in Worlds)' /\ (faults \in Nat)'
  BY TypesKept
<1>2. TypeOK'
  BY <1>1 DEF TypeOK
<1>3. mem' \in RunRecord
  BY DEF ObjectTypes
<1>4. QED
  BY <1>2, <1>3 DEF WorkStep

LEMMA RejectKind ==
  ASSUME TypeOK, CopyOK(mem), Reject
  PROVE  TypeOK' /\ WorkStep
<1>0. mem \in RunRecord
  BY DEF TypeOK, ObjectTypes
<1>1. PICK r \in {"InvalidInput", "BudgetExceeded"} : Fails(r)
  BY DEF Reject
<1>2. pc = "load" /\ ~Terminal(mem.phase) /\ mem.phase = "" /\ UNCHANGED tasks /\ Outside /\ Counted
  BY TypesKept DEF Reject, Loaded
<1>3. PICK run : run = [mem EXCEPT !.phase = "Failed", !.reason = r]
  OBVIOUS
<1>4. run \in RunRecord /\ run.phase = "Failed" /\ run.step = mem.step /\ run.task = mem.task
  BY <1>0, <1>1, <1>3 DEF RunRecord, Reason
<1>5. Goes(run, "persist")
  BY <1>1, <1>3 DEF Fails
<1>6. ObjectTypes' /\ mem' = run /\ pc' = "persist" /\ UNCHANGED <<object, memFresh, filled>>
  BY <1>4, <1>5, GoesFacts
<1>7. mem.step = "" /\ CopyOK(run)
  BY <1>2, <1>4 DEF CopyOK
<1>8. TaskTypes' /\ OpenShrinks /\ UNCHANGED <<issued, task>>
  BY <1>2, TypesKept DEF tasks
<1>9. Silent /\ PostTypes' /\ UNCHANGED world
  BY <1>2, OutsideFacts
<1>10. Forward /\ pc' = "persist" /\ mem'.step = "" /\ mem'.task = mem.task
  BY <1>2, <1>4, <1>6, <1>7 DEF Forward
<1>11. QED
  BY <1>2, <1>6, <1>7, <1>8, <1>9, <1>10, WorksSo

LEMMA SnapKind ==
  ASSUME TypeOK, CacheTrue, CopyOK(mem), SnapshotTeam
  PROVE  TypeOK' /\ (SnapStep \/ EndStep \/ WorkStep)
<1>0. mem \in RunRecord /\ api \in RunRecord /\ ObjectTypes
  BY DEF TypeOK, ObjectTypes
<1>1. pc = "load" /\ ~Terminal(mem.phase) /\ UNCHANGED tasks /\ Outside
  BY DEF SnapshotTeam, Loaded
<1>2. TaskTypes' /\ OpenShrinks /\ UNCHANGED <<issued, task>>
  BY <1>1, TypesKept DEF tasks
<1>3. Silent /\ PostTypes' /\ UNCHANGED world /\ (world \in Worlds)'
  BY <1>1, OutsideFacts
<1>4. CASE /\ memFresh /\ api.exists /\ Store([api EXCEPT !.snapped = TRUE])
           /\ mem' = api' /\ UNCHANGED <<memFresh, pc, wake, filled, faults>>
  <2>1. PICK run : run = [api EXCEPT !.snapped = TRUE]
    OBVIOUS
  <2>2. run \in RunRecord /\ Keeps(api, run)
    BY <1>0, <2>1, ObjectFacts
  <2>3. Store(run)
    BY <1>4, <2>1
  <2>4. /\ api' = run /\ api' \in RunRecord /\ cache' = cache /\ cache' \in RunRecord /\ cacheFresh' \in BOOLEAN
        /\ (cacheFresh' => cacheFresh /\ api' = api)
    BY <1>0, <2>2, <2>3, StoreFacts
  <2>5. ObjectTypes'
    BY <1>0, <1>4, <2>4 DEF ObjectTypes
  <2>6. (faults \in Nat)'
    BY <1>4 DEF TypeOK
  <2>7. TypeOK'
    BY <1>2, <1>3, <2>5, <2>6 DEF TypeOK
  <2>8. QED
    BY <1>1, <1>2, <1>3, <1>4, <2>2, <2>4, <2>7 DEF SnapStep
<1>5. CASE ~(memFresh /\ api.exists) /\ EndPass(TRUE) /\ Untouched /\ UNCHANGED faults
  <2>1. PassEnds(TRUE) /\ filled' \in BOOLEAN /\ UNCHANGED object /\ Counted
    BY <1>5, TypesKept DEF EndPass, Untouched, object
  <2>2. QED
    BY <1>0, <1>1, <1>2, <1>3, <2>1, SameObject, KeepsItself, EndsSo
<1>6. CASE Fault /\ Fails("TeamNotFound")
  <2>1. PICK run : run = [mem EXCEPT !.phase = "Failed", !.reason = "TeamNotFound"]
    OBVIOUS
  <2>2. run \in RunRecord /\ run.phase = "Failed" /\ run.step = mem.step /\ run.task = mem.task
    BY <1>0, <2>1 DEF RunRecord, Reason
  <2>3. Goes(run, "persist")
    BY <1>6, <2>1 DEF Fails
  <2>4. ObjectTypes' /\ mem' = run /\ pc' = "persist" /\ UNCHANGED <<object, memFresh, filled>>
    BY <2>2, <2>3, GoesFacts
  <2>5. CopyOK(run)
    BY <2>2 DEF CopyOK
  <2>6. Counted /\ faults' = faults + 1
    BY <1>6, TypesKept
  <2>7. Forward /\ pc' = "persist" /\ mem'.step = mem.step /\ mem'.task = mem.task
    BY <1>1, <2>2, <2>4 DEF Forward
  <2>8. QED
    BY <1>1, <1>2, <1>3, <2>4, <2>5, <2>6, <2>7, WorksSo
<1>7. QED
  BY <1>4, <1>5, <1>6 DEF SnapshotTeam

LEMMA BeginKind ==
  ASSUME TypeOK, CopyOK(mem), Begin
  PROVE  TypeOK' /\ WorkStep
<1>0. mem \in RunRecord /\ ObjectTypes
  BY DEF TypeOK, ObjectTypes
<1>1. /\ pc = "load" /\ ~Terminal(mem.phase) /\ pc' = "drive" /\ mem' = Initialized(mem)
      /\ filled' = (IsTeamRun /\ mem.phase = "") /\ UNCHANGED <<object, memFresh, wake, tasks>> /\ Outside
  BY DEF Begin, Loaded
<1>2. Counted
  BY TypesKept DEF Begin, Admitted
<1>3. /\ mem' \in RunRecord /\ mem'.phase = "Running" /\ mem'.task = mem.task
      /\ mem.phase = "" => mem'.step = "Pending"
      /\ mem.phase # "" => mem'.step = mem.step
  BY <1>0, <1>1, InitializedFacts
<1>4. CopyOK(mem')
  BY <1>3 DEF CopyOK
<1>5. filled' \in BOOLEAN
  BY <1>1
<1>6. ObjectTypes'
  BY <1>0, <1>1, <1>3, <1>5 DEF ObjectTypes, object
<1>7. TaskTypes' /\ OpenShrinks /\ UNCHANGED <<issued, task>>
  BY <1>1, TypesKept DEF tasks
<1>8. Silent /\ PostTypes' /\ UNCHANGED world
  BY <1>1, OutsideFacts
<1>9. mem'.step = "Pending" =>
        \/ pc \in {"load", "finish"} /\ mem.step = "Pending"
        \/ pc' = "drive" /\ (IsTeamRun => filled')
  BY <1>1, <1>3
<1>10. Forward /\ ~Terminal(mem'.phase)
  BY <1>1, <1>3 DEF Forward, Terminal
<1>11. QED
  BY <1>1, <1>2, <1>3, <1>4, <1>6, <1>7, <1>8, <1>9, <1>10, WorksSo

LEMMA JudgedCopy ==
  ASSUME NEW run, NEW new, CopyOK(run), run.phase # "", Judged(run, new)
  PROVE  /\ CopyOK(new) /\ new.task = run.task
         /\ new.step = "Pending" => run.step = "Pending"
<1>1. new.phase # "" /\ new.task = run.task
  BY DEF Judged, Terminal
<1>2. new.step = run.step \/ new.step = "Failed"
  BY DEF Judged
<1>3. QED
  BY <1>1, <1>2 DEF CopyOK

LEMMA BeginLateKind ==
  ASSUME TypeOK, CopyOK(mem), BeginLate
  PROVE  TypeOK' /\ WorkStep
<1>0. mem \in RunRecord /\ PostTypes /\ TaskTypes
  BY DEF TypeOK, ObjectTypes
<1>1. PICK run : run = TimedOut(mem, "Timeout")
  OBVIOUS
<1>2. /\ pc = "load" /\ mem.phase = "Running" /\ ~Terminal(mem.phase) /\ Goes(run, "persist")
      /\ Queue!Cancel(Cancellable(run)) /\ UNCHANGED <<issued, task>>
      /\ DispatchRunOrNot(run) /\ UNCHANGED <<world, purse>>
  BY <1>1 DEF BeginLate, Loaded, Expired
<1>3. Judged(mem, run) /\ Terminal(run.phase)
  <2>1. "Timeout" \in Reason
    BY DEF Reason
  <2>2. QED
    BY <1>0, <1>1, <1>2, <2>1, JudgedFacts
<1>4. run \in RunRecord /\ CopyOK(run) /\ run.task = mem.task /\ (run.step = "Pending" => mem.step = "Pending")
  BY <1>2, <1>3, JudgedCopy DEF Judged
<1>5. ObjectTypes' /\ mem' = run /\ pc' = "persist" /\ UNCHANGED <<object, memFresh, filled>>
  BY <1>2, <1>4, GoesFacts
<1>6. TaskTypes' /\ OpenShrinks
  BY <1>0, <1>2, CancelFacts DEF TaskTypes
<1>7. Announced(run)
  BY <1>0, <1>2, AnnounceFacts
<1>8. PostTypes' /\ Counted
  BY <1>7, FaultFacts DEF Announced, Silent, Counted, TypeOK
<1>9. Forward
  BY <1>2, <1>5 DEF Forward
<1>10. QED
  BY <1>2, <1>3, <1>4, <1>5, <1>6, <1>7, <1>8, <1>9, WorksSo

LEMMA FinishKind ==
  ASSUME TypeOK, CopyOK(mem), mem.phase = "Running", Finish
  PROVE  TypeOK' /\ WorkStep
<1>0. mem \in RunRecord /\ PostTypes /\ TaskTypes
  BY DEF TypeOK, ObjectTypes
<1>1. PICK run : run = IF world.mode = "routed" THEN PipelinePhase(mem) ELSE Finalized(mem)
  OBVIOUS
<1>2. /\ pc = "finish" /\ Goes(run, "persist")
      /\ Queue!Cancel(IF Terminal(run.phase) /\ world.mode = "routed" THEN Cancellable(run) ELSE {})
      /\ IF Terminal(run.phase) THEN DispatchRunOrNot(run) ELSE UNCHANGED <<post, faults>>
      /\ UNCHANGED <<issued, task, world, purse>>
  BY <1>1 DEF Finish
<1>3. Judged(mem, run)
  BY <1>0, <1>1, JudgedFacts
<1>4. run \in RunRecord /\ CopyOK(run) /\ run.task = mem.task /\ (run.step = "Pending" => mem.step = "Pending")
  BY <1>3, JudgedCopy DEF Judged
<1>5. ObjectTypes' /\ mem' = run /\ pc' = "persist" /\ UNCHANGED <<object, memFresh, filled>>
  BY <1>2, <1>4, GoesFacts
<1>6. TaskTypes' /\ OpenShrinks
  BY <1>0, <1>2, CancelFacts DEF TaskTypes
<1>7. Forward /\ ~Terminal(mem.phase)
  BY <1>2, <1>5 DEF Forward, Terminal
<1>8. /\ PostTypes' /\ Counted
      /\ (Silent /\ ~Terminal(run.phase)) \/ (Announced(run) /\ Terminal(run.phase))
  <2>1. CASE Terminal(run.phase)
    <3>1. Announced(run)
      BY <1>0, <1>2, <2>1, AnnounceFacts
    <3>2. QED
      BY <2>1, <3>1 DEF Announced, Silent, Counted, TypeOK
  <2>2. CASE ~Terminal(run.phase)
    BY <1>2, <2>2, TypesKept
  <2>3. QED
    BY <2>1, <2>2
<1>9. QED
  BY <1>2, <1>4, <1>5, <1>6, <1>7, <1>8, WorksSo

\* The pass waits for the agent or collects its answer.
LEMMA DriveKind ==
  ASSUME TypeOK, CopyOK(mem), pc = "drive" => mem.phase = "Running", WarmUp \/ Collect \/ Poll
  PROVE  TypeOK' /\ WorkStep
<1>0. mem \in RunRecord /\ PostTypes /\ TaskTypes /\ faults \in Nat
  BY DEF TypeOK, ObjectTypes
<1>1. pc = "drive" /\ mem.phase = "Running" /\ ~Terminal(mem.phase)
  BY DEF WarmUp, Collect, Poll, Terminal
<1>2. UNCHANGED tasks /\ UNCHANGED <<world, post, purse>> /\ Counted
  <2>1. CASE WarmUp \/ Poll
    BY <2>1, TypesKept DEF WarmUp, Poll, Outside, tasks
  <2>2. CASE Collect
    BY <2>2, TypesKept DEF Collect, recordStepSpend
  <2>3. QED
    BY <2>1, <2>2
<1>3. TaskTypes' /\ OpenShrinks /\ UNCHANGED <<issued, task>> /\ Silent /\ PostTypes'
  BY <1>2, TypesKept DEF tasks
<1>4. PICK st \in StepPhase : /\ Goes([mem EXCEPT !.step = st], "finish")
                              /\ st # "Pending"
                              /\ (st \in {"", "Pending", "WarmingUp"} => mem.step \in {"", "Pending", "WarmingUp"})
  <2>1. CASE WarmUp
    BY <2>1 DEF WarmUp, Waits, StepPhase
  <2>2. CASE Collect
    BY <2>2 DEF Collect, StepPhase
  <2>3. CASE Poll
    <3>1. mem = [mem EXCEPT !.step = mem.step] /\ mem.step \in StepPhase /\ mem.step # "Pending"
      BY <1>0, <2>3 DEF RunRecord, Poll
    <3>2. QED
      BY <2>3, <3>1 DEF Poll
  <2>4. QED
    BY <2>1, <2>2, <2>3
<1>5. PICK run : run = [mem EXCEPT !.step = st]
  OBVIOUS
<1>6. run \in RunRecord /\ run.phase = "Running" /\ run.step = st /\ run.task = mem.task
  BY <1>0, <1>1, <1>5 DEF RunRecord
<1>7. ObjectTypes' /\ mem' = run /\ pc' = "finish" /\ UNCHANGED <<object, memFresh, filled>>
  BY <1>4, <1>5, <1>6, GoesFacts
<1>8. CopyOK(run)
  BY <1>4, <1>6 DEF CopyOK
<1>9. Forward /\ ~Terminal(mem'.phase) /\ mem'.step # "Pending"
  BY <1>1, <1>4, <1>6, <1>7 DEF Forward, Terminal
<1>10. QED
  BY <1>1, <1>2, <1>3, <1>6, <1>7, <1>8, <1>9, WorksSo

LEMMA AskKind ==
  ASSUME TypeOK, NEW a \in Asked, Ask(a), pc = "drive", Waits, world.mode = "routed" => mem.step = "Pending",
         Outside, Counted
  PROVE  TypeOK' /\ AskStep
<1>0. mem \in RunRecord /\ TaskTypes
  BY DEF TypeOK, ObjectTypes
<1>1. /\ issued < MaxTasks /\ issued' = issued + 1 /\ Queue!Submit(issued')
      /\ task' = [task EXCEPT ![issued'] = [agent |-> a, queue |-> moved, filled |-> filled]]
      /\ Goes([mem EXCEPT !.step = "Running", !.task = issued', !.agent = a], "finish")
  BY DEF Ask
<1>2. /\ issued' \in TaskIds /\ ledger' \in [TaskIds -> Queue!LedgerState]
      /\ issued' \in Nat /\ OpenTasks' = OpenTasks \cup {issued'}
  BY <1>0, <1>1, SubmitFacts
<1>3. PICK run : run = [mem EXCEPT !.step = "Running", !.task = issued', !.agent = a]
  OBVIOUS
<1>4. run \in RunRecord /\ run.phase = mem.phase /\ run.step = "Running" /\ run.task = issued'
  <2>1. PICK t \in TaskIds : t = issued'
    BY <1>2
  <2>2. t \in 0 .. MaxTasks /\ run = [mem EXCEPT !.step = "Running", !.task = t, !.agent = a]
    BY <1>3, <2>1, ConstFacts
  <2>3. QED
    BY <1>0, <2>1, <2>2 DEF RunRecord, StepPhase
<1>5. ObjectTypes' /\ mem' = run /\ pc' = "finish" /\ UNCHANGED <<object, memFresh, filled>>
  BY <1>1, <1>3, <1>4, GoesFacts
<1>6. /\ DOMAIN task' = TaskIds /\ task'[issued'].filled = filled
      /\ \A t \in TaskIds : t # issued' => task'[t] = task[t]
  BY <1>0, <1>1, <1>2 DEF TaskTypes
<1>7. TaskTypes'
  BY <1>2, <1>6 DEF TaskTypes
<1>8. Silent /\ PostTypes' /\ UNCHANGED world /\ (world \in Worlds)' /\ (faults \in Nat)'
  BY OutsideFacts, TypesKept
<1>9. TypeOK'
  BY <1>5, <1>7, <1>8 DEF TypeOK
<1>10. QED
  BY <1>1, <1>2, <1>4, <1>5, <1>6, <1>8, <1>9 DEF AskStep

LEMMA SubmitKind ==
  ASSUME TypeOK, CopyOK(mem), pc = "drive" => mem.phase = "Running", Submit \/ SubmitRouted
  PROVE  TypeOK' /\ (AskStep \/ WorkStep)
<1>0. mem \in RunRecord /\ world \in Worlds
  BY DEF TypeOK, ObjectTypes
<1>1. pc = "drive" /\ mem.phase = "Running" /\ Outside /\ Counted /\ Waits
  BY TypesKept DEF Submit, SubmitRouted, Waits
<1>2. CASE Submit
  <2>1. world.agent \in Asked
    BY <1>0 DEF Asked
  <2>2. QED
    BY <1>1, <1>2, <2>1, AskKind DEF Submit
<1>3. CASE SubmitRouted
  <2>1. PICK a \in Route(world) :
          IF a = Nil THEN Goes([mem EXCEPT !.step = "Failed"], "finish") /\ UNCHANGED tasks ELSE Ask(a)
    BY <1>3 DEF SubmitRouted
  <2>2. a \in Asked
    BY <1>0 DEF Asked
  <2>3. mem.step = "Pending"
    BY <1>3 DEF SubmitRouted
  <2>4. CASE a # Nil
    BY <1>1, <2>1, <2>2, <2>3, <2>4, AskKind
  <2>5. CASE a = Nil
    <3>1. PICK run : run = [mem EXCEPT !.step = "Failed"]
      OBVIOUS
    <3>2. run \in RunRecord /\ run.phase = "Running" /\ run.step = "Failed" /\ run.task = mem.task
      BY <1>0, <1>1, <3>1 DEF RunRecord, StepPhase
    <3>3. Goes(run, "finish") /\ UNCHANGED tasks
      BY <2>1, <2>5, <3>1
    <3>4. ObjectTypes' /\ mem' = run /\ pc' = "finish" /\ UNCHANGED <<object, memFresh, filled>>
      BY <3>2, <3>3, GoesFacts
    <3>5. TaskTypes' /\ OpenShrinks /\ UNCHANGED <<issued, task>>
      BY <3>3, TypesKept DEF tasks
    <3>6. Silent /\ PostTypes' /\ UNCHANGED world
      BY <1>1, OutsideFacts
    <3>7. Forward /\ ~Terminal(mem.phase) /\ ~Terminal(mem'.phase) /\ mem'.step # "Pending" /\ CopyOK(mem')
      BY <1>1, <3>2, <3>4 DEF Forward, Terminal, CopyOK
    <3>8. QED
      BY <1>1, <3>2, <3>4, <3>5, <3>6, <3>7, WorksSo
  <2>6. QED
    BY <2>4, <2>5
<1>4. QED
  BY <1>2, <1>3

LEMMA PersistKind ==
  ASSUME TypeOK, CacheTrue, Persist
  PROVE  TypeOK' /\ StoreStep
<1>0. mem \in RunRecord /\ ObjectTypes
  BY DEF TypeOK, ObjectTypes
<1>1. /\ pc = "persist" /\ memFresh /\ Store(mem) /\ PassEnds(mem.phase = "Running") /\ UNCHANGED faults
      /\ filled' = FALSE /\ UNCHANGED tasks /\ Outside
  BY DEF Persist, UpdateStatus
<1>2. /\ api' = mem /\ api' \in RunRecord /\ cache' = cache /\ cache' \in RunRecord /\ cacheFresh' \in BOOLEAN
      /\ (cacheFresh' => cacheFresh /\ api' = api)
  BY <1>0, <1>1, StoreFacts
<1>3. pc' = "idle" /\ mem' = NewRun /\ memFresh' = TRUE
  BY <1>1 DEF PassEnds
<1>4. ObjectTypes'
  BY <1>1, <1>2, <1>3, NewRunFacts DEF ObjectTypes
<1>5. TaskTypes' /\ OpenShrinks /\ UNCHANGED <<issued, task>>
  BY <1>1, TypesKept DEF tasks
<1>6. Silent /\ PostTypes' /\ UNCHANGED world /\ (world \in Worlds)'
  BY <1>1, OutsideFacts
<1>7. (faults \in Nat)'
  BY <1>1 DEF TypeOK
<1>8. TypeOK'
  BY <1>4, <1>5, <1>6, <1>7 DEF TypeOK
<1>9. QED
  BY <1>1, <1>2, <1>3, <1>5, <1>6, <1>8 DEF StoreStep

LEMMA EveryKind ==
  ASSUME TypeOK, FrameInv, [Next]_vars
  PROVE  TypeOK' /\ KnownStep
<1>0. CacheTrue /\ CopyOK(mem) /\ (pc \in {"drive", "finish"} => mem.phase = "Running")
  BY DEF FrameInv, CacheTrue
<1>1. CASE Pass
  <2>1. CASE ReconcileGone \/ ReconcileDeleting \/ ReleaseTerminal \/ QueueError \/ Conflict
    BY <1>0, <2>1, GoneKind, DeletingKind, ReleaseKind, GiveUpKind DEF KnownStep
  <2>2. CASE LoadRun \/ SnapshotTeam
    BY <1>0, <2>2, LoadKind, SnapKind DEF KnownStep
  <2>3. CASE Reject \/ Begin \/ BeginLate
    BY <1>0, <2>3, RejectKind, BeginKind, BeginLateKind DEF KnownStep
  <2>4. CASE WarmUp \/ Submit \/ SubmitRouted \/ Collect \/ Poll
    BY <1>0, <2>4, DriveKind, SubmitKind DEF KnownStep
  <2>5. CASE Finish
    <3>1. mem.phase = "Running"
      BY <1>0, <2>5 DEF Finish
    <3>2. QED
      BY <1>0, <2>5, <3>1, FinishKind DEF KnownStep
  <2>6. CASE Persist
    BY <1>0, <2>6, PersistKind DEF KnownStep
  <2>7. QED
    BY <1>1, <2>1, <2>2, <2>3, <2>4, <2>5, <2>6 DEF Pass
<1>2. CASE OperatorRestart \/ CacheSync \/ UserEdit \/ UserDelete
  BY <1>0, <1>2, GiveUpKind, ObjectKind DEF KnownStep
<1>3. CASE \/ Delivery \/ WindowEnds \/ BudgetReconcile \/ maybeNotify \/ Reconnect \/ NewDay
           \/ OtherStarts \/ OtherSpends \/ DeadlinePasses \/ AgentReady \/ AgentMoves \/ AgentAnswers
           \/ UNCHANGED vars
  BY <1>3, AroundKinds DEF KnownStep
<1>4. QED
  BY <1>1, <1>2, <1>3 DEF Next

-----------------------------------------------------------------------------
(* The copies of the run.                                                  *)

LEMMA InitFacts == Init => TypeOK /\ FrameInv
<1> SUFFICES ASSUME Init PROVE TypeOK /\ FrameInv
  OBVIOUS
<1>1. /\ api = NewRun /\ cache = NewRun /\ mem = NewRun /\ cacheFresh = TRUE /\ memFresh = TRUE
      /\ pc = "idle" /\ filled = FALSE /\ faults = 0
  BY DEF Init, ObjectInit
<1>2. ObjectTypes
  BY <1>1, NewRunFacts DEF ObjectTypes
<1>3. TaskTypes
  BY DEF Init, TaskTypes, Queue!Init, Queue!LedgerState
<1>4. PostTypes
  BY DEF Init, PostTypes
<1>5. TypeOK
  BY <1>1, <1>2, <1>3, <1>4 DEF TypeOK, Init
<1>6. FrameInv
  BY <1>1, NewRunFacts DEF FrameInv, Terminal
<1>7. QED
  BY <1>5, <1>6

LEMMA FrameStep ==
  ASSUME TypeOK, FrameInv, KnownStep
  PROVE  FrameInv'
<1>0. faults \in Nat
  BY DEF TypeOK
<1>a. ASSUME Counted PROVE faults' = 0 => faults = 0
  BY <1>0, <1>a DEF Counted
<1>b. ASSUME Keeps(api, api') PROVE CopyOK(api') /\ api'.phase = api.phase
  BY <1>b, CopyKept DEF FrameInv, Keeps
<1>c. CopyOK(NewRun) /\ CopyOK(api) /\ CopyOK(cache) /\ CopyOK(mem)
  BY NewRunFacts DEF FrameInv
<1>1. CASE QuietStep
  <2>1. UNCHANGED <<api, cache, cacheFresh, mem, memFresh, pc>> /\ (faults' = 0 => faults = 0)
    BY <1>1, <1>a DEF QuietStep, object, pass
  <2>2. QED
    BY <2>1 DEF FrameInv, Current
<1>2. CASE EndStep
  <2>1. /\ pc' = "idle" /\ mem' = NewRun /\ cache' \in {cache, api'} /\ (cacheFresh' => cache' = api')
        /\ CopyOK(api') /\ api'.phase = api.phase
    BY <1>2, <1>b DEF EndStep
  <2>2. QED
    BY <1>c, <2>1 DEF FrameInv
<1>3. CASE ObjectStep
  <2>1. /\ UNCHANGED <<mem, pc>> /\ cache' \in {cache, api'} /\ (cacheFresh' => cache' = api')
        /\ CopyOK(api') /\ api'.phase = api.phase
        /\ (memFresh' => memFresh) /\ (faults' = 0 => faults = 0)
    BY <1>3, <1>a, <1>b DEF ObjectStep
  <2>2. QED
    BY <1>c, <2>1 DEF FrameInv, Current
<1>4. CASE LoadStep
  <2>1. /\ pc' = "load" /\ cache' = cache /\ (cacheFresh' => cacheFresh /\ api' = api)
        /\ CopyOK(api') /\ api'.phase = api.phase
        /\ \/ mem' = cache /\ api' = api /\ memFresh' = cacheFresh
           \/ mem' = api' /\ memFresh' = TRUE
        /\ faults' = 0 => cacheFresh
    BY <1>0, <1>4, <1>b DEF LoadStep
  <2>2. QED
    BY <1>c, <2>1 DEF FrameInv, Current
<1>5. CASE SnapStep
  <2>1. /\ UNCHANGED pc /\ pc = "load" /\ cache' = cache /\ (cacheFresh' => cacheFresh /\ api' = api)
        /\ CopyOK(api') /\ api'.phase = api.phase /\ mem' = api'
    BY <1>5, <1>b DEF SnapStep
  <2>2. QED
    BY <1>c, <2>1 DEF FrameInv, Current
<1>6. CASE WorkStep
  <2>1. /\ Forward /\ ~Terminal(mem.phase) /\ CopyOK(mem') /\ (pc' # "persist" => mem'.phase = "Running")
        /\ UNCHANGED <<api, cache, cacheFresh, memFresh>> /\ (faults' = 0 => faults = 0)
    BY <1>6, <1>a DEF WorkStep, object
  <2>2. /\ pc' \in {"drive", "finish", "persist"}
        /\ pc = "load" \/ pc \in {"drive", "finish", "persist"}
    BY <2>1 DEF Forward
  <2>3. Current' => Current
    BY <2>1 DEF Current
  <2>4. Current' => ~Terminal(api'.phase)
    BY <2>1, <2>2, <2>3 DEF FrameInv
  <2>5. QED
    BY <1>c, <2>1, <2>2, <2>4 DEF FrameInv
<1>7. CASE AskStep
  <2>1. /\ pc = "drive" /\ pc' = "finish" /\ mem'.phase = mem.phase /\ mem'.step = "Running"
        /\ UNCHANGED <<api, cache, cacheFresh, memFresh>> /\ (faults' = 0 => faults = 0)
    BY <1>7, <1>a DEF AskStep, object
  <2>2. mem.phase = "Running" /\ CopyOK(mem')
    BY <2>1 DEF FrameInv, CopyOK
  <2>3. Current' => Current
    BY <2>1 DEF Current
  <2>4. QED
    BY <1>c, <2>1, <2>2, <2>3 DEF FrameInv
<1>8. CASE StoreStep
  <2>1. /\ pc = "persist" /\ memFresh /\ pc' = "idle" /\ mem' = NewRun
        /\ api' = mem /\ cache' = cache /\ (cacheFresh' => cacheFresh /\ api' = api)
    BY <1>8 DEF StoreStep
  <2>2. ~Terminal(cache.phase)
    BY <2>1 DEF FrameInv, Current
  <2>3. QED
    BY <1>c, <2>1, <2>2 DEF FrameInv
<1>9. QED
  BY <1>1, <1>2, <1>3, <1>4, <1>5, <1>6, <1>7, <1>8 DEF KnownStep

-----------------------------------------------------------------------------
(* Tasks that no copy waits for.                                           *)

LEMMA CountTypes ==
  ASSUME NEW open \in SUBSET TaskIds, NEW run
  PROVE  IsFiniteSet(open) /\ IsFiniteSet(Loose(open, run)) /\ Count(open, run) \in Nat
<1>1. 1 \in Int /\ MaxTasks \in Int
  BY ConstFacts
<1>2. IsFiniteSet(TaskIds)
  BY <1>1, FS_Interval DEF TaskIds
<1>3. IsFiniteSet(open)
  BY <1>2, FS_Subset
<1>4. IsFiniteSet(Loose(open, run))
  BY <1>3, FS_Subset DEF Loose
<1>5. QED
  BY <1>3, <1>4, FS_CardinalityType DEF Count

LEMMA CountShrinks ==
  ASSUME OpenShrinks, NEW old, NEW new, new.task = old.task
  PROVE  /\ Count(OpenTasks', new) \in Nat /\ Count(OpenTasks, old) \in Nat
         /\ Count(OpenTasks', new) <= Count(OpenTasks, old)
<1>1. OpenTasks \in SUBSET TaskIds /\ OpenTasks' \in SUBSET TaskIds
  BY DEF OpenTasks
<1>2. Loose(OpenTasks', new) \subseteq Loose(OpenTasks, old)
  BY DEF OpenShrinks, Loose
<1>3. QED
  BY <1>1, <1>2, CountTypes, FS_Subset DEF Count

LEMMA CountAsked ==
  ASSUME NEW t \in TaskIds, OpenTasks' = OpenTasks \cup {t}
  PROVE  /\ \A run : /\ Count(OpenTasks', run) \in Nat /\ Count(OpenTasks, run) \in Nat
                     /\ Count(OpenTasks', run) <= Count(OpenTasks, run) + 1
         /\ \A old, new : old.task = NoTask /\ new.task = t => Count(OpenTasks', new) <= Count(OpenTasks, old)
<1>1. OpenTasks \in SUBSET TaskIds /\ OpenTasks' \in SUBSET TaskIds
  BY DEF OpenTasks
<1>2. ASSUME NEW run
      PROVE  /\ Count(OpenTasks', run) \in Nat /\ Count(OpenTasks, run) \in Nat
             /\ Count(OpenTasks', run) <= Count(OpenTasks, run) + 1
  <2> DEFINE L == Loose(OpenTasks, run)
  <2>1. Loose(OpenTasks', run) \subseteq L \cup {t}
    BY DEF Loose
  <2>2. IsFiniteSet(L) /\ Cardinality(L) \in Nat
    BY <1>1, CountTypes DEF Count
  <2> HIDE DEF L
  <2>3. IsFiniteSet(L \cup {t}) /\ Cardinality(L \cup {t}) <= Cardinality(L) + 1
    <3>1. CASE t \in L
      <4>1. L \cup {t} = L
        BY <3>1
      <4>2. \A n \in Nat : n <= n + 1
        OBVIOUS
      <4>3. IsFiniteSet(L \cup {t}) /\ Cardinality(L \cup {t}) = Cardinality(L)
        BY <2>2, <4>1, Zenon
      <4>4. QED
        BY <2>2, <4>2, <4>3
    <3>2. CASE t \notin L
      BY <2>2, <3>2, FS_AddElement
    <3>3. QED
      BY <3>1, <3>2
  <2>4. Cardinality(Loose(OpenTasks', run)) <= Cardinality(L \cup {t})
    BY <2>1, <2>3, FS_Subset
  <2>5. Cardinality(Loose(OpenTasks', run)) \in Nat /\ Cardinality(L \cup {t}) \in Nat
    BY <1>1, <2>3, CountTypes, FS_CardinalityType DEF Count
  <2>6. Cardinality(Loose(OpenTasks', run)) <= Cardinality(L) + 1
    BY <2>2, <2>3, <2>4, <2>5
  <2>7. QED
    BY <2>2, <2>5, <2>6 DEF Count, L
<1>3. ASSUME NEW old, NEW new, old.task = NoTask, new.task = t
      PROVE  Count(OpenTasks', new) <= Count(OpenTasks, old)
  <2>1. Loose(OpenTasks', new) \subseteq Loose(OpenTasks, old)
    BY <1>1, <1>3, ConstFacts DEF Loose
  <2>2. QED
    BY <1>1, <2>1, CountTypes, FS_Subset DEF Count
<1>4. QED
  BY <1>2, <1>3

LEMMA LooseStep ==
  ASSUME TypeOK, FrameInv, LooseInv, KnownStep
  PROVE  LooseInv'
<1>0. faults \in Nat /\ pc \in {"idle", "load", "drive", "finish", "persist"}
  BY DEF TypeOK, ObjectTypes
<1>a. ASSUME OpenShrinks
      PROVE  /\ Count(OpenTasks', api) \in Nat /\ Count(OpenTasks', api) <= Count(OpenTasks, api)
             /\ Count(OpenTasks', cache) \in Nat /\ Count(OpenTasks', cache) <= Count(OpenTasks, cache)
             /\ Count(OpenTasks', mem) \in Nat /\ Count(OpenTasks', mem) <= Count(OpenTasks, mem)
             /\ Keeps(api, api') => Count(OpenTasks', api') = Count(OpenTasks', api)
             /\ mem'.task = mem.task => Count(OpenTasks', mem') = Count(OpenTasks', mem)
  <2>1. \A old, new : new.task = old.task => Count(OpenTasks', new) = Count(OpenTasks', old)
    BY DEF Count, Loose
  <2>2. QED
    BY <1>a, <2>1, CountShrinks DEF Keeps
<1>b. Count(OpenTasks, api) \in Nat /\ Count(OpenTasks, cache) \in Nat /\ Count(OpenTasks, mem) \in Nat
  <2>1. OpenTasks \in SUBSET TaskIds
    BY DEF OpenTasks
  <2>2. QED
    BY <2>1, CountTypes
<1>1. CASE QuietStep
  <2>1. UNCHANGED <<api, cache, mem, memFresh, pc>> /\ OpenShrinks /\ Counted
    BY <1>1 DEF QuietStep, object, pass
  <2>2. QED
    BY <1>0, <1>a, <1>b, <2>1 DEF LooseInv, Room, Unspent, Counted
<1>2. CASE EndStep
  <2>1. /\ pc' = "idle" /\ cache' \in {cache, api'} /\ Keeps(api, api') /\ OpenShrinks /\ Counted
        /\ pc \in {"idle", "load"} \/ ~memFresh \/ faults' = faults + 1
        /\ api.deleting => api'.deleting
    BY <1>2 DEF EndStep, Keeps
  <2>2. Count(OpenTasks', cache') <= faults' + Room' /\ Count(OpenTasks', api') <= faults' + Room'
    BY <1>0, <1>a, <1>b, <2>1 DEF LooseInv, Room, Counted
  <2>3. ~api'.deleting => Count(OpenTasks', api') + 1 <= faults' + Room'
    BY <1>0, <1>a, <1>b, <2>1 DEF LooseInv, Room, Unspent, Counted
  <2>4. QED
    BY <2>1, <2>2, <2>3 DEF LooseInv, Unspent
<1>3. CASE ObjectStep
  <2>1. /\ UNCHANGED <<mem, pc>> /\ cache' \in {cache, api'} /\ Keeps(api, api') /\ OpenShrinks /\ Counted
        /\ memFresh' = memFresh \/ (memFresh' = FALSE /\ (faults' = faults + 1 \/ api'.deleting))
        /\ api.deleting => api'.deleting
    BY <1>3 DEF ObjectStep, Keeps
  <2>2. /\ Count(OpenTasks', cache') <= faults' + Room' /\ Count(OpenTasks', api') <= faults' + Room'
        /\ pc' # "idle" => Count(OpenTasks', mem') <= faults'
    BY <1>0, <1>a, <1>b, <2>1 DEF LooseInv, Room, Counted
  <2>3. Unspent' => Count(OpenTasks', api') + 1 <= faults' + Room'
    BY <1>0, <1>a, <1>b, <2>1 DEF LooseInv, Room, Unspent, Counted
  <2>4. QED
    BY <2>2, <2>3 DEF LooseInv
<1>4. CASE LoadStep
  <2>1. /\ pc = "idle" /\ pc' = "load" /\ ~cache.deleting /\ Keeps(api, api') /\ cache' = cache /\ OpenShrinks
        /\ \/ mem' = cache /\ api' = api /\ memFresh' = cacheFresh
           \/ mem' = api' /\ memFresh' = TRUE
        /\ faults' = IF cacheFresh THEN faults ELSE faults + 1
        /\ api.deleting => api'.deleting
    BY <1>4 DEF LoadStep, Keeps
  <2>2. Count(OpenTasks, api) <= faults' /\ Count(OpenTasks, cache) <= faults'
    <3>1. CASE cacheFresh
      <4>1. cache = api /\ ~api.deleting
        BY <2>1, <3>1 DEF FrameInv
      <4>2. QED
        BY <1>0, <1>b, <2>1, <3>1, <4>1 DEF LooseInv, Room, Unspent
    <3>2. CASE ~cacheFresh
      BY <1>0, <1>b, <2>1, <3>2 DEF LooseInv, Room
    <3>3. QED
      BY <3>1, <3>2
  <2>3. ~cacheFresh /\ ~api.deleting => Count(OpenTasks, api) + 1 <= faults'
    BY <1>0, <1>b, <2>1 DEF LooseInv, Room, Unspent
  <2>4. Room' = 0
    BY <2>1 DEF Room
  <2>5. Count(OpenTasks', mem') <= faults'
    BY <1>0, <1>a, <1>b, <2>1, <2>2
  <2>6. Count(OpenTasks', cache') <= faults' /\ Count(OpenTasks', api') <= faults'
    BY <1>0, <1>a, <1>b, <2>1, <2>2
  <2>7. Unspent' => Count(OpenTasks', api') + 1 <= faults'
    BY <1>0, <1>a, <1>b, <2>1, <2>3 DEF Unspent
  <2>8. faults' \in Nat
    BY <1>0, <2>1
  <2>9. QED
    BY <2>4, <2>5, <2>6, <2>7, <2>8 DEF LooseInv
<1>5. CASE SnapStep
  <2>1. /\ pc = "load" /\ memFresh /\ UNCHANGED <<memFresh, pc, faults>> /\ Keeps(api, api') /\ mem' = api'
        /\ cache' = cache /\ OpenShrinks
    BY <1>5 DEF SnapStep
  <2>2. QED
    BY <1>0, <1>a, <1>b, <2>1 DEF LooseInv, Room, Unspent
<1>6. CASE WorkStep
  <2>1. /\ UNCHANGED <<api, cache, memFresh>> /\ mem'.task = mem.task /\ OpenShrinks /\ Counted
        /\ pc # "idle" /\ pc' # "idle"
        /\ pc' \in {"load", "drive"} => pc \in {"load", "drive"}
    BY <1>6 DEF WorkStep, Forward, object
  <2>2. QED
    BY <1>0, <1>a, <1>b, <2>1 DEF LooseInv, Room, Unspent, Counted
<1>7. CASE AskStep
  <2>1. /\ pc = "drive" /\ pc' = "finish" /\ mem'.task = issued' /\ issued' \in TaskIds
        /\ OpenTasks' = OpenTasks \cup {issued'} /\ UNCHANGED <<api, cache, memFresh>> /\ Counted
        /\ mem.step \in {"Pending", "WarmingUp"}
    BY <1>7 DEF AskStep, object, Waits
  <2>2. mem.task = NoTask
    BY <2>1 DEF FrameInv, CopyOK
  <2>3. PICK t \in TaskIds : t = issued'
    BY <2>1
  <2>4. /\ Count(OpenTasks', api) \in Nat /\ Count(OpenTasks', api) <= Count(OpenTasks, api) + 1
        /\ Count(OpenTasks', cache) \in Nat /\ Count(OpenTasks', cache) <= Count(OpenTasks, cache) + 1
        /\ Count(OpenTasks', mem') \in Nat /\ Count(OpenTasks', mem') <= Count(OpenTasks, mem)
    BY <2>1, <2>2, <2>3, CountAsked
  <2>5. QED
    BY <1>0, <1>b, <2>1, <2>4 DEF LooseInv, Room, Unspent, Counted
<1>8. CASE StoreStep
  <2>1. /\ pc = "persist" /\ pc' = "idle" /\ api' = mem /\ cache' = cache /\ UNCHANGED faults /\ OpenShrinks
    BY <1>8 DEF StoreStep
  <2>2. QED
    BY <1>0, <1>a, <1>b, <2>1 DEF LooseInv, Room, Unspent
<1>9. QED
  BY <1>1, <1>2, <1>3, <1>4, <1>5, <1>6, <1>7, <1>8 DEF KnownStep

-----------------------------------------------------------------------------
(* The inputs a router sees.                                               *)

LEMMA RoutedStep ==
  ASSUME TypeOK, FrameInv, RoutedInv, KnownStep
  PROVE  RoutedInv'
<1> SUFFICES ASSUME world'.mode = "routed"
             PROVE  /\ \A t \in 1 .. issued' : task'[t].filled
                    /\ api'.step # "Pending" /\ cache'.step # "Pending"
                    /\ pc' # "drive" => mem'.step # "Pending"
                    /\ pc' = "drive" /\ mem'.step = "Pending" => filled'
  BY DEF RoutedInv
<1>0. UNCHANGED world
  BY DEF KnownStep, QuietStep, EndStep, ObjectStep, LoadStep, SnapStep, WorkStep, AskStep, StoreStep
<1>a. /\ \A t \in 1 .. issued : task[t].filled
      /\ api.step # "Pending" /\ cache.step # "Pending"
      /\ pc # "drive" => mem.step # "Pending"
      /\ pc = "drive" /\ mem.step = "Pending" => filled
  BY <1>0 DEF RoutedInv
<1>b. IsTeamRun
  BY <1>0, ModesAssumption DEF IsTeamRun, TypeOK
<1>c. ASSUME Keeps(api, api') PROVE api'.step = api.step
  BY <1>c DEF Keeps
<1>1. CASE QuietStep
  <2>1. UNCHANGED <<api, cache, mem, pc, filled, issued, task>>
    BY <1>1 DEF QuietStep, object, pass
  <2>2. QED
    BY <1>a, <2>1
<1>2. CASE EndStep
  <2>1. pc' = "idle" /\ mem' = NewRun /\ cache' \in {cache, api'} /\ api'.step = api.step /\ UNCHANGED <<issued, task>>
    BY <1>2, <1>c DEF EndStep
  <2>2. QED
    BY <1>a, <2>1, NewRunFacts
<1>3. CASE ObjectStep
  <2>1. UNCHANGED <<mem, pc, filled, issued, task>> /\ cache' \in {cache, api'} /\ api'.step = api.step
    BY <1>3, <1>c DEF ObjectStep
  <2>2. QED
    BY <1>a, <2>1
<1>4. CASE LoadStep \/ SnapStep
  <2>1. pc' = "load" /\ mem' \in {cache, api'} /\ cache' = cache /\ api'.step = api.step /\ UNCHANGED <<issued, task>>
    BY <1>4, <1>c DEF LoadStep, SnapStep
  <2>2. QED
    BY <1>a, <2>1
<1>5. CASE WorkStep
  <2>1. /\ Forward /\ UNCHANGED <<api, cache, issued, task>>
        /\ mem'.step = "Pending" =>
             \/ pc \in {"load", "finish"} /\ mem.step = "Pending"
             \/ pc' = "drive" /\ (IsTeamRun => filled')
    BY <1>5 DEF WorkStep, object
  <2>2. QED
    BY <1>a, <1>b, <2>1
<1>6. CASE AskStep
  <2>1. /\ pc = "drive" /\ pc' = "finish" /\ mem.step = "Pending" /\ mem'.step = "Running"
        /\ issued' = issued + 1 /\ issued' \in TaskIds /\ task'[issued'].filled = filled
        /\ \A t \in TaskIds : t # issued' => task'[t] = task[t]
        /\ UNCHANGED <<api, cache>>
    BY <1>0, <1>6 DEF AskStep, object
  <2>2. issued \in Nat
    BY DEF TypeOK, TaskTypes
  <2>3. ASSUME NEW t \in 1 .. issued' PROVE task'[t].filled
    <3>1. CASE t = issued'
      BY <1>a, <2>1, <3>1
    <3>2. CASE t # issued'
      <4>1. t \in 1 .. issued /\ t \in TaskIds
        BY <2>1, <2>2, <2>3, <3>2, ConstFacts DEF TaskIds
      <4>2. QED
        BY <1>a, <2>1, <3>2, <4>1
    <3>3. QED
      BY <3>1, <3>2
  <2>4. QED
    BY <1>a, <2>1, <2>3
<1>7. CASE StoreStep
  <2>1. pc = "persist" /\ pc' = "idle" /\ mem' = NewRun /\ api' = mem /\ cache' = cache /\ UNCHANGED <<issued, task>>
    BY <1>7 DEF StoreStep
  <2>2. QED
    BY <1>a, <2>1, NewRunFacts
<1>8. QED
  BY <1>1, <1>2, <1>3, <1>4, <1>5, <1>6, <1>7 DEF KnownStep

-----------------------------------------------------------------------------
(* Notifications.                                                          *)

LEMMA SumFacts ==
  ASSUME NEW s \in [Events -> Nat]
  PROVE  /\ Sum(s) \in Nat /\ \A e \in RunEvents : s[e] \in Nat /\ s[e] <= Sum(s)
         /\ \A t \in [Events -> Nat] : (\A e \in RunEvents : t[e] = s[e]) => Sum(t) = Sum(s)
<1>1. s["Succeeded"] \in Nat /\ s["Failed"] \in Nat /\ s["TimedOut"] \in Nat
  BY DEF Events
<1>2. Sum(s) \in Nat /\ \A e \in RunEvents : s[e] \in Nat /\ s[e] <= Sum(s)
  BY <1>1 DEF Sum, RunEvents
<1>3. ASSUME NEW t \in [Events -> Nat], \A e \in RunEvents : t[e] = s[e] PROVE Sum(t) = Sum(s)
  BY <1>3 DEF Sum, RunEvents
<1>4. QED
  BY <1>2, <1>3

\* One event more.
LEMMA SumOneMore ==
  ASSUME NEW s \in [Events -> Nat], NEW t \in [Events -> Nat], NEW e \in RunEvents,
         t[e] = s[e] + 1, \A f \in RunEvents : f # e => t[f] = s[f]
  PROVE  Sum(t) = Sum(s) + 1
<1>1. s["Succeeded"] \in Nat /\ s["Failed"] \in Nat /\ s["TimedOut"] \in Nat
  BY DEF Events
<1>2. CASE e = "Succeeded"
  <2>1. t["Succeeded"] = s["Succeeded"] + 1 /\ t["Failed"] = s["Failed"] /\ t["TimedOut"] = s["TimedOut"]
    BY <1>2 DEF RunEvents
  <2>2. QED
    BY <1>1, <2>1 DEF Sum
<1>3. CASE e = "Failed"
  <2>1. t["Succeeded"] = s["Succeeded"] /\ t["Failed"] = s["Failed"] + 1 /\ t["TimedOut"] = s["TimedOut"]
    BY <1>3 DEF RunEvents
  <2>2. QED
    BY <1>1, <2>1 DEF Sum
<1>4. CASE e = "TimedOut"
  <2>1. t["Succeeded"] = s["Succeeded"] /\ t["Failed"] = s["Failed"] /\ t["TimedOut"] = s["TimedOut"] + 1
    BY <1>4 DEF RunEvents
  <2>2. QED
    BY <1>1, <2>1 DEF Sum
<1>5. QED
  BY <1>2, <1>3, <1>4 DEF RunEvents

\* What was told stays told, and a fault explains what was not.
LEMMA ToldKept ==
  ASSUME NEW old, NEW new, new.phase = old.phase, new.step = old.step, new.reason = old.reason,
         TypeOK, TypeOK', Silent, Counted, UNCHANGED world, Told(old, world, sent, faults)
  PROVE  Told(new, world', sent', faults')
<1>1. sent \in [Events -> Nat] /\ sent' \in [Events -> Nat] /\ faults \in Nat
  BY DEF TypeOK, PostTypes
<1>2. Sum(sent) \in Nat /\ Sum(sent') = Sum(sent)
  BY <1>1, SumFacts DEF Silent
<1>3. runPhaseToEvent(new) = runPhaseToEvent(old) /\ runPhaseToEvent(old) \in RunEvents
  BY EventFacts DEF runPhaseToEvent
<1>4. sent'[runPhaseToEvent(old)] = sent[runPhaseToEvent(old)]
  BY <1>3 DEF Silent
<1>5. ASSUME Sum(sent) + faults >= 1 PROVE Sum(sent') + faults' >= 1
  BY <1>1, <1>2, <1>5 DEF Counted
<1>6. faults' = 0 => faults = 0
  BY <1>1 DEF Counted
<1>7. QED
  BY <1>3, <1>4, <1>5, <1>6, Zenon DEF Told

LEMMA ToldFault ==
  ASSUME NEW run, NEW w, NEW s \in [Events -> Nat], NEW f \in Nat, f # 0
  PROVE  Told(run, w, s, f)
<1>1. Sum(s) \in Nat
  BY SumFacts
<1>2. Sum(s) + f >= 1
  BY <1>1
<1>3. QED
  BY <1>2, Zenon DEF Told

LEMMA NotifyStep ==
  ASSUME TypeOK, TypeOK', FrameInv, NotifyInv, KnownStep
  PROVE  NotifyInv'
<1>0. /\ faults \in Nat /\ faults' \in Nat /\ sent \in [Events -> Nat] /\ sent' \in [Events -> Nat]
      /\ pc \in {"idle", "load", "drive", "finish", "persist"}
  BY DEF TypeOK, ObjectTypes, PostTypes
<1>a. Sum(sent) \in Nat /\ Sum(sent') \in Nat
  BY <1>0, SumFacts
<1>b. ASSUME Silent
      PROVE  /\ Sum(sent') = Sum(sent)
             /\ \A e \in RunEvents : <<"run", e>> \in fired' => sent'[e] >= 1
  BY <1>0, <1>b, SumFacts DEF Silent, NotifyInv
<1>c. ASSUME Silent, Counted, UNCHANGED world, Keeps(api, api')
      PROVE  Told(api', world', sent', faults')
  BY <1>c, ToldKept DEF NotifyInv, Keeps
<1>d. ASSUME Silent, Counted, UNCHANGED world, UNCHANGED mem, UNCHANGED pc
      PROVE  pc' = "persist" => Told(mem', world', sent', faults')
  BY <1>d, ToldKept DEF NotifyInv
<1>e. UNCHANGED faults => Counted
  BY <1>0, FaultFacts
<1>1. CASE QuietStep
  <2>1. UNCHANGED <<api, mem, memFresh, pc, world>> /\ Silent /\ Counted
    BY <1>1 DEF QuietStep, object, pass
  <2>2. Told(api', world', sent', faults') /\ (pc' = "persist" => Told(mem', world', sent', faults'))
    BY <1>c, <1>d, <2>1, KeepsItself
  <2>3. Sum(sent') = Sum(sent) /\ faults <= faults'
    BY <1>0, <1>b, <2>1 DEF Counted
  <2>4. /\ Sum(sent') <= 1 + faults'
        /\ pc' # "idle" /\ ~Terminal(mem'.phase) => Sum(sent') <= faults'
        /\ ~Terminal(api'.phase) /\ Unspent' => Sum(sent') <= faults'
        /\ ~Terminal(api'.phase) /\ Unspent' /\ pc' # "idle" /\ ~Terminal(mem'.phase) => Sum(sent') + 1 <= faults'
    BY <1>0, <1>a, <2>1, <2>3 DEF NotifyInv, Unspent
  <2>5. QED
    BY <1>b, <2>1, <2>2, <2>4 DEF NotifyInv
<1>2. CASE EndStep
  <2>1. /\ pc' = "idle" /\ Keeps(api, api') /\ Silent /\ Counted /\ UNCHANGED world
        /\ pc \in {"idle", "load"} \/ ~memFresh \/ faults' = faults + 1
        /\ api'.phase = api.phase /\ (api.deleting => api'.deleting)
    BY <1>2 DEF EndStep, Keeps
  <2>2. Sum(sent') = Sum(sent) /\ faults <= faults'
    BY <1>0, <1>b, <2>1 DEF Counted
  <2>3. ASSUME ~Terminal(api'.phase), ~api'.deleting PROVE Sum(sent') <= faults'
    <3>1. ~Terminal(api.phase) /\ ~api.deleting
      BY <2>1, <2>3
    <3>2. CASE pc = "idle" \/ ~memFresh
      BY <1>0, <1>a, <2>2, <3>1, <3>2 DEF NotifyInv, Unspent
    <3>3. CASE pc \in {"load", "drive"}
      <4>1. ~Terminal(mem.phase)
        BY <3>1, <3>3 DEF FrameInv, Terminal
      <4>2. QED
        BY <1>0, <1>a, <2>2, <3>3, <4>1 DEF NotifyInv
    <3>4. CASE faults' = faults + 1
      BY <1>0, <1>a, <2>2, <3>4 DEF NotifyInv
    <3>5. QED
      BY <2>1, <3>2, <3>3, <3>4
  <2>4. Sum(sent') <= 1 + faults'
    BY <1>0, <1>a, <2>2 DEF NotifyInv
  <2>5. QED
    BY <1>b, <1>c, <2>1, <2>3, <2>4 DEF NotifyInv, Unspent
<1>3. CASE ObjectStep
  <2>1. /\ UNCHANGED <<mem, pc, world>> /\ Keeps(api, api') /\ Silent /\ Counted
        /\ memFresh' = memFresh \/ (memFresh' = FALSE /\ (faults' = faults + 1 \/ api'.deleting))
        /\ api'.phase = api.phase /\ (api.deleting => api'.deleting)
    BY <1>3 DEF ObjectStep, Keeps
  <2>2. Told(api', world', sent', faults') /\ (pc' = "persist" => Told(mem', world', sent', faults'))
    BY <1>c, <1>d, <2>1
  <2>3. Sum(sent') = Sum(sent) /\ faults <= faults'
    BY <1>0, <1>b, <2>1 DEF Counted
  <2>4. /\ Sum(sent') <= 1 + faults'
        /\ pc' # "idle" /\ ~Terminal(mem'.phase) => Sum(sent') <= faults'
    BY <1>0, <1>a, <2>1, <2>3 DEF NotifyInv
  <2>5. ASSUME ~Terminal(api'.phase), Unspent'
        PROVE  /\ Sum(sent') <= faults'
               /\ pc' # "idle" /\ ~Terminal(mem'.phase) => Sum(sent') + 1 <= faults'
    <3>1. ~Terminal(api.phase)
      BY <2>1, <2>5
    <3>2. Unspent \/ faults' = faults + 1
      BY <2>1, <2>5 DEF Unspent
    <3>3. QED
      BY <1>0, <1>a, <2>1, <2>3, <3>1, <3>2 DEF NotifyInv
  <2>6. QED
    BY <1>b, <2>1, <2>2, <2>4, <2>5 DEF NotifyInv
<1>4. CASE LoadStep
  <2>1. /\ pc = "idle" /\ pc' = "load" /\ ~cache.deleting /\ Keeps(api, api') /\ Silent /\ Counted
        /\ \/ mem' = cache /\ api' = api /\ memFresh' = cacheFresh
           \/ mem' = api' /\ memFresh' = TRUE
        /\ faults' = IF cacheFresh THEN faults ELSE faults + 1
        /\ UNCHANGED world
        /\ api'.phase = api.phase /\ (api.deleting => api'.deleting)
    BY <1>4 DEF LoadStep, Keeps
  <2>2. Sum(sent') = Sum(sent)
    BY <1>b, <2>1
  <2>3. ~Terminal(mem'.phase) => Sum(sent') <= faults'
    <3>1. CASE cacheFresh
      <4>1. cache = api /\ ~api.deleting /\ mem'.phase = api.phase
        BY <2>1, <3>1 DEF FrameInv
      <4>2. QED
        BY <1>0, <1>a, <2>1, <2>2, <3>1, <4>1 DEF NotifyInv, Unspent
    <3>2. CASE ~cacheFresh
      BY <1>0, <1>a, <2>1, <2>2, <3>2 DEF NotifyInv
    <3>3. QED
      BY <3>1, <3>2
  <2>4. ~Terminal(api'.phase) /\ Unspent' => Sum(sent') + 1 <= faults'
    <3>1. ASSUME ~Terminal(api'.phase), Unspent' PROVE Sum(sent') + 1 <= faults'
      <4>1. ~Terminal(api.phase) /\ ~api.deleting /\ ~cacheFresh
        BY <2>1, <3>1 DEF Unspent
      <4>2. QED
        BY <1>0, <1>a, <2>1, <2>2, <4>1 DEF NotifyInv, Unspent
    <3>2. QED
      BY <3>1
  <2>5. Sum(sent') <= 1 + faults'
    BY <1>0, <1>a, <2>1, <2>2 DEF NotifyInv
  <2>6. ~Terminal(api'.phase) /\ Unspent' => Sum(sent') <= faults'
    BY <1>0, <1>a, <2>4
  <2>7. QED
    BY <1>b, <1>c, <2>1, <2>3, <2>4, <2>5, <2>6 DEF NotifyInv
<1>5. CASE SnapStep
  <2>1. /\ pc = "load" /\ pc' = "load" /\ memFresh /\ memFresh' /\ ~Terminal(mem.phase) /\ Keeps(api, api') /\ mem' = api'
        /\ UNCHANGED <<world, faults>> /\ Silent
    BY <1>5 DEF SnapStep
  <2>2. Sum(sent') = Sum(sent)
    BY <1>b, <2>1
  <2>3. Sum(sent') <= faults' /\ Sum(sent') <= 1 + faults'
    BY <1>0, <1>a, <2>1, <2>2 DEF NotifyInv
  <2>4. QED
    BY <1>b, <1>c, <1>e, <2>1, <2>3 DEF NotifyInv, Unspent
<1>6. CASE WorkStep
  <2>1. /\ Forward /\ ~Terminal(mem.phase) /\ UNCHANGED <<api, memFresh, world>> /\ Counted
        /\ \/ Silent /\ (Terminal(mem'.phase) => mem'.step = "" \/ faults' = faults + 1)
           \/ Announced(mem') /\ Terminal(mem'.phase)
    BY <1>6 DEF WorkStep, object
  <2>2. pc \in {"load", "drive", "finish"} /\ pc' # "idle"
    BY <2>1 DEF Forward
  <2>3. faults <= faults' /\ Sum(sent) <= faults
    <3>0. Counted
      BY <2>1
    <3>1. faults <= faults'
      BY <1>0, <3>0 DEF Counted
    <3>2. Sum(sent) <= faults
      BY <2>1, <2>2 DEF NotifyInv
    <3>3. QED
      BY <3>1, <3>2
  <2>4. Told(api', world', sent', faults')
    <3>1. CASE faults' # 0
      BY <1>0, <3>1, ToldFault
    <3>2. CASE faults' = 0
      <4>1. faults = 0
        BY <1>0, <2>3, <3>2
      <4>2. ~Terminal(api.phase)
        BY <2>1, <2>2, <4>1 DEF FrameInv, Current
      <4>3. QED
        BY <2>1, <4>2 DEF Told
    <3>3. QED
      BY <3>1, <3>2
  <2>5. CASE Silent /\ (Terminal(mem'.phase) => mem'.step = "" \/ faults' = faults + 1)
    <3>1. Sum(sent') = Sum(sent)
      BY <1>b, <2>5
    <3>2. Told(mem', world', sent', faults')
      <4>1. CASE faults' = faults + 1
        BY <1>0, <4>1, ToldFault
      <4>2. CASE faults' # faults + 1
        BY <2>5, <4>2 DEF Told
      <4>3. QED
        BY <4>1, <4>2
    <3>3. /\ Sum(sent') <= 1 + faults' /\ Sum(sent') <= faults'
          /\ ~Terminal(api'.phase) /\ Unspent' => Sum(sent') + 1 <= faults'
      <4>1. ~Terminal(api.phase) /\ Unspent => Sum(sent) + 1 <= faults
        BY <2>1, <2>2 DEF NotifyInv
      <4>2. Unspent' => Unspent
        BY <2>1, <2>2 DEF Unspent
      <4>3. api' = api
        BY <2>1
      <4>4. QED
        BY <1>0, <1>a, <2>3, <3>1, <4>1, <4>2, <4>3
    <3>4. QED
      BY <1>b, <2>4, <2>5, <3>2, <3>3 DEF NotifyInv
  <2>6. CASE Announced(mem') /\ Terminal(mem'.phase)
    <3>1. PICK e \in RunEvents : e = runPhaseToEvent(mem')
      BY EventFacts
    <3>2. ~Terminal(api'.phase) /\ Unspent' => Sum(sent) + 1 <= faults
      BY <1>0, <1>a, <2>1, <2>2 DEF NotifyInv, Unspent
    <3>3. CASE /\ sent'[e] = sent[e] + 1 /\ faults' = faults
               /\ \A f \in RunEvents : f # e => sent'[f] = sent[f]
               /\ \A f \in RunEvents : <<"run", f>> \in fired' => f = e \/ <<"run", f>> \in fired
      <4>1. Sum(sent') = Sum(sent) + 1
        BY <1>0, <3>3, SumOneMore
      <4>2. sent[e] \in Nat /\ sent[e] <= Sum(sent)
        BY <1>0, SumFacts
      <4>3. faults' = 0 => sent'[e] = 1
        BY <1>0, <1>a, <2>3, <3>3, <4>2
      <4>4. Sum(sent') + faults' >= 1
        BY <1>0, <1>a, <4>1
      <4>5. Told(mem', world', sent', faults')
        BY <3>1, <4>3, <4>4 DEF Told
      <4>6. \A f \in RunEvents : <<"run", f>> \in fired' => sent'[f] >= 1
        <5>1. ASSUME NEW f \in RunEvents, <<"run", f>> \in fired' PROVE sent'[f] >= 1
          <6>1. CASE f = e
            BY <3>3, <4>2, <6>1
          <6>2. CASE f # e
            BY <3>3, <5>1, <6>2 DEF NotifyInv
          <6>3. QED
            BY <6>1, <6>2
        <5>2. QED
          BY <5>1
      <4>7. Sum(sent') <= 1 + faults' /\ (~Terminal(api'.phase) /\ Unspent' => Sum(sent') <= faults')
        BY <1>0, <1>a, <2>3, <3>2, <3>3, <4>1
      <4>8. QED
        BY <2>4, <2>6, <4>5, <4>6, <4>7 DEF NotifyInv
    <3>4. CASE /\ Silent
               /\ \/ faults' = faults + 1
                  \/ faults' = faults /\ ~(world.notifyRef /\ policyMatchesEvent(e))
                  \/ faults' = faults /\ <<"run", e>> \in fired
      <4>1. Sum(sent') = Sum(sent)
        BY <1>b, <3>4
      <4>2. Told(mem', world', sent', faults')
        <5>1. CASE faults' # 0
          BY <1>0, <5>1, ToldFault
        <5>2. CASE ~(world.notifyRef /\ policyMatchesEvent(e))
          BY <2>1, <3>1, <5>2 DEF Told, Wanted, policyMatchesEvent
        <5>3. CASE faults' = 0 /\ <<"run", e>> \in fired
          <6>1. sent[e] >= 1 /\ sent[e] \in Nat /\ sent[e] <= Sum(sent)
            BY <1>0, <5>3, SumFacts DEF NotifyInv
          <6>2. FALSE
            BY <1>0, <1>a, <2>3, <5>3, <6>1
          <6>3. QED
            BY <6>2
        <5>4. QED
          BY <1>0, <3>4, <5>1, <5>2, <5>3
      <4>3. Sum(sent') <= 1 + faults' /\ (~Terminal(api'.phase) /\ Unspent' => Sum(sent') <= faults')
        BY <1>0, <1>a, <2>3, <3>2, <4>1
      <4>4. QED
        BY <1>b, <2>4, <2>6, <3>4, <4>2, <4>3 DEF NotifyInv
    <3>5. QED
      BY <2>6, <3>1, <3>3, <3>4 DEF Announced
  <2>7. QED
    BY <2>1, <2>5, <2>6
<1>7. CASE AskStep
  <2>1. /\ pc = "drive" /\ pc' = "finish" /\ mem'.phase = mem.phase /\ UNCHANGED <<api, memFresh, world>>
        /\ Silent /\ Counted
    BY <1>7 DEF AskStep, object
  <2>2. Sum(sent') = Sum(sent) /\ faults <= faults'
    BY <1>0, <1>b, <2>1 DEF Counted
  <2>3. /\ Sum(sent') <= 1 + faults'
        /\ ~Terminal(mem'.phase) => Sum(sent') <= faults'
        /\ ~Terminal(api'.phase) /\ Unspent' => Sum(sent') <= faults'
        /\ ~Terminal(api'.phase) /\ Unspent' /\ ~Terminal(mem'.phase) => Sum(sent') + 1 <= faults'
    BY <1>0, <1>a, <2>1, <2>2 DEF NotifyInv, Unspent
  <2>4. QED
    BY <1>b, <1>c, <2>1, <2>3, KeepsItself DEF NotifyInv
<1>8. CASE StoreStep
  <2>1. pc = "persist" /\ pc' = "idle" /\ api' = mem /\ UNCHANGED <<world, faults>> /\ Silent
    BY <1>8 DEF StoreStep
  <2>2. Told(api', world', sent', faults')
    BY <1>e, <2>1, ToldKept DEF NotifyInv
  <2>3. Sum(sent') = Sum(sent)
    BY <1>b, <2>1
  <2>4. Sum(sent') <= 1 + faults' /\ (~Terminal(api'.phase) => Sum(sent') <= faults')
    BY <1>0, <1>a, <2>1, <2>3 DEF NotifyInv
  <2>5. QED
    BY <1>b, <2>1, <2>2, <2>4 DEF NotifyInv
<1>9. QED
  BY <1>1, <1>2, <1>3, <1>4, <1>5, <1>6, <1>7, <1>8 DEF KnownStep

-----------------------------------------------------------------------------
(* The theorems.                                                           *)

ModesInv == TypeOK /\ FrameInv /\ LooseInv /\ RoutedInv /\ NotifyInv

LEMMA ModesInitially == Init => ModesInv
<1> SUFFICES ASSUME Init PROVE ModesInv
  OBVIOUS
<1>0. TypeOK /\ FrameInv
  BY InitFacts
<1>1. api = NewRun /\ cache = NewRun /\ mem = NewRun /\ pc = "idle" /\ faults = 0 /\ issued = 0
  BY DEF Init, ObjectInit
<1>2. OpenTasks = {}
  BY DEF Init, Queue!Init, OpenTasks
<1>3. \A run : Count(OpenTasks, run) = 0
  <2>1. \A run : Loose(OpenTasks, run) = {}
    BY <1>2 DEF Loose
  <2>2. QED
    BY <2>1, FS_EmptySet DEF Count
<1>4. LooseInv
  BY <1>1, <1>3 DEF LooseInv, Room
<1>5. RoutedInv
  <2>1. \A t \in 1 .. issued : FALSE
    BY <1>1, SMT
  <2>2. api.step = "" /\ cache.step = "" /\ mem.step = ""
    BY <1>1, NewRunFacts
  <2>3. "" # "Pending" /\ pc # "drive"
    BY <1>1
  <2>4. QED
    BY <2>1, <2>2, <2>3, Zenon DEF RoutedInv
<1>6. fired = {} /\ Sum(sent) = 0
  <2>1. fired = {} /\ sent = [e \in Events |-> 0]
    BY DEF Init
  <2>2. "Succeeded" \in Events /\ "Failed" \in Events /\ "TimedOut" \in Events
    BY DEF Events
  <2>3. sent["Succeeded"] = 0 /\ sent["Failed"] = 0 /\ sent["TimedOut"] = 0
    BY <2>1, <2>2
  <2>4. Sum(sent) = 0
    BY <2>3 DEF Sum
  <2>5. QED
    BY <2>1, <2>4
<1>7. NotifyInv
  <2>1. Sum(sent) <= 1 + faults /\ Sum(sent) <= faults
    BY <1>1, <1>6
  <2>2. ~Terminal(api.phase)
    BY <1>1, NewRunFacts DEF Terminal
  <2>3. pc = "idle" /\ pc # "persist" /\ \A x : x \notin fired
    BY <1>1, <1>6
  <2>4. QED
    BY <2>1, <2>2, <2>3, Zenon DEF NotifyInv, Told
<1>8. QED
  BY <1>0, <1>4, <1>5, <1>7 DEF ModesInv

LEMMA ModesKept ==
  ASSUME ModesInv, [Next]_vars
  PROVE  ModesInv'
<1>1. TypeOK /\ FrameInv /\ LooseInv /\ RoutedInv /\ NotifyInv
  BY DEF ModesInv
<1>2. TypeOK' /\ KnownStep
  BY <1>1, EveryKind
<1>3. QED
  BY <1>1, <1>2, FrameStep, LooseStep, RoutedStep, NotifyStep DEF ModesInv

LEMMA AskedOnce == TypeOK /\ FrameInv /\ LooseInv => AsksOnce
<1> SUFFICES ASSUME TypeOK, FrameInv, LooseInv PROVE AsksOnce
  OBVIOUS
<1> DEFINE S == {t \in TaskIds : ledger[t] = "open" /\ t \notin {api.task, mem.task}}
           d == IF api.deleting \/ ~api.exists THEN 1 ELSE 0
<1>0. faults \in Nat /\ OpenTasks \in SUBSET TaskIds
  BY DEF TypeOK, OpenTasks
<1>1. S \subseteq Loose(OpenTasks, api) /\ S \subseteq Loose(OpenTasks, mem)
  BY DEF OpenTasks, Loose
<1>2. IsFiniteSet(Loose(OpenTasks, api)) /\ IsFiniteSet(Loose(OpenTasks, mem))
  BY <1>0, CountTypes
<1> HIDE DEF S
<1>3. /\ Cardinality(S) \in Nat /\ Cardinality(S) <= Count(OpenTasks, api)
      /\ Cardinality(S) <= Count(OpenTasks, mem)
      /\ Count(OpenTasks, api) \in Nat /\ Count(OpenTasks, mem) \in Nat
  BY <1>0, <1>1, <1>2, CountTypes, FS_Subset, FS_CardinalityType DEF Count
<1>4. Cardinality(S) <= faults + d
  <2>1. CASE pc # "idle"
    BY <1>0, <1>3, <2>1 DEF LooseInv
  <2>2. CASE pc = "idle" /\ ~api.deleting
    BY <1>0, <1>3, <2>2 DEF LooseInv, Room, Unspent
  <2>3. CASE pc = "idle" /\ api.deleting
    BY <1>0, <1>3, <2>3 DEF LooseInv, Room
  <2>4. QED
    BY <2>1, <2>2, <2>3
<1>5. QED
  BY <1>4 DEF AsksOnce, S

\* Repeated, stale and lost passes neither ask the agent of a run twice, but for
\* one task per fault and one when the run is deleted under the pass, nor ask
\* a routed one without the default inputs that only the first pass fills in;
\* for agent, dynamic and routed runs and any number of faults (submitAgentStep,
\* submitDynamicEntryStep, submitRoutedStep, validateAndDefaultInputs).
THEOREM AskedOnceAsRun == Spec => []AskedAsRun
<1>1. ModesInv => AskedAsRun
  BY AskedOnce DEF ModesInv, AskedAsRun, RoutedInv, RoutedInputIsComplete
<1>2. QED
  BY <1>1, ModesInitially, ModesKept, PTL DEF Spec

\* The end of a run that had a step is notified once, with the event that its
\* stored status stands for, although it is sent before it is stored; only
\* faults lose or repeat it, one each (DispatchRun, its rate limiter, and the
\* status update at the end of a pass).
THEOREM EndIsToldOnce == Spec => []EndIsNotified
<1>1. ModesInv => EndIsNotified
  <2> SUFFICES ASSUME ModesInv PROVE EndIsNotified
    OBVIOUS
  <2>1. Sum(sent) <= 1 + faults /\ Told(api, world, sent, faults)
    BY DEF ModesInv, NotifyInv
  <2>2. ASSUME Terminal(api.phase), api.step # "",
               runPhaseToEvent(api) \in {e \in RunEvents : world.notifyRef /\ policyMatchesEvent(e)}
        PROVE  Sum(sent) + faults >= 1 /\ (faults = 0 => sent[runPhaseToEvent(api)] = 1)
    <3>1. Wanted(world, runPhaseToEvent(api))
      BY <2>2 DEF Wanted, policyMatchesEvent
    <3>2. QED
      BY <2>1, <2>2, <3>1, Zenon DEF Told
  <2>3. QED
    BY <2>1, <2>2, Zenon DEF EndIsNotified, Sum
<1>2. QED
  BY <1>1, ModesInitially, ModesKept, PTL DEF Spec

-----------------------------------------------------------------------------
(* What was spent.                                                         *)

Entry == [team : {w.team : w \in Worlds}, day : Nat]

\* A run that may still be paid for.
Active(run) == run.phase = "Running" /\ run.step \in {"Pending", "WarmingUp", "Running"}

\* The pass under way may collect the answer, or let the next one do so.
Ahead ==
  /\ pc # "idle" /\ Active(mem)
  /\ memFresh \/ (pc \in {"load", "drive"} /\ mem.step = "Running")

\* A pass that starts from the stored run may collect the answer.
Behind == Active(api) /\ Unspent

SameStep(run, other) == run.phase = other.phase /\ run.step = other.step

\* How often the run is going to be paid for, should nothing more go wrong.
Owing == (IF Ahead THEN 1 ELSE 0) + (IF Behind THEN 1 ELSE 0)

Binding(b) ==
  budgetMatchesRun(b, world.team) /\ b.hardStop /\ b.limit > 0 /\ world.healthy /\ world.team # Nil

Spent(b) == Total(entries, world.team, PeriodWindowStart(day, b.period))

\* What is spent and what is going to be.  A run is let in below the limit,
\* beside fewer than MaxAtOnce others.
SpendInv ==
  /\ entries \in Seq(Entry) /\ day \in Nat /\ others \in Nat /\ others < MaxAtOnce
  /\ world.healthy => healthy
  /\ ~memFresh /\ ~api.deleting => faults >= 1
  /\ pc = "load" /\ memFresh => SameStep(mem, api)
  /\ \A b \in world.budgets : Binding(b) => Spent(b) + others + Owing <= b.limit - 1 + MaxAtOnce + faults

\* The window moves forward.
LEMMA WindowFacts ==
  ASSUME NEW d \in Nat, NEW p
  PROVE  /\ PeriodWindowStart(d, p) \in Int
         /\ PeriodWindowStart(d, p) <= PeriodWindowStart(d + 1, p)
<1>1. ASSUME NEW n \in Nat \ {0}
      PROVE  /\ d - (d % n) \in Int /\ (d + 1) - ((d + 1) % n) \in Int
             /\ d - (d % n) <= (d + 1) - ((d + 1) % n)
  OBVIOUS
<1>2. QED
  BY <1>1, BudgetAssumption DEF PeriodWindowStart, TruncateToPeriod

LEMMA FoundFacts ==
  ASSUME NEW s \in Seq(Entry), NEW team, NEW since \in Int
  PROVE  /\ IsFiniteSet(fetchEntries(s, team, since))
         /\ Cardinality(fetchEntries(s, team, since)) \in Nat
         /\ Total(s, team, since) \in Nat
<1>1. DOMAIN s = 1 .. Len(s) /\ Len(s) \in Nat
  OBVIOUS
<1>2. IsFiniteSet(DOMAIN s)
  BY <1>1, FS_Interval
<1>3. fetchEntries(s, team, since) \subseteq DOMAIN s
  BY DEF fetchEntries
<1>4. IsFiniteSet(fetchEntries(s, team, since)) /\ Cardinality(fetchEntries(s, team, since)) \in Nat
  BY <1>2, <1>3, FS_Subset, FS_CardinalityType
<1>5. QED
  BY <1>4, BudgetAssumption DEF Total

\* More entries found, more spent.
LEMMA TotalGrows ==
  ASSUME NEW s \in Seq(Entry), NEW t \in Seq(Entry), NEW team, NEW u \in Int, NEW v \in Int, NEW k \in {0, 1},
         Cardinality(fetchEntries(s, team, u)) <= Cardinality(fetchEntries(t, team, v)) + k
  PROVE  Total(s, team, u) <= Total(t, team, v) + k
<1>1. PICK m \in Nat, n \in Nat : m = Cardinality(fetchEntries(s, team, u)) /\ n = Cardinality(fetchEntries(t, team, v))
  BY FoundFacts
<1>2. Total(s, team, u) = (IF m > MaxRead THEN MaxRead ELSE m) /\ Total(t, team, v) = (IF n > MaxRead THEN MaxRead ELSE n)
  BY <1>1 DEF Total
<1>3. m <= n + k
  BY <1>1
<1>4. QED
  BY <1>2, <1>3, BudgetAssumption

LEMMA TotalFacts ==
  ASSUME NEW s \in Seq(Entry), NEW team, NEW u \in Int
  PROVE  /\ Total(<<>>, team, u) = 0
         /\ \A v \in Int : u <= v => Total(s, team, v) <= Total(s, team, u)
         /\ \A e \in Entry : Total(Append(s, e), team, u) <= Total(s, team, u) + 1
<1>1. Total(<<>>, team, u) = 0
  <2>1. fetchEntries(<<>>, team, u) = {}
    BY DEF fetchEntries
  <2>2. QED
    <3>1. Cardinality(fetchEntries(<<>>, team, u)) = 0
      BY <2>1, FS_EmptySet
    <3>2. ~(0 > MaxRead)
      BY BudgetAssumption
    <3>3. QED
      BY <3>1, <3>2 DEF Total
<1>2. ASSUME NEW v \in Int, u <= v PROVE Total(s, team, v) <= Total(s, team, u)
  <2>1. \A i \in DOMAIN s : s[i].day \in Nat
    <3>1. \A i \in DOMAIN s : s[i] \in Entry
      OBVIOUS
    <3>2. \A x \in Entry : x.day \in Nat
      BY DEF Entry
    <3>3. QED
      BY <3>1, <3>2
  <2>2. fetchEntries(s, team, v) \subseteq fetchEntries(s, team, u)
    BY <1>2, <2>1 DEF fetchEntries
  <2>3. Cardinality(fetchEntries(s, team, v)) <= Cardinality(fetchEntries(s, team, u))
    BY <2>2, FoundFacts, FS_Subset
  <2>4. QED
    BY <2>3, FoundFacts, TotalGrows
<1>3. ASSUME NEW e \in Entry PROVE Total(Append(s, e), team, u) <= Total(s, team, u) + 1
  <2>1. PICK a : a = Append(s, e)
    OBVIOUS
  <2>2. a \in Seq(Entry) /\ DOMAIN a = DOMAIN s \cup {Len(s) + 1} /\ \A i \in DOMAIN s : a[i] = s[i]
    BY <2>1
  <2>3. fetchEntries(a, team, u) \subseteq fetchEntries(s, team, u) \cup {Len(s) + 1}
    BY <2>2 DEF fetchEntries
  <2>4. IsFiniteSet(fetchEntries(s, team, u)) /\ Cardinality(fetchEntries(s, team, u)) \in Nat
    BY FoundFacts
  <2>5. /\ IsFiniteSet(fetchEntries(s, team, u) \cup {Len(s) + 1})
        /\ Cardinality(fetchEntries(s, team, u) \cup {Len(s) + 1}) <= Cardinality(fetchEntries(s, team, u)) + 1
    <3> DEFINE S == fetchEntries(s, team, u)
               x == Len(s) + 1
    <3>1. IsFiniteSet(S) /\ Cardinality(S) \in Nat
      BY <2>4
    <3> HIDE DEF S, x
    <3>2. IsFiniteSet(S \cup {x}) /\ Cardinality(S \cup {x}) \in {Cardinality(S), Cardinality(S) + 1}
      BY <3>1, FS_AddElement
    <3>3. IsFiniteSet(S \cup {x}) /\ Cardinality(S \cup {x}) <= Cardinality(S) + 1
      BY <3>1, <3>2
    <3>4. QED
      BY <3>3 DEF S, x
  <2>6. Cardinality(fetchEntries(a, team, u)) <= Cardinality(fetchEntries(s, team, u) \cup {Len(s) + 1})
    BY <2>3, <2>5, FS_Subset
  <2>7. Cardinality(fetchEntries(a, team, u)) \in Nat /\ Cardinality(fetchEntries(s, team, u) \cup {Len(s) + 1}) \in Nat
    BY <2>2, <2>5, FoundFacts, FS_CardinalityType
  <2>8. Cardinality(fetchEntries(a, team, u)) <= Cardinality(fetchEntries(s, team, u)) + 1
    BY <2>4, <2>5, <2>6, <2>7
  <2>9. Total(a, team, u) <= Total(s, team, u) + 1
    BY <2>2, <2>8, TotalGrows
  <2>10. QED
    BY <2>1, <2>9
<1>4. QED
  BY <1>1, <1>2, <1>3

\* A step that lets nobody in and pays for nothing.
CalmStep ==
  /\ entries' \in {entries, <<>>} /\ day' \in {day, day + 1}
  /\ others' = others /\ (healthy => healthy')
  /\ Forward => pc' # "drive" /\ (Active(mem') => Active(mem))

LEMMA CalmOutside ==
  ASSUME UNCHANGED money, Forward => pc' # "drive" /\ (Active(mem') => Active(mem))
  PROVE  CalmStep
BY DEF money, CalmStep

\* Around the pass.
LEMMA CalmAround ==
  ASSUME \/ Delivery \/ WindowEnds \/ BudgetReconcile \/ maybeNotify \/ Reconnect \/ NewDay
         \/ DeadlinePasses \/ AgentReady \/ AgentMoves \/ AgentAnswers \/ UNCHANGED vars
         \/ OperatorRestart \/ CacheSync \/ UserEdit \/ UserDelete
         \/ ReconcileGone \/ ReconcileDeleting \/ LoadRun \/ ReleaseTerminal \/ QueueError \/ Persist \/ Conflict
  PROVE  CalmStep
<1>1. ASSUME pc' = pc \/ pc' = "idle" \/ pc = "idle" PROVE ~Forward
  BY <1>1 DEF Forward
<1>2. CASE \/ Delivery \/ WindowEnds \/ BudgetReconcile \/ maybeNotify
           \/ DeadlinePasses \/ AgentReady \/ AgentMoves \/ AgentAnswers \/ UNCHANGED vars
  <2>1. UNCHANGED <<pass, money>>
    BY <1>2 DEF Delivery, WindowEnds, BudgetReconcile, maybeNotify, DeadlinePasses, AgentReady, AgentMoves,
                AgentAnswers, vars
  <2>2. UNCHANGED money /\ pc' = pc
    BY <2>1 DEF pass
  <2>3. QED
    BY <1>1, <2>2, CalmOutside
<1>3. CASE Reconnect \/ NewDay
  <2>1. UNCHANGED pass /\ UNCHANGED <<entries, others>> /\ (healthy => healthy') /\ day' \in {day, day + 1}
    BY <1>3 DEF Reconnect, NewDay
  <2>2. pc' = pc
    BY <2>1 DEF pass
  <2>3. entries' \in {entries, <<>>} /\ others' = others
    BY <2>1
  <2>4. QED
    BY <1>1, <2>1, <2>2, <2>3, Zenon DEF CalmStep
<1>4. CASE OperatorRestart
  <2>1. pc' = "idle" /\ entries' \in {entries, <<>>} /\ UNCHANGED <<healthy, day, others>>
    BY <1>4 DEF OperatorRestart, Restart, PassEnds, Kept
  <2>2. QED
    BY <1>1, <2>1 DEF CalmStep
<1>5. CASE CacheSync \/ UserEdit \/ UserDelete
  <2>1. Outside /\ UNCHANGED pc
    BY <1>5 DEF CacheSync, UserEdit, UserDelete, Around, Watch, Edit, Delete
  <2>2. UNCHANGED money
    BY <2>1 DEF Outside
  <2>3. QED
    BY <1>1, <2>1, <2>2, CalmOutside
<1>6. CASE ReconcileGone \/ ReconcileDeleting \/ LoadRun \/ ReleaseTerminal \/ QueueError \/ Persist \/ Conflict
  <2>1. Outside /\ (pc = "idle" \/ pc' = "idle")
    BY <1>6 DEF ReconcileGone, ReconcileDeleting, LoadRun, ReleaseTerminal, QueueError, Persist, Conflict, GetNotFound,
                FinalizeDeletion, EnsureFinalizer, RemoveFinalizer, UpdateStatus, UpdateConflict, Get, EndPass, PassEnds
  <2>2. UNCHANGED money
    BY <2>1 DEF Outside
  <2>3. QED
    BY <1>1, <2>1, <2>2, CalmOutside
<1>7. QED
  BY <1>2, <1>3, <1>4, <1>5, <1>6

\* The pass goes on.
LEMMA CalmWork ==
  ASSUME TypeOK, FrameInv,
         \/ SnapshotTeam \/ Reject \/ BeginLate \/ WarmUp \/ Submit \/ SubmitRouted \/ Poll \/ Finish
  PROVE  CalmStep
<1>0. mem \in RunRecord /\ (pc \in {"drive", "finish"} => mem.phase = "Running")
  BY DEF TypeOK, ObjectTypes, FrameInv
<1>1. UNCHANGED money
  BY DEF SnapshotTeam, Reject, BeginLate, WarmUp, Submit, SubmitRouted, Poll, Finish, Outside
<1>2. CASE SnapshotTeam \/ Reject
  <2>1. \/ pc' = pc \/ pc' = "idle"
        \/ \E r \in Reason : mem' = [mem EXCEPT !.phase = "Failed", !.reason = r] /\ pc' = "persist"
    BY <1>2 DEF SnapshotTeam, Reject, EndPass, PassEnds, Fails, Goes, Reason
  <2>2. CASE pc' = pc \/ pc' = "idle"
    BY <1>1, <2>2, CalmOutside DEF Forward
  <2>3. ASSUME NEW r \in Reason, mem' = [mem EXCEPT !.phase = "Failed", !.reason = r], pc' = "persist"
        PROVE  CalmStep
    <3>1. mem'.phase = "Failed"
      BY <1>0, <2>3 DEF RunRecord
    <3>2. QED
      BY <1>1, <2>3, <3>1, CalmOutside DEF Active
  <2>4. QED
    BY <2>1, <2>2, <2>3
<1>3. CASE BeginLate
  <2>1. PICK run : run = TimedOut(mem, "Timeout")
    OBVIOUS
  <2>2. mem.phase = "Running" /\ mem' = run /\ pc' = "persist"
    BY <1>3, <2>1 DEF BeginLate, Expired, Goes
  <2>3. Terminal(run.phase)
    <3>1. "Timeout" \in Reason
      BY DEF Reason
    <3>2. QED
      BY <1>0, <2>1, <2>2, <3>1, JudgedFacts
  <2>4. QED
    BY <1>1, <2>2, <2>3, CalmOutside DEF Active, Terminal
<1>4. CASE WarmUp \/ Submit \/ SubmitRouted
  <2>1. pc = "drive" /\ Active(mem)
    BY <1>0, <1>4 DEF WarmUp, Submit, SubmitRouted, Waits, Active
  <2>2. pc' = "finish"
    BY <1>4 DEF WarmUp, Submit, SubmitRouted, Ask, Goes
  <2>3. QED
    BY <1>1, <2>1, <2>2, CalmOutside
<1>5. CASE Poll
  <2>1. pc' = "finish" /\ mem' = mem
    BY <1>5 DEF Poll, Goes
  <2>2. QED
    BY <1>1, <2>1, CalmOutside
<1>6. CASE Finish
  <2>1. PICK run : run = IF world.mode = "routed" THEN PipelinePhase(mem) ELSE Finalized(mem)
    OBVIOUS
  <2>2. pc = "finish" /\ mem' = run /\ pc' = "persist"
    BY <1>6, <2>1 DEF Finish, Goes
  <2>3. Judged(mem, run)
    BY <1>0, <2>1, <2>2, JudgedFacts
  <2>4. Terminal(run.phase) \/ run = mem
    BY <2>3 DEF Judged
  <2>5. QED
    BY <1>1, <2>2, <2>4, CalmOutside DEF Active, Terminal
<1>7. QED
  BY <1>2, <1>3, <1>4, <1>5, <1>6

\* Besides the steps that let a run in or pay for it all are calm.
LEMMA MoneyKinds ==
  ASSUME TypeOK, FrameInv, [Next]_vars
  PROVE  CalmStep \/ Begin \/ Collect \/ OtherStarts \/ OtherSpends
<1>1. CASE Pass
  BY <1>1, CalmAround, CalmWork DEF Pass
<1>2. CASE ~Pass
  BY <1>2, CalmAround DEF Next
<1>3. QED
  BY <1>1, <1>2

\* How much the run owes after a step that does not let it in, with what is
\* known of the copy besides.
LEMMA OwingStep ==
  ASSUME TypeOK, FrameInv, TypeOK', KnownStep, pc = "load" /\ memFresh => SameStep(mem, api),
         Forward /\ memFresh' = memFresh => (Ahead' => Ahead)
  PROVE  \/ faults' = faults /\ (Ahead' => Ahead \/ (Behind /\ ~Behind')) /\ (Behind' => Behind \/ (Ahead /\ ~Ahead'))
         \/ /\ faults' = faults + 1
            /\ (Ahead' => Ahead) \/ (Behind' => Behind)
            /\ Ahead' /\ Behind' => Ahead \/ Behind
<1>0. faults \in Nat /\ (cacheFresh => cache = api)
  BY DEF TypeOK, FrameInv
<1>1. CASE QuietStep
  <2>1. UNCHANGED <<api, mem, memFresh, pc>> /\ Counted
    BY <1>1 DEF QuietStep, object, pass
  <2>2. Ahead' = Ahead /\ Behind' = Behind
    BY <2>1 DEF Ahead, Behind, Unspent
  <2>3. QED
    BY <2>1, <2>2 DEF Counted
<1>2. CASE EndStep
  <2>1. /\ pc' = "idle" /\ Keeps(api, api') /\ Counted
        /\ pc \in {"idle", "load"} \/ ~memFresh \/ faults' = faults + 1
    BY <1>2 DEF EndStep
  <2>2. ~Ahead' /\ (Behind' => Active(api) /\ ~api.deleting)
    BY <2>1 DEF Ahead, Behind, Unspent, Active, Keeps
  <2>3. CASE faults' = faults + 1
    BY <2>2, <2>3
  <2>4. CASE faults' = faults /\ (pc = "idle" \/ ~memFresh)
    BY <2>2, <2>4 DEF Behind, Unspent
  <2>5. CASE faults' = faults /\ pc = "load" /\ memFresh
    BY <2>2, <2>5 DEF Ahead, Active, SameStep
  <2>6. QED
    BY <1>0, <2>1, <2>3, <2>4, <2>5 DEF Counted
<1>3. CASE ObjectStep
  <2>1. /\ UNCHANGED <<mem, pc>> /\ Keeps(api, api') /\ Counted
        /\ memFresh' = memFresh \/ (memFresh' = FALSE /\ (faults' = faults + 1 \/ api'.deleting))
    BY <1>3 DEF ObjectStep
  <2>2. Ahead' => Ahead
    BY <2>1 DEF Ahead
  <2>3. CASE memFresh' = memFresh
    <3>1. Behind' => Behind
      BY <2>1, <2>3 DEF Behind, Unspent, Active, Keeps
    <3>2. QED
      BY <2>1, <2>2, <3>1 DEF Counted
  <2>4. CASE faults' = faults + 1
    <3>1. Ahead' /\ Behind' => Ahead \/ Behind
      BY <2>2
    <3>2. QED
      BY <2>2, <2>4, <3>1
  <2>5. CASE api'.deleting
    <3>1. ~Behind'
      BY <2>5 DEF Behind, Unspent
    <3>2. QED
      BY <2>1, <2>2, <3>1 DEF Counted
  <2>6. QED
    BY <2>1, <2>3, <2>4, <2>5
<1>4. CASE LoadStep
  <2>1. /\ pc = "idle" /\ pc' = "load" /\ ~cache.deleting /\ Keeps(api, api')
        /\ \/ mem' = cache /\ api' = api /\ memFresh' = cacheFresh
           \/ mem' = api' /\ memFresh' = TRUE
        /\ faults' = IF cacheFresh THEN faults ELSE faults + 1
    BY <1>4 DEF LoadStep
  <2>2. CASE cacheFresh
    <3>1. faults' = faults /\ memFresh' = TRUE /\ (Active(mem') => Active(api)) /\ ~api.deleting
      BY <1>0, <2>1, <2>2 DEF Active, Keeps
    <3>2. ~Behind' /\ (Ahead' => Behind)
      BY <2>1, <3>1 DEF Ahead, Behind, Unspent
    <3>3. QED
      BY <3>1, <3>2
  <2>3. CASE ~cacheFresh
    <3>1. Behind' => Behind
      BY <2>1, <2>3 DEF Behind, Unspent, Active, Keeps
    <3>2. QED
      BY <2>1, <2>3, <3>1
  <2>4. QED
    BY <2>2, <2>3
<1>5. CASE SnapStep
  <2>1. pc = "load" /\ pc' = pc /\ memFresh /\ memFresh' = memFresh /\ Keeps(api, api') /\ mem' = api' /\ faults' = faults
    BY <1>5 DEF SnapStep
  <2>2. SameStep(mem, api)
    BY <2>1
  <2>3. ~Behind' /\ (Ahead' => Ahead)
    BY <2>1, <2>2 DEF Behind, Ahead, Unspent, Active, Keeps, SameStep
  <2>4. QED
    BY <2>1, <2>3
<1>6. CASE WorkStep \/ AskStep
  <2>1. Forward /\ UNCHANGED <<api, memFresh>> /\ Counted
    BY <1>6 DEF WorkStep, AskStep, Forward, object
  <2>2. pc # "idle" /\ pc' # "idle"
    BY <2>1 DEF Forward
  <2>3. Behind' = Behind
    BY <2>1, <2>2 DEF Behind, Unspent
  <2>4. QED
    BY <2>1, <2>3 DEF Counted
<1>7. CASE StoreStep
  <2>1. pc = "persist" /\ memFresh /\ pc' = "idle" /\ api' = mem /\ faults' = faults
    BY <1>7 DEF StoreStep
  <2>2. ~Ahead' /\ (Behind' => Ahead)
    BY <2>1 DEF Ahead, Behind
  <2>3. QED
    BY <2>1, <2>2
<1>8. QED
  BY <1>1, <1>2, <1>3, <1>4, <1>5, <1>6, <1>7 DEF KnownStep

LEMMA OwingFacts ==
  /\ Owing \in Nat /\ Owing <= 2
  /\ ~(Ahead /\ Behind) => Owing <= 1
BY DEF Owing

LEMMA OwingNext ==
  ASSUME faults \in Nat,
         \/ faults' = faults /\ (Ahead' => Ahead \/ (Behind /\ ~Behind')) /\ (Behind' => Behind \/ (Ahead /\ ~Ahead'))
         \/ faults' = faults + 1 /\ (Ahead' /\ Behind' => Ahead \/ Behind)
  PROVE  Owing' \in Nat /\ Owing \in Nat /\ Owing' + faults <= Owing + faults'
BY DEF Owing

\* Of a run that has just been let in.
LEMMA OwingBegins ==
  ASSUME faults \in Nat, Ahead' /\ Behind' => faults' >= 1, faults' \in Nat
  PROVE  Owing' \in Nat /\ Owing' <= 1 + faults'
<1>1. PICK f \in Nat : f = faults'
  OBVIOUS
<1>2. CASE Ahead' /\ Behind'
  <2>1. Owing' = 2 /\ f >= 1
    BY <1>1, <1>2 DEF Owing
  <2>2. 2 <= 1 + f /\ 2 \in Nat
    BY <2>1
  <2>3. QED
    BY <1>1, <2>1, <2>2, Zenon
<1>3. CASE ~(Ahead' /\ Behind')
  <2>1. Owing' = 0 \/ Owing' = 1
    BY <1>3 DEF Owing
  <2>2. 0 <= 1 + f /\ 1 <= 1 + f /\ 0 \in Nat /\ 1 \in Nat
    OBVIOUS
  <2>3. QED
    BY <1>1, <2>1, <2>2, Zenon
<1>4. QED
  BY <1>2, <1>3

\* A budget that does not stop a run is not used up.
LEMMA LetIn ==
  ASSUME TypeOK, SpendInv, ~Over, NEW b \in world.budgets, Binding(b)
  PROVE  Spent(b) <= b.limit - 1
<1>1. healthy /\ budgetMatchesRun(b, world.team) /\ b.hardStop /\ b.limit > 0 /\ b.limit \in Nat
  BY BudgetAssumption DEF SpendInv, Binding, TypeOK
<1>2. StandardDecision(b, world.team, day, entries) # "Exceeded"
  BY <1>1 DEF Over, checkBudgets, Evaluate
<1>3. Spent(b) \in Nat
  BY WindowFacts, FoundFacts DEF Spent, SpendInv
<1>4. ASSUME Spent(b) >= b.limit PROVE FALSE
  <2>1. b.limit > 0 /\ Spent(b) >= b.limit /\ ~(Spent(b) < b.limit)
    BY <1>1, <1>3, <1>4
  <2>2. StandardDecision(b, world.team, day, entries) = "Exceeded"
    BY <2>1, Zenon DEF StandardDecision, Spent
  <2>3. QED
    BY <1>2, <2>2
<1>5. QED
  BY <1>1, <1>3, <1>4

\* What a step adds to the spend of a budget.
LEMMA SpentFacts ==
  ASSUME SpendInv, NEW b \in world.budgets, UNCHANGED world,
         entries' \in {entries, <<>>} \cup {Append(entries, e) : e \in Entry}, day' \in {day, day + 1},
         entries' = entries \/ entries' = <<>> \/ day' = day
  PROVE  /\ Spent(b) \in Nat /\ Spent(b)' \in Nat
         /\ entries' \in Seq(Entry) /\ day' \in Nat
         /\ Spent(b)' <= Spent(b) + 1
         /\ entries' \in {entries, <<>>} => Spent(b)' <= Spent(b)
<1>1. entries \in Seq(Entry) /\ day \in Nat
  BY DEF SpendInv
<1>2. entries' \in Seq(Entry) /\ day' \in Nat
  <2>1. PICK s \in Seq(Entry) : s = entries
    BY <1>1
  <2>2. <<>> \in Seq(Entry) /\ \A e \in Entry : Append(s, e) \in Seq(Entry)
    OBVIOUS
  <2>3. entries' \in Seq(Entry)
    BY <2>1, <2>2
  <2>4. QED
    BY <1>1, <2>3
<1>3. PICK u \in Int, v \in Int : u = PeriodWindowStart(day, b.period) /\ v = PeriodWindowStart(day', b.period)
  BY <1>1, <1>2, WindowFacts
<1>4. u <= v /\ (day' = day => u = v)
  BY <1>1, <1>3, WindowFacts
<1>5. PICK s \in Seq(Entry), t \in Seq(Entry) : s = entries /\ t = entries'
  BY <1>1, <1>2
<1>6. PICK team : team = world.team
  OBVIOUS
<1>7. Spent(b) = Total(s, team, u) /\ Spent(b)' = Total(t, team, v)
  BY <1>3, <1>5, <1>6 DEF Spent
<1>8. Total(s, team, u) \in Nat /\ Total(t, team, v) \in Nat
  BY FoundFacts
<1>9. CASE t = s
  BY <1>1, <1>2, <1>4, <1>5, <1>7, <1>8, <1>9, TotalFacts
<1>10. CASE t = <<>>
  BY <1>1, <1>2, <1>5, <1>7, <1>8, <1>10, TotalFacts
<1>11. CASE t \notin {s, <<>>}
  <2>1. PICK e \in Entry : t = Append(s, e)
    BY <1>5, <1>11
  <2>2. u = v
    BY <1>4, <1>5, <1>11
  <2>3. QED
    BY <1>1, <1>2, <1>5, <1>7, <1>8, <1>11, <2>1, <2>2, TotalFacts
<1>12. QED
  BY <1>9, <1>10, <1>11

\* The parts that do not count.
LEMMA SpendFrame ==
  ASSUME TypeOK, FrameInv, TypeOK', SpendInv, KnownStep
  PROVE  /\ (~memFresh /\ ~api.deleting => faults >= 1)'
         /\ (pc = "load" /\ memFresh => SameStep(mem, api))'
         /\ UNCHANGED world
<1>0. /\ faults \in Nat /\ (cacheFresh => cache = api)
      /\ ~memFresh /\ ~api.deleting => faults >= 1
      /\ pc = "load" /\ memFresh => SameStep(mem, api)
  BY DEF TypeOK, FrameInv, SpendInv
<1>1. CASE QuietStep
  <2>1. UNCHANGED <<api, mem, memFresh, pc, world>> /\ Counted
    BY <1>1 DEF QuietStep, object, pass
  <2>2. QED
    BY <1>0, <2>1 DEF Counted
<1>2. CASE EndStep \/ StoreStep
  <2>1. pc' = "idle" /\ memFresh' = TRUE /\ UNCHANGED world
    BY <1>2 DEF EndStep, StoreStep
  <2>2. QED
    BY <2>1
<1>3. CASE ObjectStep
  <2>1. /\ UNCHANGED <<mem, pc, world>> /\ Keeps(api, api') /\ Counted
        /\ memFresh' = memFresh \/ (memFresh' = FALSE /\ (faults' = faults + 1 \/ api'.deleting))
    BY <1>3 DEF ObjectStep
  <2>2. (~memFresh /\ ~api.deleting => faults >= 1)'
    BY <1>0, <2>1 DEF Counted, Keeps
  <2>3. QED
    BY <1>0, <2>1, <2>2 DEF Keeps, SameStep
<1>4. CASE LoadStep
  <2>1. /\ \/ mem' = cache /\ api' = api /\ memFresh' = cacheFresh
           \/ mem' = api' /\ memFresh' = TRUE
        /\ faults' = IF cacheFresh THEN faults ELSE faults + 1
        /\ UNCHANGED world
    BY <1>4 DEF LoadStep
  <2>2. QED
    BY <1>0, <2>1 DEF SameStep
<1>5. CASE SnapStep
  <2>1. UNCHANGED <<memFresh, world>> /\ memFresh /\ mem' = api'
    BY <1>5 DEF SnapStep
  <2>2. QED
    BY <2>1 DEF SameStep
<1>6. CASE WorkStep \/ AskStep
  <2>1. UNCHANGED <<api, memFresh, world>> /\ Counted /\ pc' # "load"
    BY <1>6 DEF WorkStep, AskStep, Forward, object
  <2>2. QED
    BY <1>0, <2>1 DEF Counted
<1>7. QED
  BY <1>1, <1>2, <1>3, <1>4, <1>5, <1>6 DEF KnownStep

\* The account of one budget.
Account(b) == Spent(b) + others + Owing <= b.limit - 1 + MaxAtOnce + faults

LEMMA AccountKept ==
  ASSUME NEW b, b.limit \in Nat, faults \in Nat, faults' \in Nat, others \in Nat, others' \in Nat,
         Spent(b) \in Nat, Spent(b)' \in Nat, Owing \in Nat, Owing' \in Nat, Account(b),
         NEW k \in {0, 1}, NEW n \in {0, 1},
         Spent(b)' <= Spent(b) + k, others' + n <= others, Owing' + faults + k <= Owing + faults' + n
  PROVE  Account(b)'
<1>1. PICK s \in Nat, s2 \in Nat, o \in Nat, o2 \in Nat, w \in Nat, w2 \in Nat, f \in Nat, f2 \in Nat :
        /\ s = Spent(b) /\ s2 = Spent(b)' /\ o = others /\ o2 = others'
        /\ w = Owing /\ w2 = Owing' /\ f = faults /\ f2 = faults'
  OBVIOUS
<1>2. s + o + w <= b.limit - 1 + MaxAtOnce + f
  BY <1>1 DEF Account
<1>3. s2 <= s + k /\ o2 + n <= o /\ w2 + f + k <= w + f2 + n
  BY <1>1
<1>4. s2 + o2 + w2 <= b.limit - 1 + MaxAtOnce + f2
  BY <1>2, <1>3, BudgetAssumption
<1>5. QED
  BY <1>1, <1>4, Zenon DEF Account

\* A run is let in.
LEMMA AccountOpened ==
  ASSUME NEW b, b.limit \in Nat, faults' \in Nat, others' \in Nat, Spent(b)' \in Nat, Owing' \in Nat,
         Spent(b)' <= b.limit - 1, others' < MaxAtOnce, Owing' <= 1 + faults'
  PROVE  Account(b)'
<1>1. PICK s2 \in Nat, o2 \in Nat, w2 \in Nat, f2 \in Nat :
        s2 = Spent(b)' /\ o2 = others' /\ w2 = Owing' /\ f2 = faults'
  OBVIOUS
<1>2. s2 <= b.limit - 1 /\ o2 < MaxAtOnce /\ w2 <= 1 + f2
  BY <1>1
<1>3. s2 + o2 + w2 <= b.limit - 1 + MaxAtOnce + f2
  BY <1>2, BudgetAssumption
<1>4. QED
  BY <1>1, <1>3, Zenon DEF Account

LEMMA SpendStep ==
  ASSUME TypeOK, FrameInv, SpendInv, TypeOK', KnownStep, [Next]_vars
  PROVE  SpendInv'
<1>0. /\ faults \in Nat /\ faults' \in Nat /\ world \in Worlds
      /\ entries \in Seq(Entry) /\ day \in Nat /\ others \in Nat /\ others < MaxAtOnce
      /\ world.healthy => healthy
      /\ pc = "load" /\ memFresh => SameStep(mem, api)
      /\ mem \in RunRecord
  BY DEF TypeOK, ObjectTypes, SpendInv
<1>1. /\ (~memFresh /\ ~api.deleting => faults >= 1)'
      /\ (pc = "load" /\ memFresh => SameStep(mem, api))'
      /\ UNCHANGED world
  BY SpendFrame
<1>2. Owing \in Nat /\ Owing' \in Nat
  BY OwingFacts DEF Owing
<1>3. Owing' <= 1 + faults'
  <2>1. Ahead' /\ Behind' => faults' >= 1
    BY <1>1 DEF Ahead, Behind, Unspent
  <2>2. QED
    BY <1>0, <2>1, OwingBegins
<1>4. ASSUME NEW b \in world.budgets, Binding(b) PROVE b.limit \in Nat /\ Account(b)
  BY <1>0, <1>4, BudgetAssumption DEF SpendInv, Account
<1>5. ASSUME others' \in Nat, others' < MaxAtOnce, healthy => healthy', entries' \in Seq(Entry), day' \in Nat,
             \A b \in world.budgets : Binding(b) => Account(b)'
      PROVE  SpendInv'
  <2>1. \A b \in world'.budgets : Binding(b)' => Account(b)'
    BY <1>1, <1>5 DEF Binding
  <2>2. world'.healthy => healthy'
    BY <1>0, <1>1, <1>5
  <2>3. QED
    BY <1>1, <1>5, <2>1, <2>2 DEF SpendInv, Account
<1>6. ASSUME entries' \in {entries, <<>>}, day' \in {day, day + 1}, others' = others, healthy => healthy',
             Owing' + faults <= Owing + faults'
      PROVE  SpendInv'
  <2>1. ASSUME NEW b \in world.budgets, Binding(b) PROVE Account(b)'
    <3>1. Spent(b) \in Nat /\ Spent(b)' \in Nat /\ Spent(b)' <= Spent(b)
      BY <1>1, <1>6, SpentFacts
    <3>2. PICK k \in {0, 1} : k = 0
      OBVIOUS
    <3>3. Spent(b)' <= Spent(b) + k /\ others' + k <= others /\ Owing' + faults + k <= Owing + faults' + k
      <4>1. Spent(b)' <= Spent(b) + k
        BY <3>1, <3>2
      <4>2. others' + k <= others
        BY <1>0, <1>6, <3>2
      <4>3. Owing' + faults + k <= Owing + faults' + k
        <5>1. PICK w \in Nat, w2 \in Nat, f \in Nat, f2 \in Nat : w = Owing /\ w2 = Owing' /\ f = faults /\ f2 = faults'
          BY <1>0, <1>2
        <5>2. w2 + f <= w + f2
          BY <1>6, <5>1
        <5>3. w2 + f + k <= w + f2 + k
          BY <3>2, <5>2
        <5>4. QED
          BY <5>1, <5>3
      <4>4. QED
        BY <4>1, <4>2, <4>3
    <3>4. others' \in Nat
      BY <1>0, <1>6
    <3>5. QED
      BY <1>0, <1>2, <1>4, <2>1, <3>1, <3>3, <3>4, AccountKept
  <2>2. entries' \in Seq(Entry) /\ day' \in Nat
    <3>1. <<>> \in Seq(Entry)
      OBVIOUS
    <3>2. entries' \in Seq(Entry)
      BY <1>0, <1>6, <3>1, Zenon
    <3>3. QED
      BY <1>0, <1>6, <3>2
  <2>3. QED
    BY <1>0, <1>5, <1>6, <2>1, <2>2
<1>7. CASE CalmStep
  <2>1. entries' \in {entries, <<>>} /\ day' \in {day, day + 1} /\ others' = others /\ (healthy => healthy')
    BY <1>7 DEF CalmStep
  <2>2. Forward /\ memFresh' = memFresh => (Ahead' => Ahead)
    BY <1>7 DEF CalmStep, Forward, Ahead
  <2>3. Owing' + faults <= Owing + faults'
    BY <1>0, <2>2, OwingStep, OwingNext
  <2>4. QED
    BY <1>6, <2>1, <2>3
<1>8. CASE Begin
  <2>1. /\ pc = "load" /\ pc' = "drive" /\ mem' = Initialized(mem) /\ UNCHANGED <<object, memFresh>> /\ Admitted
        /\ UNCHANGED money
    BY <1>8 DEF Begin, Loaded, Outside
  <2>2. UNCHANGED <<entries, day, others, healthy>> /\ UNCHANGED api
    BY <2>1 DEF money, object
  <2>3. Behind' = Behind
    BY <2>1, <2>2 DEF Behind, Unspent
  <2>4. CASE mem.phase # ""
    <3>1. mem' = mem /\ faults' = faults
      BY <2>1, <2>4 DEF Initialized, Admitted
    <3>2. Ahead' => Ahead
      BY <2>1, <3>1 DEF Ahead
    <3>3. Owing' + faults <= Owing + faults'
      BY <1>0, <2>3, <3>1, <3>2, OwingNext
    <3>4. QED
      BY <1>6, <2>2, <3>3
  <2>5. CASE mem.phase = "" /\ IsTeamRun /\ Over
    <3>1. faults' = faults + 1
      BY <2>1, <2>5 DEF Admitted, Fault
    <3>2. Owing' + faults <= Owing + faults'
      BY <1>0, <2>3, <3>1, OwingNext
    <3>3. QED
      BY <1>6, <2>2, <3>2
  <2>6. CASE mem.phase = "" /\ IsTeamRun /\ ~Over
    <3>1. ASSUME NEW b \in world.budgets, Binding(b) PROVE Account(b)'
      <4>1. Spent(b) <= b.limit - 1
        BY <2>6, <3>1, LetIn
      <4>2. Spent(b)' = Spent(b) /\ others' \in Nat /\ others' < MaxAtOnce
        BY <1>0, <1>1, <2>2 DEF Spent
      <4>3. Spent(b) \in Nat
        BY <1>1, <2>2, SpentFacts
      <4>4. QED
        BY <1>0, <1>2, <1>3, <1>4, <3>1, <4>1, <4>2, <4>3, AccountOpened
    <3>2. QED
      BY <1>0, <1>5, <2>2, <3>1
  <2>7. CASE ~IsTeamRun
    <3>1. \A b \in world.budgets : ~Binding(b)
      BY <2>7 DEF Binding, IsTeamRun
    <3>2. QED
      BY <1>0, <1>5, <2>2, <3>1
  <2>8. QED
    BY <2>4, <2>5, <2>6, <2>7
<1>9. CASE Collect
  <2>1. /\ pc = "drive" /\ mem.step = "Running" /\ UNCHANGED <<healthy, day, others>>
        /\ UNCHANGED <<object, memFresh>> /\ pc' = "finish"
        /\ \E st \in {"Succeeded", "Failed"} : mem' = [mem EXCEPT !.step = st]
        /\ \/ entries' = Append(entries, [team |-> world.team, day |-> day]) /\ faults' = faults
           \/ entries' = entries /\ (faults' = faults \/ faults' = faults + 1)
    BY <1>9 DEF Collect, Goes, recordStepSpend, Fault
  <2>2. mem.phase = "Running" /\ Ahead
    BY <2>1 DEF FrameInv, Ahead, Active
  <2>3. mem'.step \in {"Succeeded", "Failed"}
    BY <1>0, <2>1 DEF RunRecord
  <2>4. ~Ahead' /\ Behind' = Behind
    BY <2>1, <2>3 DEF Ahead, Active, Behind, Unspent, object
  <2>5. CASE entries' = entries
    <3>1. Owing' + faults <= Owing + faults'
      BY <1>0, <2>1, <2>4, <2>5, OwingNext
    <3>2. QED
      BY <1>6, <2>1, <2>5, <3>1
  <2>6. CASE entries' = Append(entries, [team |-> world.team, day |-> day]) /\ faults' = faults
    <3>1. Owing' + 1 = Owing
      BY <2>2, <2>4 DEF Owing
    <3>2. [team |-> world.team, day |-> day] \in Entry
      BY <1>0 DEF Entry
    <3>3. ASSUME NEW b \in world.budgets, Binding(b) PROVE Account(b)'
      <4>1. Spent(b) \in Nat /\ Spent(b)' \in Nat /\ Spent(b)' <= Spent(b) + 1
        BY <1>1, <2>1, <2>6, <3>2, SpentFacts
      <4>2. PICK k \in {0, 1}, n \in {0, 1} : k = 1 /\ n = 0
        OBVIOUS
      <4>3. others' \in Nat /\ others' + n <= others
        BY <1>0, <2>1, <4>2
      <4>4. Spent(b)' <= Spent(b) + k /\ Owing' + faults + k <= Owing + faults' + n
        BY <1>0, <1>2, <2>6, <3>1, <4>1, <4>2
      <4>5. QED
        BY <1>0, <1>2, <1>4, <3>3, <4>1, <4>3, <4>4, AccountKept
    <3>4. entries' \in Seq(Entry) /\ day' \in Nat
      BY <1>0, <2>1, <2>6, <3>2
    <3>5. QED
      BY <1>0, <1>5, <2>1, <3>3, <3>4
  <2>7. QED
    BY <2>1, <2>5, <2>6
<1>10. CASE OtherStarts
  <2>1. /\ others + 1 < MaxAtOnce /\ ~Over /\ others' = others + 1
        /\ UNCHANGED <<entries, healthy, day>>
    BY <1>10 DEF OtherStarts
  <2>2. ASSUME NEW b \in world.budgets, Binding(b) PROVE Account(b)'
    <3>1. Spent(b) <= b.limit - 1
      BY <2>1, <2>2, LetIn
    <3>2. Spent(b)' = Spent(b) /\ others' \in Nat /\ others' < MaxAtOnce
      BY <1>0, <1>1, <2>1 DEF Spent
    <3>3. Spent(b) \in Nat
      BY <1>1, <2>1, SpentFacts
    <3>4. QED
      BY <1>0, <1>2, <1>3, <1>4, <2>2, <3>1, <3>2, <3>3, AccountOpened
  <2>3. others' \in Nat /\ others' < MaxAtOnce
    BY <1>0, <2>1
  <2>4. QED
    BY <1>0, <1>5, <2>1, <2>2, <2>3
<1>11. CASE OtherSpends
  <2>1. /\ others > 0 /\ others' = others - 1 /\ UNCHANGED <<healthy, day, faults>>
        /\ entries' \in {entries, Append(entries, [team |-> world.team, day |-> day])}
        /\ UNCHANGED <<object, pass>>
    BY <1>11 DEF OtherSpends
  <2>2. Owing' = Owing
    BY <2>1 DEF Owing, Ahead, Behind, Unspent, object, pass
  <2>3. [team |-> world.team, day |-> day] \in Entry
    BY <1>0 DEF Entry
  <2>4. others' \in Nat /\ others' < MaxAtOnce
    BY <1>0, <2>1, BudgetAssumption
  <2>5. ASSUME NEW b \in world.budgets, Binding(b) PROVE Account(b)'
    <3>1. Spent(b) \in Nat /\ Spent(b)' \in Nat /\ Spent(b)' <= Spent(b) + 1
      BY <1>1, <2>1, <2>3, SpentFacts
    <3>2. PICK k \in {0, 1} : k = 1
      OBVIOUS
    <3>3. others' + k <= others
      BY <1>0, <2>1, <3>2
    <3>4. Spent(b)' <= Spent(b) + k /\ Owing' + faults + k <= Owing + faults' + k
      BY <1>0, <1>2, <2>1, <2>2, <3>1, <3>2
    <3>5. QED
      BY <1>0, <1>2, <1>4, <2>4, <2>5, <3>1, <3>3, <3>4, AccountKept
  <2>6. entries' \in Seq(Entry) /\ day' \in Nat
    BY <1>0, <2>1, <2>3
  <2>7. QED
    BY <1>0, <1>5, <2>1, <2>4, <2>5, <2>6
<1>12. QED
  BY <1>7, <1>8, <1>9, <1>10, <1>11, MoneyKinds

LEMMA SpendInitially == Init => SpendInv
<1> SUFFICES ASSUME Init PROVE SpendInv
  OBVIOUS
<1>0. world \in Worlds
  BY DEF Init
<1>1. /\ entries = <<>> /\ healthy = world.healthy /\ day = 0 /\ others = 0
      /\ api = NewRun /\ mem = NewRun /\ pc = "idle" /\ memFresh = TRUE /\ faults = 0
  BY DEF Init, ObjectInit
<1>2. Owing = 0
  <2>1. ~Ahead /\ ~Behind
    BY <1>1, NewRunFacts DEF Ahead, Behind, Active
  <2>2. QED
    BY <2>1 DEF Owing
<1>3. ASSUME NEW b \in world.budgets, Binding(b) PROVE Account(b)
  <2>1. b.limit \in Nat /\ b.limit > 0
    BY <1>0, <1>3, BudgetAssumption DEF Binding
  <2>2. Spent(b) = 0
    <3>1. PICK u \in Int : u = PeriodWindowStart(day, b.period)
      BY <1>1, WindowFacts
    <3>2. <<>> \in Seq(Entry)
      OBVIOUS
    <3>3. QED
      BY <1>1, <3>1, <3>2, TotalFacts DEF Spent
  <2>3. QED
    BY <1>1, <1>2, <2>1, <2>2, BudgetAssumption DEF Account
<1>4. entries \in Seq(Entry) /\ day \in Nat /\ others \in Nat /\ others < MaxAtOnce
  BY <1>1, BudgetAssumption
<1>5. (world.healthy => healthy) /\ memFresh /\ pc # "load"
  BY <1>1
<1>6. QED
  BY <1>3, <1>4, <1>5 DEF SpendInv, Account

\* However many runs of a team are admitted while others have not recorded
\* what they cost, however passes are lost and repeated and days go by, a team
\* overdraws a hard-stop budget by no more than the runs under way at once and
\* the faults there were (checkBudgets, recordStepSpend, the spend stores).
THEOREM OverdraftIsBounded == Spec => []SpendIsBounded
<1>1. ModesInv /\ SpendInv /\ [Next]_vars => SpendInv'
  <2> SUFFICES ASSUME ModesInv, SpendInv, [Next]_vars PROVE SpendInv'
    OBVIOUS
  <2>1. TypeOK /\ FrameInv
    BY DEF ModesInv
  <2>2. TypeOK' /\ KnownStep
    BY <2>1, EveryKind
  <2>3. QED
    BY <2>1, <2>2, SpendStep
<1>2. TypeOK /\ SpendInv => SpendIsBounded
  <2> SUFFICES ASSUME TypeOK, SpendInv PROVE SpendIsBounded
    OBVIOUS
  <2>1. ASSUME NEW b \in world.budgets, Binding(b) PROVE Spent(b) <= b.limit - 1 + MaxAtOnce + faults
    <3>1. b.limit \in Nat /\ faults \in Nat /\ MaxAtOnce \in Nat /\ others \in Nat
      BY BudgetAssumption DEF TypeOK, SpendInv
    <3>2. Spent(b) + others + Owing <= b.limit - 1 + MaxAtOnce + faults
      BY <2>1 DEF SpendInv
    <3>3. Spent(b) \in Nat /\ Owing \in Nat
      BY WindowFacts, FoundFacts, OwingFacts DEF Spent, SpendInv
    <3>4. QED
      BY <3>1, <3>2, <3>3
  <2>2. QED
    BY <2>1, Zenon DEF SpendIsBounded, Spent, Binding
<1>3. ModesInv => TypeOK
  BY DEF ModesInv
<1>4. QED
  BY <1>1, <1>2, <1>3, ModesInitially, ModesKept, SpendInitially, PTL DEF Spec
=============================================================================
