--------------------------- MODULE SwarmRunProofs ---------------------------
(***************************************************************************)
(* Proofs about the pipeline-mode controller, for every pipeline, number   *)
(* of tasks and number of faults: the stored status of a run is consistent *)
(* and final once it is terminal, whatever the cache, the user and the     *)
(* operator's crashes do, usage is recorded exactly as often as faults     *)
(* allow, no step is given more tasks than its loop, its attempts and the  *)
(* faults explain, and a run that ends in time leaves no task in the queue *)
(* but those of passes that were cut off.                                  *)
(*                                                                         *)
(* The controller works on copies of the run, stale ones included.  What   *)
(* is shown of the stored run is therefore shown of every copy: a copy is  *)
(* a former version, and the predicates below speak of the copy and of     *)
(* what only grows (the tasks that were issued, the usage recorded).       *)
(***************************************************************************)
EXTENDS SwarmRun, FiniteSetTheorems, TLAPS

LEMMA StepsFacts ==
  /\ Steps = 1 .. Len(Pipeline) /\ Len(Pipeline) \in Nat \ {0}
  /\ \A s \in Steps : Pipeline[s] \in StepSpec
BY ConstAssumption DEF Steps

LEMMA ConstFacts ==
  /\ MaxTasks \in Nat /\ TaskTokens \in Nat /\ Thinking \in Nat /\ MaxFaults \in Nat
  /\ NoTask = 0 /\ NoTask \in 0 .. MaxTasks
  /\ \A t \in 0 .. MaxTasks : t # NoTask => t \in TaskIds
BY ConstAssumption DEF NoTask, TaskIds

LEMMA StatusFields ==
  ASSUME NEW st \in StepStatus
  PROVE  st.attempts \in Nat /\ st.iter \in Nat /\ st.task \in 0 .. MaxTasks
BY DEF StepStatus

LEMMA PlusOne == \A n \in Nat : n + 1 \in Nat
OBVIOUS

LEMMA NextBelow == \A m, n \in Nat : m < n => m + 1 <= n /\ n # 0
OBVIOUS

LEMMA NotMore ==
  /\ \A n \in Nat : \A m : m = n => n <= m
  /\ \A i, n \in Nat : i + n + 1 <= i + n + 1 /\ i + n + 1 <= i + (n + 1) + 1
OBVIOUS

LEMMA OneMoreOnTop ==
  \A m, n \in Nat : /\ m + n + 1 <= (m + 1) + n + 0
                    /\ m + n + 1 <= m + (n + 1) + 0
OBVIOUS

-----------------------------------------------------------------------------
(* What the operations on a run do to one step.                            *)

LEMMA TimedOutFacts ==
  ASSUME NEW run \in RunRecord
  PROVE  /\ TimedOut(run) \in RunRecord
         /\ TimedOut(run).phase = "Failed"
         /\ TimedOut(run).exists = run.exists /\ TimedOut(run).deleting = run.deleting
         /\ TimedOut(run).finalizer = run.finalizer
         /\ \A s \in Steps : TimedOut(run).step[s] =
              IF run.step[s].phase \in {"Running", "Pending"}
              THEN [run.step[s] EXCEPT !.phase = "Failed", !.why = "other"]
              ELSE run.step[s]
<1>1. \A s \in Steps : [run.step[s] EXCEPT !.phase = "Failed", !.why = "other"] \in StepStatus
  <2>1. ASSUME NEW st \in StepStatus
        PROVE  [st EXCEPT !.phase = "Failed", !.why = "other"] \in StepStatus
    BY DEF StepStatus, StepPhase
  <2>2. \A s \in Steps : run.step[s] \in StepStatus
    BY DEF RunRecord
  <2>3. QED
    BY <2>1, <2>2
<1>2. QED
  BY <1>1 DEF TimedOut, RunRecord, RunPhase

LEMMA InitializeFacts ==
  ASSUME NEW run \in RunRecord
  PROVE  LET r == InitializeRunSteps(run)
         IN  /\ r \in RunRecord
             /\ r.phase = IF run.phase = "" THEN "Running" ELSE run.phase
             /\ r.exists = run.exists /\ r.deleting = run.deleting
             /\ r.finalizer = run.finalizer
             /\ \A s \in Steps : r.step[s] =
                  IF run.phase = "" THEN [AbsentStep EXCEPT !.phase = "Pending"]
                  ELSE run.step[s]
<1>1. [AbsentStep EXCEPT !.phase = "Pending"] \in StepStatus
  BY ConstFacts DEF AbsentStep, StepStatus, StepPhase
<1>2. QED
  BY <1>1 DEF InitializeRunSteps, RunRecord, RunPhase

\* One step of a run through collectResults, JSON parsing and loops.
OneCollected(run, s, invalid) ==
  LET st       == run.step[s]
      answered == [st EXCEPT !.out = taskOut[st.task],
                     !.tokens = TaskTokens, !.thinking = Thinking]
  IN IF s \notin Answered(run) THEN st
     ELSE IF s \notin AnsweredOk(run)
          THEN [st EXCEPT !.phase = "Failed", !.why = "other"]
     ELSE IF s \in invalid THEN ValidationFailed(st, s, answered)
     ELSE [answered EXCEPT !.phase = "Succeeded"]

LEMMA OneCollectedFacts ==
  ASSUME NEW run \in RunRecord, NEW s \in Steps, NEW invalid,
         taskOut \in [TaskIds -> Outputs \cup {""}]
  PROVE  LET st == run.step[s]
             c == OneCollected(run, s, invalid)
         IN  /\ c \in StepStatus
             /\ s \notin Answered(run) => c = st
             /\ s \in Answered(run) =>
                  /\ st.phase = "Running" /\ st.task # NoTask
                  /\ c.phase \in {"Failed", "Pending", "Succeeded"}
                  /\ c.phase = "Succeeded" =>
                       s \in AnsweredOk(run) /\ c.task = st.task /\ c.attempts = st.attempts
                  /\ c.phase = "Pending" =>
                       /\ c.task = NoTask /\ c.attempts = st.attempts + 1
                       /\ c.attempts < Pipeline[s].attempts
                  /\ c.phase = "Failed" =>
                       /\ c.task = st.task
                       /\ c.attempts = st.attempts \/ c.attempts = st.attempts + 1
                  /\ c.task \in {st.task, NoTask} /\ c.iter = st.iter
<1> DEFINE st == run.step[s]
           answered == [st EXCEPT !.out = taskOut[st.task],
                          !.tokens = TaskTokens, !.thinking = Thinking]
           c == OneCollected(run, s, invalid)
<1>1. st \in StepStatus
  BY DEF RunRecord
<1>2. CASE s \notin Answered(run)
  BY <1>1, <1>2 DEF OneCollected
<1>3. CASE s \in Answered(run) /\ s \notin AnsweredOk(run)
  <2>1. c = [st EXCEPT !.phase = "Failed", !.why = "other"]
    BY <1>3 DEF OneCollected
  <2>2. /\ c \in StepStatus /\ c.phase = "Failed" /\ c.task = st.task /\ c.iter = st.iter
        /\ c.attempts = st.attempts
    BY <1>1, <2>1 DEF StepStatus, StepPhase
  <2>3. st.phase = "Running" /\ st.task # NoTask
    BY <1>3 DEF Answered
  <2>4. QED
    BY <1>3, <2>2, <2>3
<1>4. CASE s \in AnsweredOk(run)
  <2>1. s \in Answered(run) /\ st.phase = "Running" /\ st.task # NoTask
    BY <1>4 DEF AnsweredOk, Answered
  <2>2. taskOut[st.task] \in Outputs \cup {""} /\ TaskTokens \in Nat /\ Thinking \in Nat
    BY <1>1, <2>1, ConstFacts DEF StepStatus
  <2>3. /\ answered \in StepStatus /\ answered.task = st.task
        /\ answered.attempts = st.attempts /\ answered.iter = st.iter
    BY <1>1, <2>2 DEF StepStatus
  <2> HIDE DEF answered
  <2>4. CASE s \notin invalid
    <3>1. c = [answered EXCEPT !.phase = "Succeeded"]
      BY <1>4, <2>1, <2>4 DEF OneCollected, answered
    <3>2. /\ c \in StepStatus /\ c.phase = "Succeeded" /\ c.task = st.task
          /\ c.attempts = st.attempts /\ c.iter = st.iter
      BY <2>3, <3>1 DEF StepStatus, StepPhase
    <3>3. QED
      BY <1>4, <2>1, <3>2
  <2>5. CASE s \in invalid
    <3>1. c = ValidationFailed(st, s, answered)
      BY <1>4, <2>1, <2>5 DEF OneCollected, answered
    <3>2. CASE st.attempts + 1 < Pipeline[s].attempts
      <4>1. c = [st EXCEPT !.phase = "Pending", !.task = NoTask, !.out = "",
                  !.json = "", !.tokens = 0, !.thinking = 0, !.attempts = @ + 1]
        BY <3>1, <3>2 DEF ValidationFailed
      <4>2. st.attempts + 1 \in Nat
        BY <1>1, StatusFields, PlusOne
      <4>3. /\ c \in StepStatus /\ c.phase = "Pending" /\ c.task = NoTask
            /\ c.attempts = st.attempts + 1 /\ c.iter = st.iter
        <5>1. ASSUME NEW n \in Nat
              PROVE  LET k == [st EXCEPT !.phase = "Pending", !.task = NoTask, !.out = "",
                                 !.json = "", !.tokens = 0, !.thinking = 0, !.attempts = n]
                     IN  /\ k \in StepStatus /\ k.phase = "Pending" /\ k.task = NoTask
                         /\ k.attempts = n /\ k.iter = st.iter
          <6>1. st \in StepStatus /\ NoTask \in 0 .. MaxTasks
            BY <1>1, ConstFacts
          <6>2. QED
            BY <5>1, <6>1 DEF StepStatus, StepPhase
        <5>2. QED
          BY <4>1, <4>2, <5>1
      <4>4. QED
        BY <1>4, <2>1, <3>2, <4>3
    <3>3. CASE ~(st.attempts + 1 < Pipeline[s].attempts)
      <4>1. c = [answered EXCEPT !.phase = "Failed", !.attempts = @ + 1, !.why = "other"]
        BY <3>1, <3>3 DEF ValidationFailed
      <4>2. answered.attempts + 1 \in Nat
        BY <2>3, StatusFields, PlusOne
      <4>3. /\ c \in StepStatus /\ c.phase = "Failed" /\ c.task = st.task /\ c.iter = st.iter
            /\ c.attempts = st.attempts + 1
        <5>1. ASSUME NEW n \in Nat
              PROVE  LET k == [answered EXCEPT !.phase = "Failed", !.attempts = n, !.why = "other"]
                     IN  /\ k \in StepStatus /\ k.phase = "Failed" /\ k.task = answered.task
                         /\ k.attempts = n /\ k.iter = answered.iter
          BY <2>3, <5>1 DEF StepStatus, StepPhase
        <5>2. QED
          BY <2>3, <4>1, <4>2, <5>1
      <4>4. QED
        BY <1>4, <2>1, <4>3
    <3>4. QED
      BY <3>2, <3>3
  <2>6. QED
    BY <2>4, <2>5
<1>5. QED
  BY <1>2, <1>3, <1>4

LEMMA CollectResultsFacts ==
  ASSUME NEW run \in RunRecord, NEW invalid,
         taskOut \in [TaskIds -> Outputs \cup {""}]
  PROVE  LET r == CollectResults(run, invalid)
         IN  /\ r \in RunRecord
             /\ r.phase = run.phase /\ r.exists = run.exists
             /\ r.deleting = run.deleting /\ r.finalizer = run.finalizer
             /\ \A s \in Steps : r.step[s] = OneCollected(run, s, invalid)
<1>1. CollectResults(run, invalid) =
        [run EXCEPT !.step = [s \in Steps |-> OneCollected(run, s, invalid)]]
  BY DEF CollectResults, OneCollected, RunRecord
<1>2. \A s \in Steps : OneCollected(run, s, invalid) \in StepStatus
  BY OneCollectedFacts
<1>3. [s \in Steps |-> OneCollected(run, s, invalid)] \in [Steps -> StepStatus]
  BY <1>2
<1>4. QED
  BY <1>1, <1>3 DEF RunRecord

LEMMA ParseFacts ==
  ASSUME NEW run \in RunRecord
  PROVE  LET r == ParseRunOutputJSON(run)
         IN  /\ r \in RunRecord
             /\ r.phase = run.phase /\ r.exists = run.exists
             /\ r.deleting = run.deleting /\ r.finalizer = run.finalizer
             /\ \A s \in Steps :
                  /\ r.step[s].phase = run.step[s].phase
                  /\ r.step[s].task = run.step[s].task
                  /\ r.step[s].out = run.step[s].out
                  /\ r.step[s].iter = run.step[s].iter
                  /\ r.step[s].attempts = run.step[s].attempts
<1> DEFINE one(s) == IF /\ Pipeline[s].schema /\ run.step[s].phase = "Succeeded"
                        /\ run.step[s].out # "prose" /\ run.step[s].json = ""
                     THEN [run.step[s] EXCEPT !.json = run.step[s].out] ELSE run.step[s]
<1>1. ParseRunOutputJSON(run) = [run EXCEPT !.step = [s \in Steps |-> one(s)]]
  BY DEF ParseRunOutputJSON
<1>2. ASSUME NEW s \in Steps
      PROVE  /\ one(s) \in StepStatus
             /\ one(s).phase = run.step[s].phase /\ one(s).task = run.step[s].task
             /\ one(s).out = run.step[s].out /\ one(s).iter = run.step[s].iter
             /\ one(s).attempts = run.step[s].attempts
  BY <1>2 DEF RunRecord, StepStatus
<1> HIDE DEF one
<1>3. QED
  BY <1>1, <1>2 DEF RunRecord

\* Does the loop of step s go round again?
Loops(run, tmpl, s) ==
  /\ run.step[s].phase = "Succeeded" /\ run.step[s].iter < Pipeline[s].loop
  /\ (IF Pipeline[s].loopReads = "data" THEN tmpl[s] ELSE run.step[s].out) = "again"

LEMMA LoopsFacts ==
  ASSUME NEW run \in RunRecord, NEW tmpl
  PROVE  /\ EvaluateRunLoops(run, tmpl) \in RunRecord
         /\ EvaluateRunLoops(run, tmpl).phase = run.phase
         /\ EvaluateRunLoops(run, tmpl).exists = run.exists
         /\ EvaluateRunLoops(run, tmpl).deleting = run.deleting
         /\ EvaluateRunLoops(run, tmpl).finalizer = run.finalizer
         /\ \A s \in Steps :
              /\ ~Loops(run, tmpl, s) => EvaluateRunLoops(run, tmpl).step[s] = run.step[s]
              /\ Loops(run, tmpl, s) =>
                   /\ EvaluateRunLoops(run, tmpl).step[s].phase = "Pending"
                   /\ EvaluateRunLoops(run, tmpl).step[s].task = NoTask
                   /\ EvaluateRunLoops(run, tmpl).step[s].iter = run.step[s].iter + 1
                   /\ EvaluateRunLoops(run, tmpl).step[s].attempts = run.step[s].attempts
<1> DEFINE next(s) == [run.step[s] EXCEPT !.phase = "Pending", !.task = NoTask, !.out = "",
                         !.json = "", !.iter = @ + 1]
           one(s) == IF Loops(run, tmpl, s) THEN next(s) ELSE run.step[s]
<1>1. EvaluateRunLoops(run, tmpl) = [run EXCEPT !.step = [s \in Steps |-> one(s)]]
  BY DEF EvaluateRunLoops, Loops
<1>2. ASSUME NEW s \in Steps
      PROVE  /\ next(s) \in StepStatus /\ next(s).phase = "Pending"
             /\ next(s).task = NoTask /\ next(s).iter = run.step[s].iter + 1
             /\ next(s).attempts = run.step[s].attempts
  <2>0. run.step[s] \in StepStatus
    BY <1>2 DEF RunRecord
  <2>1. run.step[s] \in StepStatus /\ run.step[s].iter + 1 \in Nat
    BY <2>0, StatusFields, PlusOne
  <2>2. ASSUME NEW n \in Nat
        PROVE  LET k == [run.step[s] EXCEPT !.phase = "Pending", !.task = NoTask, !.out = "",
                         !.json = "", !.iter = n]
               IN  /\ k \in StepStatus /\ k.phase = "Pending" /\ k.task = NoTask
                   /\ k.iter = n /\ k.attempts = run.step[s].attempts
    BY <2>1, <2>2, ConstFacts DEF StepStatus, StepPhase
  <2>3. QED
    BY <2>1, <2>2
<1> HIDE DEF next
<1>3. \A s \in Steps : one(s) \in StepStatus
  BY <1>2 DEF RunRecord
<1>4. QED
  BY <1>1, <1>2, <1>3 DEF RunRecord

\* What Collect makes of the run.
Collected(run, invalid) ==
  EvaluateRunLoops(ParseRunOutputJSON(CollectResults(run, invalid)),
                   TemplateData(CollectResults(run, invalid)))

\* A Succeeded step whose loop, if it reads the output, is over.
LoopOver(st, s) == ~(st.iter < Pipeline[s].loop /\ st.out = "again")

\* What EvaluateRunLoops makes of one step.
LEMMA LoopedStep ==
  ASSUME NEW run \in RunRecord, NEW tmpl, NEW s \in Steps
  PROVE  /\ ~Loops(run, tmpl, s) => EvaluateRunLoops(run, tmpl).step[s] = run.step[s]
         /\ Loops(run, tmpl, s) =>
              /\ EvaluateRunLoops(run, tmpl).step[s].phase = "Pending"
              /\ EvaluateRunLoops(run, tmpl).step[s].task = NoTask
              /\ EvaluateRunLoops(run, tmpl).step[s].iter = run.step[s].iter + 1
              /\ EvaluateRunLoops(run, tmpl).step[s].attempts = run.step[s].attempts
BY LoopsFacts, Zenon

\* The tasks a step has been given, as far as its status knows.
Rounds(st) == st.iter + st.attempts + (IF st.task = NoTask THEN 0 ELSE 1)

LEMMA CollectedFacts ==
  ASSUME NEW run \in RunRecord, NEW invalid,
         taskOut \in [TaskIds -> Outputs \cup {""}]
  PROVE  LET r == Collected(run, invalid)
         IN  /\ r \in RunRecord
             /\ r.phase = run.phase /\ r.exists = run.exists
             /\ r.deleting = run.deleting /\ r.finalizer = run.finalizer
             /\ TemplateData(CollectResults(run, invalid)) \in [Steps -> Outputs \cup {""}]
<1>1. CollectResults(run, invalid) \in RunRecord
  BY CollectResultsFacts
<1>2. ParseRunOutputJSON(CollectResults(run, invalid)) \in RunRecord
  BY <1>1, ParseFacts
<1>3. TemplateData(CollectResults(run, invalid)) \in [Steps -> Outputs \cup {""}]
  BY <1>1 DEF TemplateData, RunRecord, StepStatus
<1>4. /\ CollectResults(run, invalid).phase = run.phase
      /\ CollectResults(run, invalid).exists = run.exists
      /\ CollectResults(run, invalid).deleting = run.deleting
      /\ CollectResults(run, invalid).finalizer = run.finalizer
  BY CollectResultsFacts
<1> DEFINE p == ParseRunOutputJSON(CollectResults(run, invalid))
<1>5. /\ p.phase = run.phase /\ p.exists = run.exists
      /\ p.deleting = run.deleting /\ p.finalizer = run.finalizer
  BY <1>1, <1>4, ParseFacts
<1> DEFINE r == EvaluateRunLoops(p, TemplateData(CollectResults(run, invalid)))
<1>6. /\ r \in RunRecord /\ r.phase = p.phase /\ r.exists = p.exists
      /\ r.deleting = p.deleting /\ r.finalizer = p.finalizer
  BY <1>2, LoopsFacts
<1>7. Collected(run, invalid) = r
  BY DEF Collected
<1> HIDE DEF p, r
<1>8. QED
  BY <1>3, <1>5, <1>6, <1>7

LEMMA RoundsType ==
  ASSUME NEW st \in StepStatus
  PROVE  Rounds(st) \in Nat
<1>1. st.iter \in Nat /\ st.attempts \in Nat
  BY StatusFields
<1>2. QED
  BY <1>1 DEF Rounds

\* What Collect can make of the status st of step s of the run.
CollectedTo(run, s, st, c) ==
  /\ c.task \in {st.task, NoTask}
  /\ c.phase = "Running" =>
       s \notin Answered(run) /\ st.phase = "Running" /\ c.task = st.task
  /\ st.phase = "Running" /\ s \notin Answered(run) =>
       c.phase = "Running" /\ c.task = st.task
  /\ c.phase = "Succeeded" =>
       /\ st.phase = "Succeeded" \/ s \in AnsweredOk(run)
       /\ c.task = st.task
       /\ Pipeline[s].loopReads = "output" => LoopOver(c, s)
  /\ st.phase = "Skipped" <=> c.phase = "Skipped"
  /\ st.phase = "Succeeded" /\ LoopOver(st, s) /\ Pipeline[s].loopReads = "output" =>
       c.phase = "Succeeded"
  /\ st.phase = "Succeeded" /\ Pipeline[s].loop = 0 => c.phase = "Succeeded"
  /\ c.phase = "Failed" => st.phase \in {"Failed", "Running"}
  /\ c.phase \in {"absent", "WarmingUp"} => st.phase = c.phase /\ c.task = st.task
  /\ c.phase = "Pending" =>
       \/ c.task = NoTask
       \/ st.phase = "Pending" /\ c.task = st.task
  /\ st.iter <= Pipeline[s].loop => c.iter <= Pipeline[s].loop
  /\ c.phase # "Failed" =>
       c.attempts = st.attempts \/ c.attempts < Pipeline[s].attempts
  /\ st.phase = "Failed" => c.phase = "Failed"
  /\ (st.phase = "Succeeded" => st.task # NoTask) => Rounds(st) <= Rounds(c)

LEMMA CollectedStepFacts ==
  ASSUME NEW run \in RunRecord, NEW invalid, NEW s \in Steps,
         taskOut \in [TaskIds -> Outputs \cup {""}]
  PROVE  CollectedTo(run, s, run.step[s], Collected(run, invalid).step[s])
<1> DEFINE st == run.step[s]
           tm == TemplateData(CollectResults(run, invalid))
           o == OneCollected(run, s, invalid)
           parsed == ParseRunOutputJSON(CollectResults(run, invalid))
           p == parsed.step[s]
           c == Collected(run, invalid).step[s]
<1>0. CollectResults(run, invalid) \in RunRecord
  BY CollectResultsFacts
<1>1. CollectResults(run, invalid) \in RunRecord /\ parsed \in RunRecord
  BY <1>0, ParseFacts
<1>2. CollectResults(run, invalid).step[s] = o
  BY CollectResultsFacts
<1>3. /\ p.phase = o.phase /\ p.task = o.task /\ p.out = o.out
      /\ p.iter = o.iter /\ p.attempts = o.attempts
  <2> DEFINE q == CollectResults(run, invalid)
  <2>1. /\ ParseRunOutputJSON(q).step[s].phase = q.step[s].phase
        /\ ParseRunOutputJSON(q).step[s].task = q.step[s].task
        /\ ParseRunOutputJSON(q).step[s].out = q.step[s].out
        /\ ParseRunOutputJSON(q).step[s].iter = q.step[s].iter
        /\ ParseRunOutputJSON(q).step[s].attempts = q.step[s].attempts
    <3> HIDE DEF q
    <3>1. q \in RunRecord
      BY <1>1 DEF q
    <3>2. QED
      BY <3>1, ParseFacts
  <2>2. QED
    BY <1>2, <2>1
<1>4. /\ ~Loops(parsed, tm, s) => c = p
      /\ Loops(parsed, tm, s) =>
           /\ c.phase = "Pending" /\ c.task = NoTask
           /\ c.iter = p.iter + 1 /\ c.attempts = p.attempts
  <2>1. Collected(run, invalid) = EvaluateRunLoops(parsed, tm)
    BY DEF Collected
  <2> HIDE DEF parsed, tm
  <2>2. QED
    <3>1. /\ ~Loops(parsed, tm, s) => EvaluateRunLoops(parsed, tm).step[s] = parsed.step[s]
          /\ Loops(parsed, tm, s) =>
               /\ EvaluateRunLoops(parsed, tm).step[s].phase = "Pending"
               /\ EvaluateRunLoops(parsed, tm).step[s].task = NoTask
               /\ EvaluateRunLoops(parsed, tm).step[s].iter = parsed.step[s].iter + 1
               /\ EvaluateRunLoops(parsed, tm).step[s].attempts = parsed.step[s].attempts
      <4>1. parsed \in RunRecord
        BY <1>1
      <4>2. QED
        BY <4>1, LoopedStep
    <3>2. QED
      BY <2>1, <3>1 DEF p, c
<1>5. /\ o \in StepStatus /\ st \in StepStatus
      /\ s \notin Answered(run) => o = st
      /\ s \in Answered(run) =>
           /\ st.phase = "Running" /\ st.task # NoTask
           /\ o.phase \in {"Failed", "Pending", "Succeeded"}
           /\ o.phase = "Succeeded" =>
                s \in AnsweredOk(run) /\ o.task = st.task /\ o.attempts = st.attempts
           /\ o.phase = "Pending" =>
                /\ o.task = NoTask /\ o.attempts = st.attempts + 1
                /\ o.attempts < Pipeline[s].attempts
           /\ o.phase = "Failed" =>
                /\ o.task = st.task
                /\ o.attempts = st.attempts \/ o.attempts = st.attempts + 1
           /\ o.task \in {st.task, NoTask} /\ o.iter = st.iter
  BY OneCollectedFacts DEF RunRecord
<1>6. /\ Loops(parsed, tm, s) => p.phase = "Succeeded" /\ p.iter < Pipeline[s].loop
      /\ Pipeline[s].loopReads = "output" =>
           (Loops(parsed, tm, s) <=> p.phase = "Succeeded" /\ ~LoopOver(p, s))
  <2> HIDE DEF parsed, tm
  <2>1. QED
    BY DEF Loops, LoopOver, p
<1>7. /\ st.iter \in Nat /\ st.attempts \in Nat /\ o.iter \in Nat /\ o.attempts \in Nat
      /\ Pipeline[s].loop \in Nat
  BY <1>5, StatusFields, StepsFacts DEF StepSpec
<1> HIDE DEF st, o, p, c, tm, parsed
<1>8. ASSUME Loops(parsed, tm, s)
      PROVE  CollectedTo(run, s, st, c)
  <2>1. /\ o.phase = "Succeeded" /\ c.phase = "Pending" /\ c.task = NoTask
        /\ c.iter = o.iter + 1 /\ c.attempts = o.attempts /\ o.iter < Pipeline[s].loop
    BY <1>3, <1>4, <1>6, <1>8
  <2>2. o.attempts = st.attempts /\ o.iter = st.iter /\ o.task = st.task
    BY <1>5, <2>1
  <2>3. c.iter <= Pipeline[s].loop /\ Pipeline[s].loop # 0
    BY <1>7, <2>1, NextBelow
  <2>4. ~(st.phase = "Succeeded" /\ LoopOver(st, s) /\ Pipeline[s].loopReads = "output")
    <3> SUFFICES ASSUME st.phase = "Succeeded", LoopOver(st, s), Pipeline[s].loopReads = "output"
                 PROVE  FALSE
      OBVIOUS
    <3>1. o = st
      BY <1>5
    <3>2. ~LoopOver(p, s)
      BY <1>6, <1>8
    <3>3. QED
      BY <1>3, <3>1, <3>2 DEF LoopOver
  <2>5. /\ st.phase \in {"Succeeded", "Running"}
        /\ st.phase = "Running" => st.task # NoTask /\ s \in Answered(run)
    BY <1>5, <2>1
  <2>6. (st.phase = "Succeeded" => st.task # NoTask) => Rounds(st) <= Rounds(c)
    <3> SUFFICES ASSUME st.phase = "Succeeded" => st.task # NoTask
                 PROVE  Rounds(st) <= Rounds(c)
      OBVIOUS
    <3>1. Rounds(st) = st.iter + st.attempts + 1
      BY <2>5 DEF Rounds
    <3>2. Rounds(c) = (st.iter + 1) + st.attempts + 0
      BY <2>1, <2>2 DEF Rounds
    <3>3. QED
      BY <1>7, <3>1, <3>2, OneMoreOnTop
  <2>7. QED
    BY <2>1, <2>2, <2>3, <2>4, <2>5, <2>6 DEF CollectedTo
<1>9. ASSUME ~Loops(parsed, tm, s)
      PROVE  CollectedTo(run, s, st, c)
  <2>1. /\ c.phase = o.phase /\ c.task = o.task /\ c.out = o.out
        /\ c.iter = o.iter /\ c.attempts = o.attempts
    BY <1>3, <1>4, <1>9
  <2>2. c.phase = "Succeeded" /\ Pipeline[s].loopReads = "output" => LoopOver(c, s)
    BY <1>3, <1>4, <1>6, <1>9
  <2>3. CASE s \notin Answered(run)
    <3>1. o = st
      BY <1>5, <2>3
    <3>2. Rounds(st) <= Rounds(c)
      <4>1. Rounds(c) = Rounds(st)
        BY <2>1, <3>1 DEF Rounds
      <4>2. Rounds(st) \in Nat
        BY <1>5, RoundsType
      <4>3. QED
        BY <4>1, <4>2, NotMore
    <3>3. QED
      BY <2>1, <2>2, <2>3, <3>1, <3>2 DEF CollectedTo
  <2>4. CASE s \in Answered(run)
    <3>1. Rounds(st) <= Rounds(c)
      <4>0. Rounds(st) \in Nat
        BY <1>5, RoundsType
      <4>1. CASE o.phase = "Succeeded"
        <5>1. c.iter = st.iter /\ c.attempts = st.attempts /\ c.task = st.task
          BY <1>5, <2>1, <2>4, <4>1
        <5>2. Rounds(c) = Rounds(st)
          BY <5>1 DEF Rounds
        <5>3. QED
          BY <4>0, <5>2, NotMore
      <4>2. CASE o.phase = "Pending"
        <5>1. /\ c.iter = st.iter /\ c.attempts = st.attempts + 1
              /\ c.task = NoTask /\ st.task # NoTask
          BY <1>5, <2>1, <2>4, <4>2
        <5>2. QED
          <6>1. Rounds(c) = st.iter + (st.attempts + 1) + 0
            BY <5>1 DEF Rounds
          <6>2. Rounds(st) = st.iter + st.attempts + 1
            BY <5>1 DEF Rounds
          <6>3. QED
            BY <1>7, <6>1, <6>2, OneMoreOnTop
      <4>3. CASE o.phase = "Failed"
        <5>1. /\ c.iter = st.iter /\ c.task = st.task
              /\ c.attempts = st.attempts \/ c.attempts = st.attempts + 1
          BY <1>5, <2>1, <2>4, <4>3
        <5>2. st.task # NoTask
          BY <1>5, <2>4
        <5>3. Rounds(st) = st.iter + st.attempts + 1
          BY <5>2 DEF Rounds
        <5>4. Rounds(c) = st.iter + c.attempts + 1
          BY <5>1, <5>2 DEF Rounds
        <5>5. QED
          BY <1>7, <5>1, <5>3, <5>4, NotMore
      <4>4. QED
        BY <1>5, <2>4, <4>1, <4>2, <4>3
    <3>2. QED
      BY <1>5, <2>1, <2>2, <2>4, <3>1 DEF CollectedTo
  <2>5. QED
    BY <2>3, <2>4
<1>10. QED
  BY <1>8, <1>9 DEF st, c

-----------------------------------------------------------------------------
(* Types.                                                                  *)

LEMMA NewRunType == NewRun \in RunRecord /\ NoData \in [Steps -> Outputs \cup {""}]
<1>1. AbsentStep \in StepStatus
  BY ConstFacts DEF AbsentStep, StepStatus, StepPhase
<1>2. QED
  BY <1>1 DEF NewRun, RunRecord, RunPhase, NoData

LEMMA FinalizerTypes ==
  ASSUME NEW run \in RunRecord
  PROVE  /\ WithoutFinalizer(run) \in RunRecord
         /\ WithoutFinalizer(run).phase = run.phase
         /\ WithoutFinalizer(run).step = run.step
         /\ WithoutFinalizer(run).deleting = run.deleting
         /\ WithoutFinalizer(run).exists = ~run.deleting
         /\ WithoutFinalizer(run).finalizer = FALSE
         /\ [run EXCEPT !.finalizer = TRUE] \in RunRecord
         /\ [run EXCEPT !.deleting = TRUE, !.exists = run.finalizer] \in RunRecord
BY DEF WithoutFinalizer, RunRecord

LEMMA TypesInit == Init => TypeOK
<1> SUFFICES ASSUME Init PROVE TypeOK
  OBVIOUS
<1>1. 1 \in Steps /\ 1 \in 1 .. Len(Pipeline) + 1 /\ 0 \in 0 .. MaxTasks /\ 0 \in 0 .. MaxFaults
  BY StepsFacts, ConstFacts
<1>2. /\ ledger \in [TaskIds -> Queue!LedgerState]
      /\ taskStep \in [TaskIds -> Steps] /\ taskOut \in [TaskIds -> Outputs \cup {""}]
      /\ spent \in [TaskIds -> Nat]
  BY <1>1 DEF Init, Queue!Init, Queue!LedgerState
<1>3. QED
  BY <1>1, <1>2, NewRunType DEF Init, ObjectInit, TypeOK

LEMMA CancelTypes ==
  ASSUME TypeOK, NEW run, CancelRunTasks(run)
  PROVE  /\ ledger' \in [TaskIds -> Queue!LedgerState]
         /\ UNCHANGED <<issued, taskStep, taskOut, spent>>
BY DEF TypeOK, CancelRunTasks, Queue!Cancel, Queue!LedgerState

LEMMA RecordTypes ==
  ASSUME TypeOK, NEW run, NEW steps, RecordSpend(run, steps)
  PROVE  /\ spent' \in [TaskIds -> Nat]
         /\ \A t \in TaskIds :
              /\ spent[t] <= spent'[t] /\ spent'[t] <= spent[t] + 1
              /\ ~(\E s \in steps : run.step[s].task = t) => spent'[t] = spent[t]
              /\ (\E s \in steps : run.step[s].task = t) => spent'[t] > 0
<1>1. \A t \in TaskIds : spent[t] \in Nat /\ spent[t] + 1 \in Nat
  BY PlusOne DEF TypeOK
<1>2. \A t \in TaskIds :
        spent'[t] = IF \E s \in steps : run.step[s].task = t THEN spent[t] + 1 ELSE spent[t]
  BY DEF RecordSpend
<1>3. spent' \in [TaskIds -> Nat]
  BY <1>1 DEF RecordSpend
<1>4. QED
  BY <1>1, <1>2, <1>3

LEMMA FaultTypes ==
  ASSUME TypeOK
  PROVE  /\ Fault => faults' = faults + 1 /\ faults' \in 0 .. MaxFaults
         /\ faults \in Nat
<1>1. faults \in 0 .. MaxFaults /\ MaxFaults \in Nat
  BY ConstFacts DEF TypeOK
<1>2. ASSUME Fault
      PROVE  faults < MaxFaults /\ faults' = faults + 1
  BY <1>2 DEF Fault
<1>3. QED
  BY <1>1, <1>2

\* What becomes of a run at the end of a pass: phases change to Failed only.
Judged(run, new) ==
  /\ new \in RunRecord /\ new.phase # ""
  /\ new.exists = run.exists /\ new.deleting = run.deleting /\ new.finalizer = run.finalizer
  /\ \A s \in Steps :
       \/ new.step[s] = run.step[s]
       \/ /\ run.step[s].phase \in {"Running", "Pending"}
          /\ new.step[s] = [run.step[s] EXCEPT !.phase = "Failed", !.why = "other"]

\* The phase of a run agrees with its steps.
PhaseAgrees(run) ==
  /\ run.phase = "Succeeded" => \A s \in Steps : Complete(run.step[s])
  /\ run.phase = "Running" => \A s \in Steps : run.step[s].phase # "Failed"

LEMMA UpdatePhaseFacts ==
  ASSUME NEW run \in RunRecord, run.phase = "Running"
  PROVE  /\ Judged(run, UpdateRunPipelinePhase(run))
         /\ PhaseAgrees(UpdateRunPipelinePhase(run))
<1> DEFINE new == UpdateRunPipelinePhase(run)
<1>1. CASE late
  <2>1. new = TimedOut(run)
    BY <1>1 DEF UpdateRunPipelinePhase
  <2>2. QED
    BY <2>1, TimedOutFacts DEF Judged, PhaseAgrees
<1>2. CASE ~late /\ MaxTokens > 0 /\ SumRunStepTokens(run) > MaxTokens
  <2>1. new = [run EXCEPT !.phase = "Failed"]
    BY <1>2 DEF UpdateRunPipelinePhase
  <2>2. QED
    BY <2>1 DEF Judged, PhaseAgrees, RunRecord, RunPhase
<1>3. CASE ~late /\ ~(MaxTokens > 0 /\ SumRunStepTokens(run) > MaxTokens)
  <2>1. new = IF \E s \in Steps : run.step[s].phase = "Failed"
              THEN [run EXCEPT !.phase = "Failed"]
              ELSE IF \A s \in Steps : Complete(run.step[s])
              THEN [run EXCEPT !.phase = "Succeeded"] ELSE run
    BY <1>3 DEF UpdateRunPipelinePhase
  <2>2. QED
    BY <2>1 DEF Judged, PhaseAgrees, RunRecord, RunPhase
<1>4. QED
  BY <1>1, <1>2, <1>3

LEMMA CurrentFacts ==
  ASSUME TypeOK, at \in Steps
  PROVE  /\ Current \in StepStatus
         /\ Current.task = mem.step[at].task /\ Current.out = mem.step[at].out
         /\ Current.iter = mem.step[at].iter /\ Current.attempts = mem.step[at].attempts
         /\ Current.phase # "Failed" => mem.step[at].phase # "Failed"
         /\ Current = mem.step[at] \/ (mem.step[at].phase = "Running" /\ mem.step[at].task = NoTask)
         /\ Current # mem.step[at] => Current.phase = "Pending"
         /\ mem.step[at] \in StepStatus
<1>1. mem.step[at] \in StepStatus
  BY DEF TypeOK, RunRecord
<1>2. QED
  BY <1>1 DEF Current, Resumed, StepStatus, StepPhase

\* A step that submitPendingSteps is done with, without a task for it.
Passed(st) ==
  /\ st \in StepStatus /\ st.task = mem.step[at].task /\ st.out = mem.step[at].out
  /\ st.iter = mem.step[at].iter /\ st.attempts = mem.step[at].attempts
  /\ \/ st = Current
     \/ Eligible /\ st.phase \in {"Skipped", "Failed", "WarmingUp"}

PassStep ==
  /\ Submitting
  /\ \E st \in StepStatus : Passed(st) /\ Advance(st)
  /\ UNCHANGED <<tasks, faults>>

LEMMA PassStepFacts ==
  ASSUME TypeOK,
         NotEligible \/ SkipStep \/ FailInputs \/ FailLookup \/ WarmUp \/ FailTokens
  PROVE  PassStep
<1>1. at \in Steps /\ Submitting /\ UNCHANGED <<tasks, faults>>
  BY DEF NotEligible, SkipStep, FailInputs, FailLookup, WarmUp, FailTokens, FailStep, Submitting
<1>2. /\ Current \in StepStatus
      /\ Current.task = mem.step[at].task /\ Current.out = mem.step[at].out
      /\ Current.iter = mem.step[at].iter /\ Current.attempts = mem.step[at].attempts
  BY <1>1, CurrentFacts
<1>3. CASE NotEligible
  BY <1>1, <1>2, <1>3 DEF NotEligible, PassStep, Passed
<1>4. ASSUME NEW ph \in {"Skipped", "Failed", "WarmingUp"}, NEW w \in {"", "template", "other"},
             Eligible, Advance([Current EXCEPT !.phase = ph, !.why = w])
      PROVE  PassStep
  <2> DEFINE st == [Current EXCEPT !.phase = ph, !.why = w]
  <2>1. /\ st \in StepStatus /\ st.phase = ph /\ st.task = Current.task /\ st.out = Current.out
        /\ st.iter = Current.iter /\ st.attempts = Current.attempts
    BY <1>2, <1>4 DEF StepStatus, StepPhase
  <2> HIDE DEF st
  <2>2. Passed(st)
    BY <1>2, <1>4, <2>1 DEF Passed
  <2>3. Advance(st)
    BY <1>4 DEF st
  <2>4. QED
    BY <1>1, <2>1, <2>2, <2>3 DEF PassStep
<1>5. /\ Current.why \in {"", "template", "other"}
      /\ \A ph : [Current EXCEPT !.phase = ph] =
                 [Current EXCEPT !.phase = ph, !.why = Current.why]
  BY <1>2 DEF StepStatus
<1>6. CASE SkipStep
  BY <1>4, <1>5, <1>6 DEF SkipStep
<1>7. CASE WarmUp
  BY <1>4, <1>5, <1>7 DEF WarmUp
<1>8. CASE FailInputs
  BY <1>4, <1>8 DEF FailInputs, FailStep
<1>9. CASE FailLookup
  BY <1>4, <1>9 DEF FailLookup, FailStep
<1>10. CASE FailTokens
  BY <1>4, <1>10 DEF FailTokens, FailStep
<1>11. QED
  BY <1>3, <1>6, <1>7, <1>8, <1>9, <1>10

LEMMA AdvanceFacts ==
  ASSUME TypeOK, Submitting, NEW st \in StepStatus, Advance(st)
  PROVE  /\ mem' \in RunRecord /\ mem'.step[at] = st
         /\ \A s \in Steps : s # at => mem'.step[s] = mem.step[s]
         /\ mem'.phase = mem.phase /\ mem'.exists = mem.exists
         /\ mem'.deleting = mem.deleting /\ mem'.finalizer = mem.finalizer
         /\ at \in Steps /\ at' = at + 1 /\ at' \in 1 .. Len(Pipeline) + 1
         /\ pc = "submit" /\ pc' = "submit"
<1>1. at \in Steps /\ pc = "submit" /\ pc' = pc /\ at' = at + 1
  BY DEF Submitting, Advance
<1>2. at' \in 1 .. Len(Pipeline) + 1
  BY <1>1, StepsFacts
<1>3. mem \in RunRecord /\ mem' = [mem EXCEPT !.step[at] = st]
  BY DEF TypeOK, Advance
<1>4. QED
  BY <1>1, <1>2, <1>3 DEF RunRecord

-----------------------------------------------------------------------------
(* The steps of the system by what they do to the copies of the run.       *)

PassOver ==
  /\ pc' = "idle" /\ mem' = NewRun /\ memFresh' = TRUE
  /\ at' = 1 \/ (pc \in {"idle", "load"} /\ at' = at)
  /\ UNCHANGED <<issued, taskStep, taskOut>>

\* The pass ends at once: the run is gone, or going.
GoneStep ==
  /\ PassOver /\ pc = "idle" /\ spent' = spent
  /\ (faults' = faults \/ faults' = faults + 1)
  /\ \/ UNCHANGED object
     \/ cache.deleting /\ api.exists /\ Store(WithoutFinalizer(api))

ReleaseStep ==
  /\ PassOver /\ pc = "load" /\ Terminal(mem.phase) /\ UNCHANGED <<spent, faults>>
  /\ \/ UNCHANGED object
     \/ Store(WithoutFinalizer(api))

\* The pass is lost to an error, a conflict or a crash.
LoseStep ==
  /\ PassOver /\ pc # "idle"
  /\ \/ UNCHANGED object
     \/ api' = api /\ cache' = api /\ cacheFresh' = TRUE
  /\ \/ faults' = faults + 1 /\ spent' = spent
     \/ faults' = faults /\ spent' = spent /\ ~memFresh /\ pc = "persist"
     \/ /\ faults' = faults + 1 /\ pc = "load" /\ mem.phase = "Running"
        /\ \E done \in SUBSET AnsweredOk(mem) : RecordSpend(mem, done)

LoadStep ==
  /\ pc = "idle" /\ pc' = "load" /\ ~cache.deleting
  /\ \/ cacheFresh /\ faults' = faults
     \/ ~cacheFresh /\ faults' = faults + 1
  /\ \/ /\ cache.finalizer /\ mem' = cache /\ memFresh' = cacheFresh
        /\ UNCHANGED object
     \/ /\ Store([api EXCEPT !.finalizer = TRUE])
        /\ mem' = api' /\ memFresh' = TRUE
  /\ UNCHANGED <<at, issued, taskStep, taskOut, spent>>

CollectStep ==
  /\ pc = "load" /\ pc' = "submit" /\ at' = 1
  /\ mem.phase \in {"", "Running"}
  /\ \E invalid : mem' = Collected(InitializeRunSteps(mem), invalid)
  /\ LET ok == AnsweredOk(InitializeRunSteps(mem))
     IN \/ RecordSpend(InitializeRunSteps(mem), ok) /\ faults' = faults
        \/ /\ faults' = faults + 1
           /\ \E s \in ok : RecordSpend(InitializeRunSteps(mem), ok \ {s})
  /\ UNCHANGED <<object, memFresh, ledger, issued, taskStep, taskOut>>

\* The run is given its phase: rejected, timed out, or at the end of a pass.
JudgeStep ==
  /\ pc' = "persist" /\ pc \in {"load", "submit"}
  /\ pc = "load" => ~Terminal(mem.phase)
  /\ Judged(mem, mem') /\ PhaseAgrees(mem')
  /\ UNCHANGED <<object, memFresh, at, issued, taskStep, taskOut, spent, faults>>

PersistStep ==
  /\ pc = "persist" /\ memFresh /\ Store(mem)
  /\ PassOver /\ UNCHANGED <<spent, faults>>

\* The cache, the user, time and the agents.
OutsideStep ==
  /\ UNCHANGED <<mem, pc, at, issued, taskStep, spent>>
  /\ \/ /\ api' = api /\ faults' = faults /\ memFresh' = memFresh
        /\ \/ UNCHANGED object
           \/ cache' = api /\ cacheFresh' = TRUE
     \/ /\ api' = api /\ cache' = cache /\ faults' = faults + 1
        /\ cacheFresh' = FALSE /\ memFresh' = FALSE
     \/ /\ ~api.deleting /\ cache' = cache /\ faults' = faults
        /\ api' = [api EXCEPT !.deleting = TRUE, !.exists = api.finalizer]
        /\ cacheFresh' = FALSE /\ memFresh' = FALSE

LEMMA ClassifiedStart ==
  ASSUME TypeOK, Start
  PROVE  GoneStep \/ LoadStep
<1>1. pc = "idle" /\ ((cacheFresh /\ faults' = faults) \/ (~cacheFresh /\ faults' = faults + 1))
  BY FaultTypes DEF Start, ReconcileGone, GetNotFound, ReconcileDeleting, FinalizeDeletion,
     LoadRun, EnsureFinalizer, Get
<1>2. CASE ReconcileGone
  BY <1>1, <1>2 DEF ReconcileGone, GetNotFound, PassEnds, PassOver, GoneStep, tasks, object, Untouched
<1>3. CASE ReconcileDeleting
  <2>1. UNCHANGED <<issued, taskStep, taskOut, spent, at>> /\ FinalizeDeletion
    BY <1>3 DEF ReconcileDeleting, CancelRunTasks, tasks
  <2>2. PassOver
    BY <1>1, <2>1 DEF FinalizeDeletion, PassEnds, PassOver
  <2>3. cache.deleting /\ (UNCHANGED object \/ (api.exists /\ Store(WithoutFinalizer(api))))
    BY <2>1 DEF FinalizeDeletion, Untouched, object
  <2>4. QED
    BY <1>1, <2>1, <2>2, <2>3 DEF GoneStep
<1>4. CASE LoadRun
  <2>1. UNCHANGED <<at, issued, taskStep, taskOut, spent>> /\ EnsureFinalizer
    BY <1>4 DEF LoadRun, tasks
  <2>2. CASE PassEnds(TRUE) /\ Untouched
    BY <1>1, <2>1, <2>2 DEF PassEnds, PassOver, GoneStep, object, Untouched
  <2>3. CASE /\ cache.finalizer
             /\ mem' = cache /\ memFresh' = cacheFresh /\ pc' = "load" /\ Untouched
    BY <1>1, <2>1, <2>3 DEF EnsureFinalizer, LoadStep, object, Untouched
  <2>4. CASE /\ Store([api EXCEPT !.finalizer = TRUE])
             /\ mem' = api' /\ memFresh' = TRUE /\ pc' = "load"
    BY <1>1, <2>1, <2>4 DEF EnsureFinalizer, LoadStep
  <2>5. QED
    BY <2>1, <2>2, <2>3, <2>4 DEF EnsureFinalizer
<1>5. QED
  BY <1>2, <1>3, <1>4 DEF Start

LEMMA ClassifiedLoad ==
  ASSUME TypeOK, Load
  PROVE  ReleaseStep \/ LoseStep \/ CollectStep \/ JudgeStep
<1>1. CASE ReleaseTerminal
  BY <1>1 DEF ReleaseTerminal, RemoveFinalizer, PassEnds, PassOver, ReleaseStep, tasks, object,
     Untouched
<1>2. CASE Reject
  <2>1. mem \in RunRecord /\ mem' = [mem EXCEPT !.phase = "Failed"]
    BY <1>2 DEF TypeOK, Reject
  <2>2. Judged(mem, mem') /\ PhaseAgrees(mem')
    BY <2>1 DEF Judged, PhaseAgrees, RunRecord, RunPhase
  <2>3. QED
    BY <1>2, <2>2 DEF Reject, JudgeStep, Terminal, tasks
<1>3. CASE EnforceRunTimeout
  <2>1. mem \in RunRecord /\ mem' = TimedOut(mem)
    BY <1>3 DEF TypeOK, EnforceRunTimeout
  <2>2. Judged(mem, mem') /\ PhaseAgrees(mem')
    BY <2>1, TimedOutFacts DEF Judged, PhaseAgrees
  <2>3. QED
    BY <1>3, <2>2 DEF EnforceRunTimeout, CancelRunTasks, JudgeStep, Terminal
<1>4. CASE Collect
  <2> DEFINE run == InitializeRunSteps(mem)
  <2>1. /\ \E invalid : mem' = Collected(run, invalid)
        /\ \/ RecordSpend(run, AnsweredOk(run)) /\ UNCHANGED faults
           \/ Fault /\ \E s \in AnsweredOk(run) : RecordSpend(run, AnsweredOk(run) \ {s})
    BY <1>4 DEF Collect, Collected
  <2>2. \/ RecordSpend(run, AnsweredOk(run)) /\ faults' = faults
        \/ faults' = faults + 1 /\ \E s \in AnsweredOk(run) : RecordSpend(run, AnsweredOk(run) \ {s})
    BY <2>1, FaultTypes
  <2> HIDE DEF run
  <2>3. QED
    BY <1>4, <2>1, <2>2 DEF Collect, CollectStep, run
<1>5. CASE CollectError
  BY <1>5, FaultTypes DEF CollectError, EndPass, PassEnds, PassOver, LoseStep
<1>6. QED
  BY <1>1, <1>2, <1>3, <1>4, <1>5 DEF Load

LEMMA ClassifiedRest ==
  ASSUME TypeOK, SubmitPendingSteps \/ Finish \/ Persist \/ Conflict
                 \/ OperatorRestart, pc = "submit" => mem.phase = "Running"
  PROVE  PassStep \/ SubmitStep \/ LoseStep \/ JudgeStep \/ PersistStep
<1>1. CASE NotEligible \/ SkipStep \/ FailInputs \/ FailLookup \/ WarmUp \/ FailTokens
  BY <1>1, PassStepFacts
<1>2. CASE SubmitError
  BY <1>2, FaultTypes DEF SubmitError, EndPass, PassEnds, PassOver, LoseStep, tasks
<1>3. CASE Finish
  <2>1. mem \in RunRecord /\ mem' = UpdateRunPipelinePhase(mem) /\ pc = "submit" /\ mem.phase = "Running"
    BY <1>3 DEF TypeOK, Finish
  <2>2. Judged(mem, mem') /\ PhaseAgrees(mem')
    BY <2>1, UpdatePhaseFacts
  <2>3. UNCHANGED <<issued, taskStep, taskOut, spent>>
    BY <1>3 DEF Finish, CancelRunTasks, tasks
  <2>4. QED
    BY <1>3, <2>2, <2>3 DEF Finish, JudgeStep
<1>4. CASE Persist
  BY <1>4 DEF Persist, UpdateStatus, PassEnds, PassOver, PersistStep, tasks
<1>5. CASE Conflict
  BY <1>5 DEF Conflict, UpdateConflict, PassEnds, PassOver, LoseStep, tasks, Untouched, object
<1>6. CASE OperatorRestart
  BY <1>6, FaultTypes DEF OperatorRestart, Restart, PassEnds, PassOver, LoseStep, tasks
<1>7. QED
  BY <1>1, <1>2, <1>3, <1>4, <1>5, <1>6 DEF SubmitPendingSteps

LEMMA ClassifiedOutside ==
  ASSUME TypeOK,
         \/ CacheSync \/ UserEdit \/ UserDelete \/ DeadlinePasses
         \/ \E s \in Steps : AgentReady(s)
         \/ \E t \in TaskIds, a \in Queue!Answer, out \in Outputs : Answer(t, a, out)
  PROVE  OutsideStep
<1>1. CASE CacheSync
  BY <1>1 DEF CacheSync, Watch, Around, OutsideStep, tasks
<1>2. CASE UserEdit
  BY <1>2, FaultTypes DEF UserEdit, Edit, Around, OutsideStep, tasks
<1>3. CASE UserDelete
  BY <1>3 DEF UserDelete, Delete, Around, OutsideStep, tasks
<1>4. CASE DeadlinePasses
  BY <1>4 DEF DeadlinePasses, OutsideStep, tasks, pass, object
<1>5. CASE \E s \in Steps : AgentReady(s)
  BY <1>5 DEF AgentReady, OutsideStep, tasks, pass, object
<1>6. CASE \E t \in TaskIds, a \in Queue!Answer, out \in Outputs : Answer(t, a, out)
  BY <1>6 DEF Answer, OutsideStep, pass, object
<1>7. QED
  BY <1>1, <1>2, <1>3, <1>4, <1>5, <1>6

RunStep ==
  \/ GoneStep \/ ReleaseStep \/ LoseStep \/ LoadStep \/ CollectStep \/ PassStep
  \/ SubmitStep \/ JudgeStep \/ PersistStep \/ OutsideStep

\* Between Collect and Finish the run is Running.
SubmitsRunning == pc = "submit" => mem.phase = "Running"

LEMMA Classified ==
  ASSUME TypeOK, SubmitsRunning, Next
  PROVE  RunStep
BY ClassifiedStart, ClassifiedLoad, ClassifiedRest, ClassifiedOutside
   DEF Next, Reconcile, Environment, RunStep, SubmitsRunning

\* The part of TypeOK that the classes above decide.
CopiesOK ==
  /\ api \in RunRecord /\ cache \in RunRecord /\ mem \in RunRecord
  /\ cacheFresh \in BOOLEAN /\ memFresh \in BOOLEAN
  /\ pc \in {"idle", "load", "submit", "finish", "persist"}
  /\ at \in 1 .. Len(Pipeline) + 1
  /\ issued \in 0 .. MaxTasks
  /\ taskStep \in [TaskIds -> Steps]
  /\ spent \in [TaskIds -> Nat]
  /\ faults \in Nat

LEMMA StoreTypes ==
  ASSUME CopiesOK, NEW run \in RunRecord, Store(run)
  PROVE  api' = run /\ cache' = cache /\ cacheFresh' \in BOOLEAN /\ (cacheFresh' => cacheFresh /\ run = api)
BY DEF CopiesOK, Store

LEMMA SubmitFacts ==
  ASSUME TypeOK, SubmitStep
  PROVE  /\ Submitting /\ Eligible /\ at \in Steps
         /\ issued + 1 \in TaskIds /\ issued' = issued + 1 /\ issued \in Nat
         /\ \E st \in StepStatus :
              /\ Advance(st) /\ st.phase = "Running" /\ st.task = issued + 1
              /\ st.iter = mem.step[at].iter /\ st.attempts = mem.step[at].attempts
         /\ taskStep' \in [TaskIds -> Steps] /\ taskStep'[issued + 1] = at
         /\ \A t \in TaskIds : t # issued + 1 => taskStep'[t] = taskStep[t]
         /\ UNCHANGED <<spent, taskOut>>
         /\ faults' = faults \/ faults' = faults + 1
<1>1. issued < MaxTasks /\ issued' = issued + 1 /\ at \in Steps /\ Submitting /\ Eligible
  BY DEF SubmitStep, Submitting
<1>2. issued \in 0 .. MaxTasks
  BY DEF TypeOK
<1>3. issued \in Nat /\ issued + 1 \in TaskIds /\ issued + 1 \in 0 .. MaxTasks
  BY <1>1, <1>2, ConstFacts DEF TaskIds
<1> DEFINE st == [Current EXCEPT !.phase = "Running", !.task = issued + 1]
<1>4. /\ st \in StepStatus /\ st.phase = "Running" /\ st.task = issued + 1
      /\ st.iter = Current.iter /\ st.attempts = Current.attempts
  BY <1>1, <1>3, CurrentFacts DEF StepStatus, StepPhase
<1>5. Current.iter = mem.step[at].iter /\ Current.attempts = mem.step[at].attempts
  BY <1>1, CurrentFacts
<1>6. Advance(st)
  BY DEF SubmitStep
<1> HIDE DEF st
<1>7. /\ taskStep' \in [TaskIds -> Steps] /\ taskStep'[issued + 1] = at
      /\ \A t \in TaskIds : t # issued + 1 => taskStep'[t] = taskStep[t]
  <2>1. taskStep \in [TaskIds -> Steps] /\ taskStep' = [taskStep EXCEPT ![issued + 1] = at]
    BY DEF TypeOK, SubmitStep
  <2>2. QED
    BY <1>1, <1>3, <2>1
<1>8. UNCHANGED <<spent, taskOut>> /\ (faults' = faults \/ faults' = faults + 1)
  BY FaultTypes DEF SubmitStep
<1>9. QED
  BY <1>1, <1>3, <1>4, <1>5, <1>6, <1>7, <1>8

LEMMA CollectFacts ==
  ASSUME TypeOK, CollectStep
  PROVE  LET run == InitializeRunSteps(mem)
         IN  /\ run \in RunRecord /\ run.phase = "Running"
             /\ mem' \in RunRecord /\ mem'.phase = "Running" /\ mem'.exists = mem.exists
             /\ mem'.deleting = mem.deleting /\ mem'.finalizer = mem.finalizer
             /\ taskOut \in [TaskIds -> Outputs \cup {""}]
             /\ spent' \in [TaskIds -> Nat]
             /\ \A s \in Steps :
                  run.step[s] = IF mem.phase = "" THEN [AbsentStep EXCEPT !.phase = "Pending"]
                                ELSE mem.step[s]
<1> DEFINE run == InitializeRunSteps(mem)
<1>1. /\ mem \in RunRecord /\ mem.phase \in {"", "Running"}
      /\ taskOut \in [TaskIds -> Outputs \cup {""}]
  BY DEF TypeOK, CollectStep
<1>2. /\ run \in RunRecord /\ run.phase = "Running" /\ run.exists = mem.exists
      /\ run.deleting = mem.deleting /\ run.finalizer = mem.finalizer
      /\ \A s \in Steps :
           run.step[s] = IF mem.phase = "" THEN [AbsentStep EXCEPT !.phase = "Pending"]
                         ELSE mem.step[s]
  BY <1>1, InitializeFacts
<1>3. PICK invalid : mem' = Collected(run, invalid)
  BY DEF CollectStep
<1>4. spent' \in [TaskIds -> Nat]
  BY RecordTypes DEF CollectStep
<1> HIDE DEF run
<1>5. /\ Collected(run, invalid) \in RunRecord /\ Collected(run, invalid).phase = run.phase
      /\ Collected(run, invalid).exists = run.exists
      /\ Collected(run, invalid).deleting = run.deleting
      /\ Collected(run, invalid).finalizer = run.finalizer
  BY <1>1, <1>2, CollectedFacts
<1>6. QED
  BY <1>1, <1>2, <1>3, <1>4, <1>5 DEF run

LEMMA CopiesStep ==
  ASSUME TypeOK, RunStep
  PROVE  CopiesOK'
<1>0. CopiesOK /\ faults + 1 \in Nat
  BY FaultTypes, PlusOne DEF TypeOK, CopiesOK
<1>1. 1 \in 1 .. Len(Pipeline) + 1
  BY StepsFacts
<1>2. CASE GoneStep
  <2>1. api \in RunRecord /\ WithoutFinalizer(api) \in RunRecord
    BY <1>0, FinalizerTypes DEF CopiesOK
  <2>2. api' \in RunRecord /\ cache' = cache /\ cacheFresh' \in BOOLEAN
    BY <1>0, <1>2, <2>1, StoreTypes DEF GoneStep, CopiesOK, object
  <2>3. PassOver /\ spent' = spent /\ faults' \in Nat
    BY <1>0, <1>2 DEF GoneStep, CopiesOK
  <2>4. QED
    BY <1>0, <1>1, <2>2, <2>3, NewRunType DEF PassOver, CopiesOK
<1>3. CASE ReleaseStep
  <2>1. api \in RunRecord /\ WithoutFinalizer(api) \in RunRecord
    BY <1>0, FinalizerTypes DEF CopiesOK
  <2>2. api' \in RunRecord /\ cache' = cache /\ cacheFresh' \in BOOLEAN
    BY <1>0, <1>3, <2>1, StoreTypes DEF ReleaseStep, CopiesOK, object
  <2>3. PassOver /\ spent' = spent /\ faults' \in Nat
    BY <1>0, <1>3 DEF ReleaseStep, CopiesOK
  <2>4. QED
    BY <1>0, <1>1, <2>2, <2>3, NewRunType DEF PassOver, CopiesOK
<1>4. CASE LoseStep
  <2>1. spent' \in [TaskIds -> Nat]
    BY <1>0, <1>4, RecordTypes DEF LoseStep, CopiesOK
  <2>2. QED
    BY <1>0, <1>1, <1>4, <2>1, NewRunType DEF LoseStep, PassOver, CopiesOK, object
<1>5. CASE LoadStep
  <2>1. api \in RunRecord /\ [api EXCEPT !.finalizer = TRUE] \in RunRecord
    BY <1>0, FinalizerTypes DEF CopiesOK
  <2>2. /\ api' \in RunRecord /\ cache' = cache /\ cacheFresh' \in BOOLEAN
        /\ mem' \in RunRecord /\ memFresh' \in BOOLEAN
    BY <1>0, <1>5, <2>1, StoreTypes DEF LoadStep, CopiesOK, object
  <2>3. QED
    BY <1>0, <1>5, <2>2 DEF LoadStep, CopiesOK
<1>6. CASE CollectStep
  <2>1. mem' \in RunRecord /\ spent' \in [TaskIds -> Nat]
    BY <1>6, CollectFacts
  <2>2. QED
    BY <1>0, <1>1, <1>6, <2>1 DEF CollectStep, CopiesOK, object
<1>7. CASE PassStep
  <2>1. PICK st \in StepStatus : Advance(st)
    BY <1>7 DEF PassStep
  <2>2. mem' \in RunRecord /\ at' \in 1 .. Len(Pipeline) + 1 /\ pc' = "submit"
    BY <1>7, <2>1, AdvanceFacts DEF PassStep
  <2>3. QED
    BY <1>0, <1>7, <2>2 DEF PassStep, Submitting, CopiesOK, object, tasks
<1>8. CASE SubmitStep
  <2>1. PICK st \in StepStatus : Advance(st)
    BY <1>8, SubmitFacts
  <2>2. /\ issued' \in 0 .. MaxTasks /\ taskStep' \in [TaskIds -> Steps] /\ faults' \in Nat
        /\ Submitting /\ spent' = spent
    BY <1>0, <1>8, SubmitFacts, ConstFacts DEF TaskIds, CopiesOK
  <2>3. mem' \in RunRecord /\ at' \in 1 .. Len(Pipeline) + 1 /\ pc' = "submit"
    BY <2>1, <2>2, AdvanceFacts
  <2>4. QED
    BY <1>0, <2>2, <2>3 DEF Submitting, CopiesOK, object
<1>9. CASE JudgeStep
  BY <1>0, <1>9 DEF JudgeStep, Judged, CopiesOK, object
<1>10. CASE PersistStep
  BY <1>0, <1>1, <1>10, NewRunType, StoreTypes DEF PersistStep, PassOver, CopiesOK
<1>11. CASE OutsideStep
  BY <1>0, <1>11, FinalizerTypes DEF OutsideStep, CopiesOK, object
<1>12. QED
  BY <1>2, <1>3, <1>4, <1>5, <1>6, <1>7, <1>8, <1>9, <1>10, <1>11 DEF RunStep

LEMMA TypesStep ==
  ASSUME TypeOK, SubmitsRunning, [Next]_vars
  PROVE  TypeOK'
<1>1. CASE UNCHANGED vars
  BY <1>1 DEF TypeOK, vars, object, pass, tasks
<1>2. CASE Next
  <2>1. CopiesOK'
    BY <1>2, Classified, CopiesStep
  <2>2. faults' = faults \/ Fault
    BY <1>2 DEF Next, Reconcile, Environment, Start, Load, SubmitPendingSteps, ReconcileGone,
       GetNotFound, ReconcileDeleting, FinalizeDeletion, LoadRun, EnsureFinalizer, Get,
       ReleaseTerminal, RemoveFinalizer, Reject, EnforceRunTimeout, Collect, CollectError,
       NotEligible, SkipStep, FailInputs, FailLookup, WarmUp, FailTokens, FailStep, SubmitStep,
       SubmitError, Finish, Persist, UpdateStatus, Conflict, UpdateConflict, OperatorRestart,
       Restart, CacheSync, Watch, UserEdit, Edit, UserDelete, Delete, DeadlinePasses, AgentReady,
       Answer
  <2>3. faults' \in 0 .. MaxFaults
    BY <2>2, FaultTypes DEF TypeOK
  <2>4. wake' \in BOOLEAN /\ late' \in BOOLEAN /\ ready' \in SUBSET Steps
    <3>0. wake \in BOOLEAN /\ late \in BOOLEAN /\ ready \in SUBSET Steps
      BY DEF TypeOK
    <3>1. CASE Start
      BY <1>2, <3>0, <3>1 DEF Start, ReconcileGone, GetNotFound, ReconcileDeleting,
         FinalizeDeletion, LoadRun, EnsureFinalizer, PassEnds
    <3>2. CASE Load
      BY <1>2, <3>0, <3>2 DEF Load, ReleaseTerminal, RemoveFinalizer, PassEnds, Reject,
         EnforceRunTimeout, Collect, CollectError, EndPass
    <3>3. CASE SubmitPendingSteps
      BY <1>2, <3>0, <3>3 DEF SubmitPendingSteps, NotEligible, SkipStep, FailInputs, FailLookup,
         WarmUp, FailTokens, SubmitStep, SubmitError, Submitting, EndPass, PassEnds
    <3>4. CASE Finish \/ Persist \/ Conflict
      BY <3>0, <3>4 DEF Finish, Persist, UpdateStatus, Conflict, UpdateConflict, PassEnds
    <3>5. CASE Environment
      BY <3>0, <3>5 DEF Environment, OperatorRestart, Restart, PassEnds, CacheSync, Watch,
         UserEdit, Edit, UserDelete, Delete, Around, DeadlinePasses, AgentReady, Answer, pass
    <3>6. QED
      BY <1>2, <3>1, <3>2, <3>3, <3>4, <3>5 DEF Next, Reconcile
  <2>5. data' \in [Steps -> Outputs \cup {""}]
    <3>0. data \in [Steps -> Outputs \cup {""}] /\ NoData \in [Steps -> Outputs \cup {""}]
      BY NewRunType DEF TypeOK
    <3>1. CASE Start
      BY <1>2, <3>0, <3>1 DEF Start, ReconcileGone, ReconcileDeleting, LoadRun
    <3>2. CASE Collect
      <4> DEFINE run == InitializeRunSteps(mem)
      <4>1. PICK invalid : data' = TemplateData(CollectResults(run, invalid))
        BY <3>2 DEF Collect
      <4>2. run \in RunRecord /\ taskOut \in [TaskIds -> Outputs \cup {""}]
        BY InitializeFacts DEF TypeOK
      <4> HIDE DEF run
      <4>3. QED
        BY <4>1, <4>2, CollectedFacts
    <3>3. CASE Load /\ ~Collect
      BY <3>0, <3>3 DEF Load, ReleaseTerminal, Reject, EnforceRunTimeout, CollectError, EndPass
    <3>4. CASE SubmitPendingSteps
      BY <1>2, <3>0, <3>4 DEF SubmitPendingSteps, NotEligible, SkipStep, FailInputs, FailLookup,
         WarmUp, FailTokens, SubmitStep, SubmitError, Submitting, EndPass
    <3>5. CASE Finish \/ Persist \/ Conflict
      BY <3>0, <3>5 DEF Finish, Persist, Conflict
    <3>6. CASE Environment
      BY <3>0, <3>6 DEF Environment, OperatorRestart, CacheSync,
         UserEdit, UserDelete, Around, DeadlinePasses, AgentReady, Answer, pass
    <3>7. QED
      BY <1>2, <3>1, <3>2, <3>3, <3>4, <3>5, <3>6 DEF Next, Reconcile
  <2>6. /\ ledger' \in [TaskIds -> Queue!LedgerState]
        /\ taskOut' \in [TaskIds -> Outputs \cup {""}]
    <3>0. /\ ledger \in [TaskIds -> Queue!LedgerState]
          /\ taskOut \in [TaskIds -> Outputs \cup {""}]
      BY DEF TypeOK
    <3>1. CASE Start
      BY <3>0, <3>1, CancelTypes DEF Start, ReconcileGone, ReconcileDeleting, LoadRun, tasks
    <3>2. CASE Load
      BY <3>0, <3>2, CancelTypes DEF Load, ReleaseTerminal, Reject, EnforceRunTimeout, Collect,
         CollectError, tasks
    <3>3. CASE SubmitStep
      BY <3>0, <3>3 DEF SubmitStep, Queue!Submit, Queue!LedgerState
    <3>4. CASE SubmitPendingSteps /\ ~SubmitStep
      BY <3>0, <3>4 DEF SubmitPendingSteps, NotEligible, SkipStep, FailInputs, FailLookup,
         WarmUp, FailTokens, FailStep, SubmitError, tasks
    <3>5. CASE Finish \/ Persist \/ Conflict
      BY <3>0, <3>5, CancelTypes DEF Finish, Persist, Conflict, tasks
    <3>6. CASE \E t \in TaskIds, a \in Queue!Answer, out \in Outputs : Answer(t, a, out)
      BY <3>0, <3>6 DEF Answer, Queue!Settle, Queue!LedgerState
    <3>7. CASE OperatorRestart \/ CacheSync \/ UserEdit \/ UserDelete \/ DeadlinePasses
               \/ \E s \in Steps : AgentReady(s)
      BY <3>0, <3>7 DEF OperatorRestart, CacheSync, UserEdit, UserDelete, Around, DeadlinePasses,
         AgentReady, tasks
    <3>8. QED
      BY <1>2, <3>1, <3>2, <3>3, <3>4, <3>5, <3>6, <3>7 DEF Next, Reconcile, Environment
  <2>7. QED
    BY <2>1, <2>3, <2>4, <2>5, <2>6 DEF CopiesOK, TypeOK
<1>3. QED
  BY <1>1, <1>2

-----------------------------------------------------------------------------
(* The copies of the run and the stored one.  A pass that started from a   *)
(* stale copy of a terminal or deleted run is the danger: its copy is not  *)
(* fresh when it wants to store it.                                        *)

ObjectInv ==
  /\ cacheFresh => cache = api
  /\ cache.deleting => api.deleting
  /\ Terminal(cache.phase) => api.phase = cache.phase
  /\ pc # "idle" => mem.finalizer
  /\ pc = "load" /\ memFresh => mem = api
  /\ pc = "load" /\ Terminal(mem.phase) => api.phase = mem.phase
  /\ pc \in {"submit", "persist"} /\ memFresh =>
       ~Terminal(api.phase) /\ mem.deleting = api.deleting
  /\ RunningIsGuarded
  /\ SubmitsRunning

LEMMA ObjectInitially == Init => ObjectInv
<1>1. NewRun.phase = "" /\ NewRun.deleting = FALSE
  BY DEF NewRun
<1>2. QED
  BY <1>1 DEF Init, ObjectInit, ObjectInv, Terminal, RunningIsGuarded, SubmitsRunning

\* What a step that ends a pass or happens outside may do to the object.
LEMMA ReleaseKeeps ==
  ASSUME CopiesOK, ObjectInv, pc' = "idle", mem' = NewRun,
         Store(WithoutFinalizer(api)), api.deleting \/ api.phase # "Running"
  PROVE  ObjectInv' /\ api'.phase = api.phase /\ api'.step = api.step
<1>1. /\ WithoutFinalizer(api).phase = api.phase /\ WithoutFinalizer(api).step = api.step
      /\ WithoutFinalizer(api).deleting = api.deleting
      /\ WithoutFinalizer(api).exists = ~api.deleting
      /\ WithoutFinalizer(api) \in RunRecord
  BY FinalizerTypes DEF CopiesOK
<1>2. /\ api' = WithoutFinalizer(api) /\ cache' = cache
      /\ cacheFresh' => cacheFresh /\ api' = api
  BY <1>1, StoreTypes
<1>3. api.deleting \in BOOLEAN
  BY DEF CopiesOK, RunRecord
<1>4. QED
  BY <1>1, <1>2, <1>3 DEF ObjectInv, RunningIsGuarded, SubmitsRunning, Terminal

LEMMA ObjectStep ==
  ASSUME TypeOK, ObjectInv, RunStep
  PROVE  /\ ObjectInv'
         /\ Terminal(api.phase) => api'.phase = api.phase /\ api'.step = api.step
<1>0. CopiesOK
  BY FaultTypes DEF TypeOK, CopiesOK
<1>1. CASE GoneStep
  <2>1. pc' = "idle" /\ mem' = NewRun
    BY <1>1 DEF GoneStep, PassOver
  <2>2. CASE UNCHANGED object
    BY <2>1, <2>2 DEF object, ObjectInv, RunningIsGuarded, SubmitsRunning
  <2>3. CASE cache.deleting /\ Store(WithoutFinalizer(api))
    BY <1>0, <2>1, <2>3, ReleaseKeeps DEF ObjectInv
  <2>4. QED
    BY <1>1, <2>2, <2>3 DEF GoneStep
<1>2. CASE ReleaseStep
  <2>1. pc' = "idle" /\ mem' = NewRun
    BY <1>2 DEF ReleaseStep, PassOver
  <2>2. CASE UNCHANGED object
    BY <2>1, <2>2 DEF object, ObjectInv, RunningIsGuarded, SubmitsRunning
  <2>3. CASE Store(WithoutFinalizer(api))
    <3>1. api.phase # "Running"
      BY <1>2 DEF ReleaseStep, ObjectInv, Terminal
    <3>2. QED
      BY <1>0, <2>1, <2>3, <3>1, ReleaseKeeps
  <2>4. QED
    BY <1>2, <2>2, <2>3 DEF ReleaseStep
<1>3. CASE LoseStep
  BY <1>3 DEF LoseStep, PassOver, object, ObjectInv, RunningIsGuarded, SubmitsRunning
<1>4. CASE LoadStep
  <2>1. CASE cache.finalizer /\ mem' = cache /\ memFresh' = cacheFresh /\ UNCHANGED object
    BY <1>4, <2>1 DEF LoadStep, object, ObjectInv, RunningIsGuarded, SubmitsRunning
  <2>2. CASE Store([api EXCEPT !.finalizer = TRUE]) /\ mem' = api' /\ memFresh' = TRUE
    <3> DEFINE new == [api EXCEPT !.finalizer = TRUE]
    <3>1. /\ new \in RunRecord /\ new.phase = api.phase /\ new.step = api.step
          /\ new.deleting = api.deleting /\ new.finalizer = TRUE
      BY <1>0 DEF CopiesOK, RunRecord
    <3> HIDE DEF new
    <3>2. api' = new /\ cache' = cache /\ (cacheFresh' => cacheFresh /\ api' = api)
      BY <1>0, <2>2, <3>1, StoreTypes DEF new
    <3>3. QED
      BY <1>4, <2>2, <3>1, <3>2 DEF LoadStep, ObjectInv, RunningIsGuarded, SubmitsRunning, Terminal
  <2>3. QED
    BY <1>4, <2>1, <2>2 DEF LoadStep
<1>5. CASE CollectStep
  <2>3. mem'.phase = "Running" /\ mem'.deleting = mem.deleting /\ mem'.finalizer = mem.finalizer
    BY <1>5, CollectFacts
  <2>4. memFresh => api = mem /\ ~Terminal(api.phase)
    BY <1>5 DEF CollectStep, ObjectInv, Terminal
  <2>5. QED
    BY <1>5, <2>3, <2>4 DEF CollectStep, object, ObjectInv, RunningIsGuarded, SubmitsRunning
<1>6. CASE PassStep \/ SubmitStep
  <2>1. Submitting /\ \E st \in StepStatus : Advance(st)
    <3>1. CASE PassStep
      BY <3>1 DEF PassStep
    <3>2. CASE SubmitStep
      BY <3>2, SubmitFacts
    <3>3. QED
      BY <1>6, <3>1, <3>2
  <2>2. /\ mem'.phase = mem.phase /\ mem'.deleting = mem.deleting
        /\ mem'.finalizer = mem.finalizer /\ pc = "submit" /\ pc' = "submit"
    BY <2>1, AdvanceFacts
  <2>3. QED
    BY <2>1, <2>2 DEF Submitting, object, ObjectInv, RunningIsGuarded, SubmitsRunning
<1>7. CASE JudgeStep
  BY <1>7 DEF JudgeStep, Judged, object, ObjectInv, RunningIsGuarded, SubmitsRunning, Terminal
<1>8. CASE PersistStep
  <2>1. ~Terminal(api.phase) /\ mem.deleting = api.deleting /\ mem.finalizer
    BY <1>8 DEF PersistStep, ObjectInv
  <2>2. api' = mem /\ cache' = cache /\ (cacheFresh' => cacheFresh /\ api' = api)
    BY <1>0, <1>8, StoreTypes DEF PersistStep, CopiesOK
  <2>3. QED
    BY <1>8, <2>1, <2>2 DEF PersistStep, PassOver, ObjectInv, RunningIsGuarded, SubmitsRunning, Terminal
<1>9. CASE OutsideStep
  <2>1. CASE api' = api
    BY <1>9, <2>1 DEF OutsideStep, object, ObjectInv, RunningIsGuarded, SubmitsRunning
  <2>2. CASE /\ cache' = cache
             /\ api' = [api EXCEPT !.deleting = TRUE, !.exists = api.finalizer]
             /\ cacheFresh' = FALSE /\ memFresh' = FALSE
    <3>1. /\ api'.phase = api.phase /\ api'.step = api.step /\ api'.deleting = TRUE
          /\ api'.exists = api.finalizer /\ api'.finalizer = api.finalizer
      BY <1>0, <2>2 DEF CopiesOK, RunRecord
    <3>2. QED
      BY <1>9, <2>2, <3>1 DEF OutsideStep, ObjectInv, RunningIsGuarded, SubmitsRunning
  <2>3. QED
    BY <1>9, <2>1, <2>2 DEF OutsideStep
<1>10. QED
  BY <1>1, <1>2, <1>3, <1>4, <1>5, <1>6, <1>7, <1>8, <1>9 DEF RunStep

-----------------------------------------------------------------------------
(* The steps of a copy and their tasks.                                    *)

\* A started step has a task, and the task is its own: one of the first n,
\* submitted for this step.
Grounded(run, n, owner) ==
  \A s \in Steps :
    /\ run.step[s].phase \in {"Running", "Succeeded"} => run.step[s].task # NoTask
    /\ run.step[s].task # NoTask =>
         run.step[s].task <= n /\ owner[run.step[s].task] = s

GroundedInv ==
  /\ Grounded(api, issued, taskStep) /\ Grounded(cache, issued, taskStep)
  /\ Grounded(mem, issued, taskStep)

AgreesInv ==
  /\ PhaseAgrees(api) /\ PhaseAgrees(cache)
  /\ pc # "submit" => PhaseAgrees(mem)

\* The tasks issued so far keep their steps.
TasksGrow ==
  /\ issued \in Nat /\ issued' \in Nat /\ issued <= issued'
  /\ \A t \in TaskIds : t <= issued => taskStep'[t] = taskStep[t]

LEMMA TasksGrowing ==
  ASSUME TypeOK, RunStep
  PROVE  TasksGrow
<1>0. issued \in 0 .. MaxTasks /\ MaxTasks \in Nat
  BY ConstFacts DEF TypeOK
<1>1. issued \in Nat /\ MaxTasks \in Nat
  BY <1>0
<1>2. CASE SubmitStep
  <2>1. /\ issued' = issued + 1
        /\ \A t \in TaskIds : t # issued + 1 => taskStep'[t] = taskStep[t]
    BY <1>2, SubmitFacts
  <2>2. QED
    BY <1>1, <2>1 DEF TasksGrow, TaskIds
<1>3. CASE ~SubmitStep
  <2>1. issued' = issued /\ taskStep' = taskStep
    BY <1>3 DEF RunStep, GoneStep, ReleaseStep, LoseStep, LoadStep, CollectStep, PassStep,
       JudgeStep, PersistStep, OutsideStep, PassOver, tasks
  <2>2. QED
    BY <1>1, <2>1 DEF TasksGrow
<1>4. QED
  BY <1>2, <1>3

LEMMA GroundedGrows ==
  ASSUME NEW run \in RunRecord, NEW new, TasksGrow, new.step = run.step,
         Grounded(run, issued, taskStep)
  PROVE  Grounded(new, issued', taskStep')
<1> SUFFICES ASSUME NEW s \in Steps
             PROVE  /\ run.step[s].phase \in {"Running", "Succeeded"} => run.step[s].task # NoTask
                    /\ run.step[s].task # NoTask =>
                         run.step[s].task <= issued' /\ taskStep'[run.step[s].task] = s
  BY DEF Grounded
<1>1. run.step[s].task \in 0 .. MaxTasks
  BY DEF RunRecord, StepStatus
<1>2. run.step[s].task # NoTask => run.step[s].task \in TaskIds /\ run.step[s].task \in Nat
  BY <1>1, ConstFacts
<1>3. QED
  BY <1>2 DEF Grounded, TasksGrow

LEMMA NewRunGrounded ==
  \A n, owner : Grounded(NewRun, n, owner) /\ PhaseAgrees(NewRun)
BY DEF Grounded, PhaseAgrees, NewRun, AbsentStep

\* The stored run and the cached one are replaced by former copies only, or by
\* what the pass worked out.
LEMMA CopiesFlow ==
  ASSUME TypeOK, RunStep
  PROVE  /\ \/ api'.phase = api.phase /\ api'.step = api.step
            \/ PersistStep /\ api' = mem
         /\ cache' = cache \/ cache' = api
<1>0. CopiesOK /\ api \in RunRecord
  BY FaultTypes DEF TypeOK, CopiesOK
<1>1. /\ WithoutFinalizer(api) \in RunRecord
      /\ WithoutFinalizer(api).phase = api.phase /\ WithoutFinalizer(api).step = api.step
  BY <1>0, FinalizerTypes
<1>2. /\ [api EXCEPT !.finalizer = TRUE] \in RunRecord
      /\ [api EXCEPT !.finalizer = TRUE].phase = api.phase
      /\ [api EXCEPT !.finalizer = TRUE].step = api.step
  BY <1>0 DEF RunRecord
<1>3. CASE GoneStep \/ ReleaseStep
  <2>1. UNCHANGED object \/ Store(WithoutFinalizer(api))
    BY <1>3 DEF GoneStep, ReleaseStep
  <2>2. CASE Store(WithoutFinalizer(api))
    <3>1. api' = WithoutFinalizer(api) /\ cache' = cache
      BY <2>2 DEF Store
    <3>2. QED
      BY <1>1, <3>1
  <2>3. QED
    BY <2>1, <2>2 DEF object
<1>4. CASE LoseStep
  BY <1>4 DEF LoseStep, object
<1>5. CASE LoadStep
  BY <1>0, <1>2, <1>5, StoreTypes DEF LoadStep, object
<1>6. CASE CollectStep \/ PassStep \/ SubmitStep \/ JudgeStep
  BY <1>6 DEF CollectStep, PassStep, SubmitStep, Submitting, JudgeStep, object
<1>7. CASE PersistStep
  BY <1>0, <1>7, StoreTypes DEF PersistStep, CopiesOK
<1>8. CASE OutsideStep
  <2>1. [api EXCEPT !.deleting = TRUE, !.exists = api.finalizer].phase = api.phase
    BY <1>0 DEF RunRecord
  <2>2. [api EXCEPT !.deleting = TRUE, !.exists = api.finalizer].step = api.step
    BY <1>0 DEF RunRecord
  <2>3. QED
    BY <1>8, <2>1, <2>2 DEF OutsideStep, object
<1>9. QED
  BY <1>3, <1>4, <1>5, <1>6, <1>7, <1>8 DEF RunStep

\* So does the copy of the pass, until Collect.
LEMMA MemFlow ==
  ASSUME TypeOK, RunStep, ~CollectStep, ~PassStep, ~SubmitStep, ~JudgeStep
  PROVE  \/ mem' = mem /\ pc' = pc
         \/ mem' = NewRun /\ pc' = "idle"
         \/ LoadStep /\ mem' = cache
         \/ LoadStep /\ mem'.phase = api.phase /\ mem'.step = api.step
<1>1. CASE LoadStep
  <2>1. /\ [api EXCEPT !.finalizer = TRUE].phase = api.phase
        /\ [api EXCEPT !.finalizer = TRUE].step = api.step
    BY DEF TypeOK, RunRecord
  <2>2. QED
    BY <1>1, <2>1 DEF LoadStep, Store
<1>2. CASE ~LoadStep
  BY <1>2 DEF RunStep, GoneStep, ReleaseStep, LoseStep, PersistStep, OutsideStep, PassOver
<1>3. QED
  BY <1>1, <1>2

LEMMA StatusInit == Init => GroundedInv /\ AgreesInv
BY NewRunGrounded DEF Init, ObjectInit, GroundedInv, AgreesInv

LEMMA GroundedStep ==
  ASSUME TypeOK, GroundedInv, RunStep
  PROVE  GroundedInv'
<1>0. TasksGrow /\ api \in RunRecord /\ cache \in RunRecord /\ mem \in RunRecord
  BY TasksGrowing DEF TypeOK
<1>1. Grounded(api', issued', taskStep') /\ Grounded(cache', issued', taskStep')
  BY <1>0, CopiesFlow, GroundedGrows DEF GroundedInv
<1>2. CASE ~CollectStep /\ ~PassStep /\ ~SubmitStep /\ ~JudgeStep
  <2>1. \/ mem'.step = mem.step \/ mem'.step = NewRun.step
        \/ mem'.step = cache.step \/ mem'.step = api.step
    BY <1>2, MemFlow
  <2>2. Grounded(mem', issued', taskStep')
    BY <1>0, <2>1, NewRunType, NewRunGrounded, GroundedGrows DEF GroundedInv
  <2>3. QED
    BY <1>1, <2>2 DEF GroundedInv
<1>3. CASE CollectStep
  <2> DEFINE run == InitializeRunSteps(mem)
  <2>1. /\ run \in RunRecord /\ mem' \in RunRecord
        /\ taskOut \in [TaskIds -> Outputs \cup {""}]
        /\ \A s \in Steps :
             run.step[s] = IF mem.phase = "" THEN [AbsentStep EXCEPT !.phase = "Pending"]
                           ELSE mem.step[s]
    BY <1>3, CollectFacts
  <2>2. PICK invalid : mem' = Collected(run, invalid)
    BY <1>3 DEF CollectStep
  <2>3. issued' = issued /\ taskStep' = taskStep
    BY <1>3 DEF CollectStep
  <2> HIDE DEF run
  <2>4. Grounded(run, issued, taskStep)
    <3>1. /\ [AbsentStep EXCEPT !.phase = "Pending"].phase = "Pending"
          /\ [AbsentStep EXCEPT !.phase = "Pending"].task = NoTask
      BY DEF AbsentStep
    <3>2. QED
      BY <2>1, <3>1 DEF Grounded, GroundedInv
  <2>5. ASSUME NEW s \in Steps
        PROVE  /\ mem'.step[s].task \in {run.step[s].task, NoTask}
               /\ mem'.step[s].phase \in {"Running", "Succeeded"} =>
                    /\ mem'.step[s].task = run.step[s].task
                    /\ run.step[s].phase \in {"Running", "Succeeded"}
    <3>1. s \in AnsweredOk(run) => run.step[s].phase = "Running"
      BY DEF AnsweredOk, Answered
    <3>2. CollectedTo(run, s, run.step[s], mem'.step[s])
      BY <2>1, <2>2, <2>5, CollectedStepFacts
    <3>3. QED
      BY <3>1, <3>2 DEF CollectedTo
  <2>6. Grounded(mem', issued', taskStep')
    BY <2>3, <2>4, <2>5 DEF Grounded
  <2>7. QED
    BY <1>1, <2>6 DEF GroundedInv
<1>4. CASE PassStep
  <2>1. PICK st \in StepStatus : Passed(st) /\ Advance(st)
    BY <1>4 DEF PassStep
  <2>2. /\ mem'.step[at] = st /\ at \in Steps
        /\ \A s \in Steps : s # at => mem'.step[s] = mem.step[s]
    BY <1>4, <2>1, AdvanceFacts DEF PassStep
  <2>3. st.task = mem.step[at].task
    BY <2>1 DEF Passed
  <2>4. st.phase \in {"Running", "Succeeded"} => mem.step[at].phase = st.phase
    BY <2>1, <2>2, CurrentFacts DEF Passed
  <2>5. issued' = issued /\ taskStep' = taskStep
    BY <1>4 DEF PassStep, tasks
  <2>6. Grounded(mem', issued', taskStep')
    BY <2>2, <2>3, <2>4, <2>5 DEF Grounded, GroundedInv
  <2>7. QED
    BY <1>1, <2>6 DEF GroundedInv
<1>5. CASE SubmitStep
  <2>1. /\ Submitting /\ issued + 1 \in TaskIds /\ issued' = issued + 1 /\ issued \in Nat
        /\ taskStep'[issued + 1] = at
    BY <1>5, SubmitFacts
  <2>2. PICK st \in StepStatus : Advance(st) /\ st.phase = "Running" /\ st.task = issued + 1
    BY <1>5, SubmitFacts
  <2>3. /\ mem'.step[at] = st /\ at \in Steps
        /\ \A s \in Steps : s # at => mem'.step[s] = mem.step[s]
    BY <2>1, <2>2, AdvanceFacts
  <2>4. Grounded(mem, issued', taskStep')
    BY <1>0, GroundedGrows DEF GroundedInv
  <2>5. issued + 1 # NoTask /\ issued + 1 <= issued'
    BY <2>1, ConstFacts
  <2>6. Grounded(mem', issued', taskStep')
    <3> SUFFICES ASSUME NEW s \in Steps
                 PROVE  /\ mem'.step[s].phase \in {"Running", "Succeeded"} => mem'.step[s].task # NoTask
                        /\ mem'.step[s].task # NoTask =>
                             /\ mem'.step[s].task <= issued'
                             /\ taskStep'[mem'.step[s].task] = s
      BY DEF Grounded
    <3>1. CASE s = at
      BY <2>1, <2>2, <2>3, <2>5, <3>1
    <3>2. CASE s # at
      BY <2>3, <2>4, <3>2 DEF Grounded
    <3>3. QED
      BY <3>1, <3>2
  <2>7. QED
    BY <1>1, <2>6 DEF GroundedInv
<1>6. CASE JudgeStep
  <2>1. issued' = issued /\ taskStep' = taskStep
    BY <1>6 DEF JudgeStep
  <2>2. ASSUME NEW s \in Steps
        PROVE  /\ mem'.step[s].task = mem.step[s].task
               /\ mem'.step[s].phase = mem.step[s].phase \/ mem'.step[s].phase = "Failed"
    <3>1. mem.step[s] \in StepStatus
      BY <1>0, <2>2 DEF RunRecord
    <3>2. QED
      BY <1>6, <2>2, <3>1 DEF JudgeStep, Judged, StepStatus
  <2>3. Grounded(mem', issued', taskStep')
    BY <2>1, <2>2 DEF Grounded, GroundedInv
  <2>4. QED
    BY <1>1, <2>3 DEF GroundedInv
<1>7. QED
  BY <1>2, <1>3, <1>4, <1>5, <1>6

LEMMA AgreesStep ==
  ASSUME TypeOK, SubmitsRunning, AgreesInv, RunStep
  PROVE  AgreesInv'
<1>1. PhaseAgrees(api') /\ PhaseAgrees(cache')
  <2>1. PersistStep => PhaseAgrees(mem)
    BY DEF PersistStep, AgreesInv
  <2>2. ASSUME NEW run, NEW new, PhaseAgrees(run), new.phase = run.phase, new.step = run.step
        PROVE  PhaseAgrees(new)
    BY <2>2 DEF PhaseAgrees
  <2>3. \/ api'.phase = api.phase /\ api'.step = api.step
        \/ PersistStep /\ api' = mem
    BY CopiesFlow
  <2>4. PhaseAgrees(api')
    BY <2>1, <2>2, <2>3 DEF AgreesInv
  <2>5. PhaseAgrees(cache')
    BY CopiesFlow DEF AgreesInv
  <2>6. QED
    BY <2>4, <2>5
<1>2. CASE ~CollectStep /\ ~PassStep /\ ~SubmitStep /\ ~JudgeStep
  BY <1>1, <1>2, MemFlow, NewRunGrounded DEF AgreesInv, PhaseAgrees
<1>3. CASE CollectStep
  BY <1>1, <1>3 DEF AgreesInv, CollectStep
<1>4. CASE PassStep
  BY <1>1, <1>4 DEF AgreesInv, PassStep, Submitting, Advance
<1>5. CASE SubmitStep
  BY <1>1, <1>5 DEF AgreesInv, SubmitStep, Submitting, Advance
<1>6. CASE JudgeStep
  BY <1>1, <1>6 DEF AgreesInv, JudgeStep
<1>7. QED
  BY <1>2, <1>3, <1>4, <1>5, <1>6

-----------------------------------------------------------------------------
(* A step that has a task runs behind complete ones.  A loop that reads    *)
(* the step's .output is over when the step succeeds.  One that reads its  *)
(* .data sees it one pass late, when other steps may have started: the     *)
(* theorem is about pipelines in which no step waits for such a loop.      *)

NoDataLoopIsAwaited ==
  \A s \in Steps : \A d \in Pipeline[s].dependsOn :
    Pipeline[d].loop = 0 \/ Pipeline[d].loopReads = "output"

\* Steps behind complete ones, whose loops are over.
Ordered(run) ==
  /\ \A s \in Steps : run.step[s].task # NoTask =>
       \A d \in Pipeline[s].dependsOn : Complete(run.step[d])
  /\ \A s \in Steps :
       run.step[s].phase = "Succeeded" /\ Pipeline[s].loopReads = "output" =>
         LoopOver(run.step[s], s)

OrderedInv == Ordered(api) /\ Ordered(cache) /\ Ordered(mem)

LEMMA NewRunOrdered == Ordered(NewRun)
BY DEF Ordered, NewRun, AbsentStep

LEMMA OrderedStep ==
  ASSUME TypeOK, NoDataLoopIsAwaited, GroundedInv, OrderedInv, RunStep
  PROVE  OrderedInv'
<1>0. \A s \in Steps : Pipeline[s].dependsOn \subseteq Steps /\ Pipeline[s].loop \in Nat
  BY StepsFacts DEF StepSpec
<1>1. Ordered(api') /\ Ordered(cache')
  <2>1. ASSUME NEW run, NEW new, Ordered(run), new.step = run.step
        PROVE  Ordered(new)
    BY <2>1 DEF Ordered
  <2>2. QED
    BY <2>1, CopiesFlow DEF OrderedInv
<1>2. CASE ~CollectStep /\ ~PassStep /\ ~SubmitStep /\ ~JudgeStep
  <2>1. ASSUME NEW run, NEW new, Ordered(run), new.step = run.step
        PROVE  Ordered(new)
    BY <2>1 DEF Ordered
  <2>2. Ordered(mem')
    BY <1>2, <2>1, MemFlow, NewRunOrdered DEF OrderedInv
  <2>3. QED
    BY <1>1, <2>2 DEF OrderedInv
<1>3. CASE CollectStep
  <2> DEFINE run == InitializeRunSteps(mem)
  <2>1. /\ run \in RunRecord /\ mem' \in RunRecord
        /\ taskOut \in [TaskIds -> Outputs \cup {""}]
        /\ \A s \in Steps :
             run.step[s] = IF mem.phase = "" THEN [AbsentStep EXCEPT !.phase = "Pending"]
                           ELSE mem.step[s]
    BY <1>3, CollectFacts
  <2>2. PICK invalid : mem' = Collected(run, invalid)
    BY <1>3 DEF CollectStep
  <2> HIDE DEF run
  <2>3. Ordered(run)
    <3>1. /\ [AbsentStep EXCEPT !.phase = "Pending"].phase = "Pending"
          /\ [AbsentStep EXCEPT !.phase = "Pending"].task = NoTask
      BY DEF AbsentStep
    <3>2. CASE mem.phase = ""
      BY <2>1, <3>1, <3>2 DEF Ordered
    <3>3. CASE mem.phase # ""
      <4>1. \A s \in Steps : run.step[s] = mem.step[s]
        BY <2>1, <3>3
      <4>2. QED
        BY <1>0, <4>1 DEF Ordered, OrderedInv
    <3>4. QED
      BY <3>2, <3>3
  <2>4. ASSUME NEW s \in Steps
        PROVE  /\ mem'.step[s].task \in {run.step[s].task, NoTask}
               /\ mem'.step[s].phase = "Succeeded" /\ Pipeline[s].loopReads = "output" =>
                    LoopOver(mem'.step[s], s)
               /\ run.step[s].phase = "Skipped" => mem'.step[s].phase = "Skipped"
               /\ run.step[s].phase = "Succeeded" /\ LoopOver(run.step[s], s)
                    /\ Pipeline[s].loopReads = "output" => mem'.step[s].phase = "Succeeded"
               /\ run.step[s].phase = "Succeeded" /\ Pipeline[s].loop = 0 =>
                    mem'.step[s].phase = "Succeeded"
    <3>1. CollectedTo(run, s, run.step[s], mem'.step[s])
      BY <2>1, <2>2, <2>4, CollectedStepFacts
    <3>2. QED
      BY <3>1 DEF CollectedTo
  <2>5. ASSUME NEW s \in Steps, NEW d \in Pipeline[s].dependsOn, Complete(run.step[d])
        PROVE  Complete(mem'.step[d])
    <3>1. d \in Steps
      BY <1>0, <2>5
    <3>2. Pipeline[d].loop = 0 \/ Pipeline[d].loopReads = "output"
      BY <2>5 DEF NoDataLoopIsAwaited
    <3>3. run.step[d].phase = "Succeeded" /\ Pipeline[d].loopReads = "output" =>
            LoopOver(run.step[d], d)
      BY <2>3, <3>1 DEF Ordered
    <3>4. run.step[d].phase \in {"Succeeded", "Skipped"}
      BY <2>5 DEF Complete
    <3>5. QED
      BY <2>4, <3>1, <3>2, <3>3, <3>4 DEF Complete
  <2>6. Ordered(mem')
    BY <2>3, <2>4, <2>5 DEF Ordered
  <2>7. QED
    BY <1>1, <2>6 DEF OrderedInv
<1>4. ASSUME NEW st \in StepStatus, Submitting, Advance(st),
             Complete(mem.step[at]) => st = mem.step[at],
             st.phase = "Succeeded" => st = mem.step[at],
             st.task # NoTask => st.task = mem.step[at].task \/ DepsSucceeded(mem, at)
      PROVE  Ordered(mem')
  <2>1. /\ mem'.step[at] = st /\ at \in Steps
        /\ \A s \in Steps : s # at => mem'.step[s] = mem.step[s]
    BY <1>4, AdvanceFacts
  <2>2. \A d \in Steps : Complete(mem.step[d]) => Complete(mem'.step[d])
    BY <1>4, <2>1
  <2>3. \A s \in Steps : mem'.step[s].task # NoTask =>
          \A d \in Pipeline[s].dependsOn : Complete(mem.step[d])
    BY <1>4, <2>1 DEF Ordered, OrderedInv, DepsSucceeded
  <2>4. QED
    BY <1>0, <1>4, <2>1, <2>2, <2>3 DEF Ordered, OrderedInv
<1>5. CASE PassStep
  <2>1. PICK st \in StepStatus : Passed(st) /\ Advance(st)
    BY <1>5 DEF PassStep
  <2>2. Submitting /\ at \in Steps
    BY <1>5 DEF PassStep, Submitting
  <2>3. Complete(mem.step[at]) => Current = mem.step[at] /\ ~Eligible
    BY DEF Complete, Current, Resumed, Eligible
  <2>4. Current.phase = "Succeeded" => Current = mem.step[at]
    BY DEF Current, Resumed
  <2>5. /\ Complete(mem.step[at]) => st = mem.step[at]
        /\ st.phase = "Succeeded" => st = mem.step[at]
        /\ st.task = mem.step[at].task
    BY <2>1, <2>3, <2>4 DEF Passed
  <2>6. QED
    BY <1>1, <1>4, <2>1, <2>2, <2>5 DEF OrderedInv
<1>6. CASE SubmitStep
  <2>1. Submitting /\ Eligible
    BY <1>6, SubmitFacts
  <2>2. PICK st \in StepStatus : Advance(st) /\ st.phase = "Running"
    BY <1>6, SubmitFacts
  <2>3. ~Complete(mem.step[at]) /\ DepsSucceeded(mem, at)
    BY <2>1 DEF Complete, Current, Resumed, Eligible
  <2>4. QED
    BY <1>1, <1>4, <2>1, <2>2, <2>3 DEF OrderedInv
<1>7. CASE JudgeStep
  <2>1. ASSUME NEW s \in Steps
        PROVE  /\ mem'.step[s].task = mem.step[s].task
               /\ Complete(mem.step[s]) => mem'.step[s] = mem.step[s]
               /\ mem'.step[s].phase = "Succeeded" => mem'.step[s] = mem.step[s]
    <3>1. mem.step[s] \in StepStatus
      BY <2>1 DEF TypeOK, RunRecord
    <3>2. QED
      BY <1>7, <2>1, <3>1 DEF JudgeStep, Judged, StepStatus, Complete
  <2>2. Ordered(mem')
    BY <1>0, <2>1 DEF Ordered, OrderedInv
  <2>3. QED
    BY <1>1, <2>2 DEF OrderedInv
<1>8. QED
  BY <1>2, <1>3, <1>5, <1>6, <1>7

-----------------------------------------------------------------------------
(* The stored status.                                                      *)

RunInv == TypeOK /\ ObjectInv /\ GroundedInv /\ AgreesInv

LEMMA RunInitially == Init => RunInv
BY TypesInit, ObjectInitially, StatusInit DEF RunInv

LEMMA RunInvStep ==
  ASSUME RunInv, [Next]_vars
  PROVE  RunInv' /\ (RunStep \/ UNCHANGED vars)
<1>1. CASE UNCHANGED vars
  <2>1. /\ UNCHANGED <<api, cache, cacheFresh, mem, memFresh, pc, issued, taskStep>>
        /\ TypeOK /\ SubmitsRunning /\ ObjectInv /\ GroundedInv /\ AgreesInv
    BY <1>1 DEF RunInv, ObjectInv, vars, object, pass, tasks
  <2>2. TypeOK'
    BY <2>1, TypesStep
  <2>3. ObjectInv'
    BY <2>1 DEF ObjectInv, RunningIsGuarded, SubmitsRunning
  <2>4. GroundedInv' /\ AgreesInv'
    BY <2>1 DEF GroundedInv, AgreesInv
  <2>5. QED
    BY <1>1, <2>2, <2>3, <2>4 DEF RunInv
<1>2. CASE Next
  <2>1. TypeOK /\ SubmitsRunning /\ ObjectInv /\ GroundedInv /\ AgreesInv
    BY DEF RunInv, ObjectInv
  <2>2. RunStep
    BY <1>2, <2>1, Classified
  <2>3. TypeOK'
    BY <2>1, TypesStep
  <2>4. ObjectInv' /\ GroundedInv' /\ AgreesInv'
    BY <2>1, <2>2, ObjectStep, GroundedStep, AgreesStep
  <2>5. QED
    BY <2>2, <2>3, <2>4 DEF RunInv
<1>3. QED
  BY <1>1, <1>2

\* Every copy of a run that the controller, its cache and the API server hold
\* has the type of a SwarmRun status, in every state of a pass.
THEOREM RunTypes == Spec => []TypeOK
<1>1. RunInv => TypeOK
  BY DEF RunInv
<1>2. QED
  BY RunInitially, RunInvStep, <1>1, PTL DEF Spec

\* What is stored of a Succeeded or Failed run never changes, for any pipeline
\* and any number of stale reads, conflicts and crashes: IsTerminalRunPhase is
\* only looked at on the copy of the pass, and the status update is what keeps
\* a pass with an old copy from writing over a terminal status.
THEOREM TerminalForGood == Spec => TerminalIsFinal
<1>1. RunInv /\ [Next]_vars =>
        [Terminal(api.phase) => api'.phase = api.phase /\ api'.step = api.step]_vars
  <2> SUFFICES ASSUME RunInv, [Next]_vars
               PROVE  (Terminal(api.phase) => api'.phase = api.phase /\ api'.step = api.step)
                      \/ UNCHANGED vars
    OBVIOUS
  <2>1. RunStep \/ UNCHANGED vars
    BY RunInvStep
  <2>2. QED
    BY <2>1, ObjectStep DEF RunInv
<1>2. QED
  BY RunInitially, RunInvStep, <1>1, PTL DEF Spec, TerminalIsFinal

\* For every pipeline, the status that a pass stores can be taken up by any
\* later one as far as tasks, phases and the finalizer go: a Running step has a
\* task of its own, a phase agrees with the steps, and a run that may have
\* tasks in the queue cannot be removed behind the controller's back.
THEOREM StoredStatus == Spec => [](TaskBelongsToStep /\ PhaseMatchesSteps /\ RunningIsGuarded)
<1>1. RunInv => TaskBelongsToStep /\ PhaseMatchesSteps /\ RunningIsGuarded
  BY DEF RunInv, GroundedInv, Grounded, AgreesInv, PhaseAgrees, ObjectInv, TaskBelongsToStep,
     PhaseMatchesSteps
<1>2. QED
  BY RunInitially, RunInvStep, <1>1, PTL DEF Spec

\* The whole of StatusIsConsistent, dependencies included, for the pipelines
\* in which no step waits for a loop on .data (see NoDataLoopIsAwaited).
THEOREM StatusStaysConsistent ==
  ASSUME NoDataLoopIsAwaited
  PROVE  Spec => []StatusIsConsistent
<1>1. Init => OrderedInv
  BY NewRunOrdered DEF Init, ObjectInit, OrderedInv
<1>2. RunInv /\ OrderedInv /\ [Next]_vars => OrderedInv'
  <2> SUFFICES ASSUME RunInv, OrderedInv, [Next]_vars
               PROVE  OrderedInv'
    OBVIOUS
  <2>1. CASE UNCHANGED vars
    BY <2>1 DEF vars, object, pass, OrderedInv
  <2>2. CASE RunStep
    BY <2>2, OrderedStep DEF RunInv
  <2>3. QED
    BY <2>1, <2>2, RunInvStep
<1>3. RunInv /\ OrderedInv => StatusIsConsistent
  <2>1. RunInv => TaskBelongsToStep /\ PhaseMatchesSteps /\ RunningIsGuarded
    BY DEF RunInv, GroundedInv, Grounded, AgreesInv, PhaseAgrees, ObjectInv, TaskBelongsToStep,
       PhaseMatchesSteps
  <2>2. OrderedInv => DependenciesStayComplete
    BY DEF OrderedInv, Ordered, DependenciesStayComplete
  <2>3. QED
    BY <2>1, <2>2 DEF StatusIsConsistent
<1>4. QED
  BY RunInitially, RunInvStep, <1>1, <1>2, <1>3, PTL DEF Spec

-----------------------------------------------------------------------------
(* Usage records.  A task's usage is recorded when a pass collects its     *)
(* result; it is recorded again when that pass is lost, and every way to   *)
(* lose a pass or to start one from an old copy is a fault.                *)

\* A pass over this copy may still collect the result of task t.
Awaits(run, t) ==
  \E s \in Steps : run.step[s].phase = "Running" /\ run.step[s].task = t

\* The records of one task: not more than the faults, and one for the current
\* pass.  A task that the stored run still waits for has at least one more to
\* come; when the pass works on an old copy, two.
SpendOK(t) ==
  /\ spent[t] <= 1 + faults
  /\ t > issued => spent[t] = 0
  /\ Awaits(mem, t) => spent[t] <= faults
  /\ ~api.deleting /\ Awaits(api, t) /\ (pc \in {"idle", "load"} \/ ~memFresh) =>
       spent[t] <= faults
  /\ ~api.deleting /\ Awaits(api, t) /\ pc = "load" /\ ~memFresh =>
       spent[t] + 1 <= faults

SpendInv == \A t \in TaskIds : SpendOK(t)

\* The succeeded steps of a copy whose usage is missing from the records.
Unrecorded(run, records) ==
  {s \in Steps : run.step[s].phase = "Succeeded" /\ records[run.step[s].task] = 0}

RecordedInv ==
  /\ Cardinality(Unrecorded(api, spent)) <= faults
  /\ Cardinality(Unrecorded(cache, spent)) <= faults
  /\ Cardinality(Unrecorded(mem, spent)) <= faults

LEMMA SpentGrows ==
  ASSUME TypeOK, RunStep
  PROVE  /\ faults \in Nat /\ faults' \in Nat /\ faults <= faults'
         /\ \A t \in TaskIds : spent[t] \in Nat /\ spent'[t] \in Nat /\ spent[t] <= spent'[t]
<1>1. faults \in Nat /\ spent \in [TaskIds -> Nat]
  BY FaultTypes DEF TypeOK
<1>2. faults' = faults \/ faults' = faults + 1
  <2>1. SubmitStep => faults' = faults \/ faults' = faults + 1
    BY SubmitFacts
  <2>2. QED
    BY <2>1 DEF RunStep, GoneStep, ReleaseStep, LoseStep, LoadStep, CollectStep, PassStep,
       JudgeStep, PersistStep, OutsideStep
<1>3. CASE spent' = spent
  BY <1>1, <1>2, <1>3
<1>4. CASE spent' # spent
  <2>1. \E run, steps : RecordSpend(run, steps)
    <3>1. SubmitStep => spent' = spent
      BY SubmitFacts
    <3>2. QED
      BY <1>4, <3>1 DEF RunStep, GoneStep, ReleaseStep, LoseStep, LoadStep, CollectStep,
         PassStep, JudgeStep, PersistStep, OutsideStep, tasks
  <2>2. spent' \in [TaskIds -> Nat] /\ \A t \in TaskIds : spent[t] <= spent'[t]
    BY <2>1, RecordTypes
  <2>3. QED
    BY <1>1, <1>2, <2>2
<1>5. QED
  BY <1>3, <1>4

LEMMA StepsFinite == IsFiniteSet(Steps)
BY StepsFacts, FS_Interval

\* A set of steps that grew by one at most.
LEMMA OneMore ==
  ASSUME NEW S, NEW T, NEW x, IsFiniteSet(S), T \subseteq S \cup {x}
  PROVE  /\ IsFiniteSet(T) /\ Cardinality(T) \in Nat /\ Cardinality(S) \in Nat
         /\ Cardinality(T) <= Cardinality(S) + 1
<1>1. /\ IsFiniteSet(S \cup {x})
      /\ Cardinality(S \cup {x}) = IF x \in S THEN Cardinality(S) ELSE Cardinality(S) + 1
  BY FS_AddElement
<1>2. IsFiniteSet(T) /\ Cardinality(T) <= Cardinality(S \cup {x})
  BY <1>1, FS_Subset
<1>3. Cardinality(T) \in Nat /\ Cardinality(S) \in Nat
  BY <1>2, FS_CardinalityType
<1>4. QED
  BY <1>1, <1>2, <1>3

\* A copy keeps its bound as records are added.
LEMMA UnrecordedShrinks ==
  ASSUME NEW run \in RunRecord, NEW new, NEW m \in Nat, NEW n \in Nat, m <= n,
         Grounded(run, issued, taskStep),
         \A t \in TaskIds : spent[t] \in Nat /\ spent'[t] \in Nat /\ spent[t] <= spent'[t],
         \A s \in Steps : new.step[s].phase = "Succeeded" =>
            run.step[s].phase = "Succeeded" /\ new.step[s].task = run.step[s].task,
         Cardinality(Unrecorded(run, spent)) <= m
  PROVE  Cardinality(Unrecorded(new, spent')) <= n
<1>1. ASSUME NEW s \in Unrecorded(new, spent')
      PROVE  s \in Unrecorded(run, spent)
  <2>1. /\ s \in Steps /\ run.step[s].phase = "Succeeded"
        /\ new.step[s].task = run.step[s].task /\ spent'[run.step[s].task] = 0
    BY <1>1 DEF Unrecorded
  <2>2. run.step[s].task # NoTask /\ run.step[s].task \in 0 .. MaxTasks
    BY <2>1 DEF Grounded, RunRecord, StepStatus
  <2>3. run.step[s].task \in TaskIds
    BY <2>2, ConstFacts
  <2>4. spent[run.step[s].task] = 0
    BY <2>1, <2>3
  <2>5. QED
    BY <2>1, <2>4 DEF Unrecorded
<1>2. IsFiniteSet(Unrecorded(run, spent))
  BY StepsFinite, FS_Subset DEF Unrecorded
<1>3. /\ IsFiniteSet(Unrecorded(new, spent'))
      /\ Cardinality(Unrecorded(new, spent')) <= Cardinality(Unrecorded(run, spent))
  BY <1>1, <1>2, FS_Subset
<1>4. Cardinality(Unrecorded(new, spent')) \in Nat /\ Cardinality(Unrecorded(run, spent)) \in Nat
  BY <1>2, <1>3, FS_CardinalityType
<1>5. QED
  BY <1>3, <1>4

LEMMA NothingUnrecorded == \A records : Cardinality(Unrecorded(NewRun, records)) = 0
<1>1. \A records : Unrecorded(NewRun, records) = {}
  BY DEF Unrecorded, NewRun, AbsentStep
<1>2. QED
  BY <1>1, FS_EmptySet

LEMMA RecordedStep ==
  ASSUME RunInv, RecordedInv, RunStep
  PROVE  RecordedInv'
<1>0. /\ TypeOK /\ GroundedInv
      /\ api \in RunRecord /\ cache \in RunRecord /\ mem \in RunRecord
      /\ Grounded(api, issued, taskStep) /\ Grounded(cache, issued, taskStep)
      /\ Grounded(mem, issued, taskStep)
  BY DEF RunInv, TypeOK, GroundedInv
<1>1. /\ faults \in Nat /\ faults' \in Nat /\ faults <= faults'
      /\ \A t \in TaskIds : spent[t] \in Nat /\ spent'[t] \in Nat /\ spent[t] <= spent'[t]
  BY <1>0, SpentGrows
<1>2. ASSUME NEW new, new.step = api.step \/ new.step = cache.step \/ new.step = mem.step
      PROVE  Cardinality(Unrecorded(new, spent')) <= faults'
  BY <1>0, <1>1, <1>2, UnrecordedShrinks DEF RecordedInv
<1>3. Cardinality(Unrecorded(api', spent')) <= faults' /\ Cardinality(Unrecorded(cache', spent')) <= faults'
  BY <1>0, <1>2, CopiesFlow
<1>4. CASE ~CollectStep /\ ~PassStep /\ ~SubmitStep /\ ~JudgeStep
  <2>1. \/ mem'.step = mem.step \/ mem' = NewRun
        \/ mem'.step = cache.step \/ mem'.step = api.step
    BY <1>0, <1>4, MemFlow
  <2>2. Cardinality(Unrecorded(mem', spent')) <= faults'
    BY <1>1, <1>2, <2>1, NothingUnrecorded
  <2>3. QED
    BY <1>3, <2>2 DEF RecordedInv
<1>5. CASE PassStep \/ SubmitStep
  <2>1. Submitting /\ at \in Steps
    BY <1>0, <1>5, SubmitFacts DEF PassStep, Submitting
  <2>2. PICK st \in StepStatus :
          Advance(st) /\ (st.phase = "Succeeded" => st = mem.step[at])
    <3>1. CASE PassStep
      <4>1. Current.phase = "Succeeded" => Current = mem.step[at]
        BY DEF Current, Resumed
      <4>2. QED
        BY <3>1, <4>1 DEF PassStep, Passed
    <3>2. CASE SubmitStep
      BY <1>0, <3>2, SubmitFacts
    <3>3. QED
      BY <1>5, <3>1, <3>2
  <2>3. /\ mem'.step[at] = st
        /\ \A s \in Steps : s # at => mem'.step[s] = mem.step[s]
    BY <1>0, <2>1, <2>2, AdvanceFacts
  <2>4. \A s \in Steps : mem'.step[s].phase = "Succeeded" =>
          mem.step[s].phase = "Succeeded" /\ mem'.step[s].task = mem.step[s].task
    BY <2>2, <2>3
  <2>5. Cardinality(Unrecorded(mem', spent')) <= faults'
    BY <1>0, <1>1, <2>4, UnrecordedShrinks DEF RecordedInv
  <2>6. QED
    BY <1>3, <2>5 DEF RecordedInv
<1>6. CASE JudgeStep
  <2>1. ASSUME NEW s \in Steps, mem'.step[s].phase = "Succeeded"
        PROVE  mem'.step[s] = mem.step[s]
    <3>1. mem.step[s] \in StepStatus
      BY <1>0, <2>1 DEF RunRecord
    <3>2. QED
      BY <1>6, <2>1, <3>1 DEF JudgeStep, Judged, StepStatus
  <2>2. Cardinality(Unrecorded(mem', spent')) <= faults'
    BY <1>0, <1>1, <2>1, UnrecordedShrinks DEF RecordedInv
  <2>3. QED
    BY <1>3, <2>2 DEF RecordedInv
<1>7. CASE CollectStep
  <2> DEFINE run == InitializeRunSteps(mem)
  <2>1. /\ run \in RunRecord /\ mem' \in RunRecord
        /\ taskOut \in [TaskIds -> Outputs \cup {""}]
        /\ \A s \in Steps :
             run.step[s] = IF mem.phase = "" THEN [AbsentStep EXCEPT !.phase = "Pending"]
                           ELSE mem.step[s]
    BY <1>0, <1>7, CollectFacts
  <2>2. PICK invalid : mem' = Collected(run, invalid)
    BY <1>7 DEF CollectStep
  <2>3. \/ RecordSpend(run, AnsweredOk(run)) /\ faults' = faults
        \/ faults' = faults + 1 /\ \E s \in AnsweredOk(run) : RecordSpend(run, AnsweredOk(run) \ {s})
    BY <1>7 DEF CollectStep
  <2> HIDE DEF run
  <2>4. /\ [AbsentStep EXCEPT !.phase = "Pending"].phase = "Pending"
        /\ [AbsentStep EXCEPT !.phase = "Pending"].task = NoTask
    BY DEF AbsentStep
  <2>5. ASSUME NEW steps, RecordSpend(run, steps), NEW s \in Unrecorded(mem', spent')
        PROVE  s \in Unrecorded(mem, spent) \/ (s \in AnsweredOk(run) /\ s \notin steps)
    <3>1. s \in Steps /\ mem'.step[s].phase = "Succeeded" /\ spent'[mem'.step[s].task] = 0
      BY <2>5 DEF Unrecorded
    <3>2. CollectedTo(run, s, run.step[s], mem'.step[s])
      BY <2>1, <2>2, <3>1, CollectedStepFacts
    <3>3. /\ mem'.step[s].task = run.step[s].task
          /\ run.step[s].phase = "Succeeded" \/ s \in AnsweredOk(run)
      BY <3>1, <3>2 DEF CollectedTo
    <3>4. run.step[s].phase \in {"Running", "Succeeded"}
      BY <3>3 DEF AnsweredOk, Answered
    <3>5. run.step[s] = mem.step[s]
      BY <2>1, <2>4, <3>1, <3>4
    <3>6. run.step[s].task # NoTask /\ run.step[s].task \in 0 .. MaxTasks
      BY <1>0, <3>1, <3>4, <3>5 DEF Grounded, RunRecord, StepStatus
    <3>7. run.step[s].task \in TaskIds
      BY <3>6, ConstFacts
    <3>8. s \in steps => spent'[run.step[s].task] > 0
      BY <1>0, <2>5, <3>7, RecordTypes
    <3>9. s \notin steps
      BY <3>1, <3>3, <3>8
    <3>10. spent[run.step[s].task] = 0
      BY <1>1, <3>1, <3>3, <3>7
    <3>11. QED
      BY <3>1, <3>3, <3>5, <3>9, <3>10 DEF Unrecorded
  <2>6. IsFiniteSet(Unrecorded(mem, spent))
    BY StepsFinite, FS_Subset DEF Unrecorded
  <2>7. CASE RecordSpend(run, AnsweredOk(run)) /\ faults' = faults
    <3>1. Unrecorded(mem', spent') \subseteq Unrecorded(mem, spent)
      BY <2>5, <2>7
    <3>2. /\ IsFiniteSet(Unrecorded(mem', spent'))
          /\ Cardinality(Unrecorded(mem', spent')) <= Cardinality(Unrecorded(mem, spent))
      BY <2>6, <3>1, FS_Subset
    <3>3. Cardinality(Unrecorded(mem', spent')) \in Nat /\ Cardinality(Unrecorded(mem, spent)) \in Nat
      BY <2>6, <3>2, FS_CardinalityType
    <3>4. Cardinality(Unrecorded(mem', spent')) <= faults'
      BY <1>1, <2>7, <3>2, <3>3 DEF RecordedInv
    <3>5. QED
      BY <1>3, <3>4 DEF RecordedInv
  <2>8. ASSUME NEW x \in AnsweredOk(run), RecordSpend(run, AnsweredOk(run) \ {x}),
               faults' = faults + 1
        PROVE  RecordedInv'
    <3>1. Unrecorded(mem', spent') \subseteq Unrecorded(mem, spent) \cup {x}
      BY <2>5, <2>8
    <3>2. /\ Cardinality(Unrecorded(mem', spent')) <= Cardinality(Unrecorded(mem, spent)) + 1
          /\ Cardinality(Unrecorded(mem', spent')) \in Nat
          /\ Cardinality(Unrecorded(mem, spent)) \in Nat
      BY <2>6, <3>1, OneMore
    <3>3. Cardinality(Unrecorded(mem', spent')) <= faults'
      BY <1>1, <2>8, <3>2 DEF RecordedInv
    <3>4. QED
      BY <1>3, <3>3 DEF RecordedInv
  <2>9. QED
    BY <2>3, <2>7, <2>8
<1>8. QED
  BY <1>4, <1>5, <1>6, <1>7

LEMMA DeletionFlow ==
  ASSUME TypeOK, RunStep
  PROVE  ~PersistStep => (api.deleting => api'.deleting)
<1>1. /\ WithoutFinalizer(api).deleting = api.deleting
      /\ [api EXCEPT !.finalizer = TRUE].deleting = api.deleting
      /\ [api EXCEPT !.deleting = TRUE, !.exists = api.finalizer].deleting = TRUE
  BY FinalizerTypes DEF TypeOK, RunRecord
<1>2. CASE GoneStep \/ ReleaseStep
  BY <1>1, <1>2 DEF GoneStep, ReleaseStep, Store, object
<1>3. CASE LoadStep
  BY <1>1, <1>3 DEF LoadStep, Store, object
<1>4. CASE OutsideStep
  BY <1>1, <1>4 DEF OutsideStep, object
<1>5. CASE LoseStep \/ CollectStep \/ PassStep \/ SubmitStep \/ JudgeStep
  BY <1>5 DEF LoseStep, CollectStep, PassStep, SubmitStep, Submitting, JudgeStep, object
<1>6. QED
  BY <1>2, <1>3, <1>4, <1>5 DEF RunStep

LEMMA AwaitsSame ==
  ASSUME NEW run, NEW new, NEW t, new.step = run.step
  PROVE  Awaits(new, t) <=> Awaits(run, t)
BY DEF Awaits

LEMMA NewRunAwaitsNone == \A t : ~Awaits(NewRun, t)
BY DEF Awaits, NewRun, AbsentStep

LEMMA SpendStep ==
  ASSUME RunInv, SpendInv, RunStep
  PROVE  SpendInv'
<1> SUFFICES ASSUME NEW t \in TaskIds
             PROVE  SpendOK(t)'
  BY DEF SpendInv
<1>0. /\ TypeOK /\ ObjectInv /\ SpendOK(t)
      /\ api \in RunRecord /\ cache \in RunRecord /\ mem \in RunRecord
      /\ Grounded(mem, issued, taskStep)
  BY DEF RunInv, TypeOK, GroundedInv, SpendInv
<1>1. /\ faults \in Nat /\ spent[t] \in Nat /\ faults' \in Nat /\ faults <= faults'
      /\ TaskIds \subseteq Nat /\ TasksGrow
  BY <1>0, SpentGrows, TasksGrowing DEF TaskIds
<1>2. CASE GoneStep
  <2>1. /\ spent' = spent /\ pc' = "idle" /\ mem' = NewRun /\ pc = "idle"
        /\ issued' = issued
    BY <1>2 DEF GoneStep, PassOver
  <2>2. api'.step = api.step /\ (api.deleting => api'.deleting)
    BY <1>0, <1>2, CopiesFlow, DeletionFlow DEF GoneStep, PersistStep
  <2>3. QED
    BY <1>0, <1>1, <2>1, <2>2, AwaitsSame, NewRunAwaitsNone DEF SpendOK
<1>3. CASE ReleaseStep
  <2>1. /\ spent' = spent /\ pc' = "idle" /\ mem' = NewRun /\ pc = "load"
        /\ issued' = issued
    BY <1>3 DEF ReleaseStep, PassOver
  <2>2. api'.step = api.step /\ (api.deleting => api'.deleting)
    BY <1>0, <1>3, CopiesFlow, DeletionFlow DEF ReleaseStep, PersistStep
  <2>3. QED
    BY <1>0, <1>1, <2>1, <2>2, AwaitsSame, NewRunAwaitsNone DEF SpendOK
<1>4. CASE LoseStep
  <2>1. /\ pc' = "idle" /\ mem' = NewRun /\ pc # "idle" /\ api' = api /\ issued' = issued
    BY <1>4 DEF LoseStep, PassOver, object
  <2>2. CASE faults' = faults + 1 /\ spent' = spent
    BY <1>0, <1>1, <2>1, <2>2, NewRunAwaitsNone DEF SpendOK
  <2>3. CASE faults' = faults /\ spent' = spent /\ ~memFresh /\ pc = "persist"
    BY <1>0, <1>1, <2>1, <2>3, NewRunAwaitsNone DEF SpendOK
  <2>4. ASSUME faults' = faults + 1, pc = "load",
               NEW done \in SUBSET AnsweredOk(mem), RecordSpend(mem, done)
        PROVE  SpendOK(t)'
    <3>1. /\ spent'[t] \in Nat /\ spent'[t] <= spent[t] + 1
          /\ ~(\E s \in done : mem.step[s].task = t) => spent'[t] = spent[t]
      BY <1>0, <2>4, RecordTypes
    <3>2. CASE \E s \in done : mem.step[s].task = t
      <4>1. PICK s \in AnsweredOk(mem) : mem.step[s].task = t
        BY <2>4, <3>2
      <4>2. s \in Steps /\ mem.step[s].phase = "Running" /\ mem.step[s].task # NoTask
        BY <4>1 DEF AnsweredOk, Answered
      <4>3. Awaits(mem, t) /\ ~(t > issued)
        BY <1>0, <1>1, <4>1, <4>2 DEF Awaits, Grounded, TasksGrow
      <4>4. QED
        BY <1>0, <1>1, <2>1, <2>4, <3>1, <4>3, NewRunAwaitsNone DEF SpendOK
    <3>3. CASE ~(\E s \in done : mem.step[s].task = t)
      BY <1>0, <1>1, <2>1, <2>4, <3>1, <3>3, NewRunAwaitsNone DEF SpendOK
    <3>4. QED
      BY <3>2, <3>3
  <2>5. QED
    BY <1>4, <2>2, <2>3, <2>4 DEF LoseStep
<1>5. CASE LoadStep
  <2>1. /\ pc = "idle" /\ pc' = "load" /\ spent' = spent /\ issued' = issued
        /\ \/ cacheFresh /\ faults' = faults
           \/ ~cacheFresh /\ faults' = faults + 1
        /\ ~cache.deleting
    BY <1>5 DEF LoadStep
  <2>2. /\ api'.step = api.step /\ (api.deleting => api'.deleting)
        /\ mem'.step = cache.step \/ mem'.step = api.step
        /\ memFresh' = cacheFresh \/ memFresh' = TRUE
    <3>1. ~PersistStep /\ ~CollectStep /\ ~PassStep /\ ~SubmitStep /\ ~JudgeStep
      BY <2>1 DEF PersistStep, CollectStep, PassStep, SubmitStep, Submitting, JudgeStep
    <3>2. api'.step = api.step /\ (api.deleting => api'.deleting)
      BY <1>0, <3>1, CopiesFlow, DeletionFlow
    <3>3. mem' = cache \/ mem' = api'
      BY <1>5 DEF LoadStep
    <3>4. QED
      BY <1>5, <3>2, <3>3 DEF LoadStep
  <2>3. cacheFresh => cache = api
    BY <1>0 DEF ObjectInv
  <2>4. CASE cacheFresh
    BY <1>0, <1>1, <2>1, <2>2, <2>3, <2>4, AwaitsSame DEF SpendOK
  <2>5. CASE ~cacheFresh
    BY <1>0, <1>1, <2>1, <2>2, <2>5, AwaitsSame DEF SpendOK
  <2>6. QED
    BY <2>4, <2>5
<1>6. CASE CollectStep
  <2> DEFINE run == InitializeRunSteps(mem)
  <2>1. /\ run \in RunRecord /\ mem' \in RunRecord
        /\ taskOut \in [TaskIds -> Outputs \cup {""}]
        /\ \A s \in Steps :
             run.step[s] = IF mem.phase = "" THEN [AbsentStep EXCEPT !.phase = "Pending"]
                           ELSE mem.step[s]
    BY <1>0, <1>6, CollectFacts
  <2>2. PICK invalid : mem' = Collected(run, invalid)
    BY <1>6 DEF CollectStep
  <2>3. PICK steps \in SUBSET AnsweredOk(run) : RecordSpend(run, steps)
    <3>1. \/ RecordSpend(run, AnsweredOk(run))
          \/ \E s \in AnsweredOk(run) : RecordSpend(run, AnsweredOk(run) \ {s})
      BY <1>6 DEF CollectStep
    <3>2. QED
      BY <3>1
  <2>4. /\ pc = "load" /\ pc' = "submit" /\ api' = api /\ memFresh' = memFresh /\ issued' = issued
    BY <1>6 DEF CollectStep, object
  <2> HIDE DEF run
  <2>5. /\ spent'[t] \in Nat /\ spent'[t] <= spent[t] + 1
        /\ ~(\E s \in steps : run.step[s].task = t) => spent'[t] = spent[t]
    BY <1>0, <2>3, RecordTypes
  <2>6. ASSUME NEW s \in Steps, run.step[s].phase = "Running"
        PROVE  run.step[s] = mem.step[s]
    <3>1. [AbsentStep EXCEPT !.phase = "Pending"].phase = "Pending"
      BY DEF AbsentStep
    <3>2. QED
      BY <2>1, <2>6, <3>1
  <2>7. ASSUME NEW s \in steps, run.step[s].task = t
        PROVE  /\ s \in Steps /\ s \in Answered(run) /\ taskStep[t] = s
               /\ Awaits(mem, t) /\ ~(t > issued)
    <3>1. s \in Steps /\ s \in Answered(run) /\ run.step[s].phase = "Running" /\ run.step[s].task # NoTask
      BY <2>3, <2>7 DEF AnsweredOk, Answered
    <3>2. mem.step[s].phase = "Running" /\ mem.step[s].task = t
      BY <2>6, <2>7, <3>1
    <3>3. QED
      BY <1>0, <1>1, <2>7, <3>1, <3>2 DEF Awaits, Grounded, TasksGrow
  <2>8. ASSUME Awaits(mem', t)
        PROVE  Awaits(mem, t) /\ spent'[t] = spent[t]
    <3>1. PICK s \in Steps : mem'.step[s].phase = "Running" /\ mem'.step[s].task = t
      BY <2>8 DEF Awaits
    <3>2. CollectedTo(run, s, run.step[s], mem'.step[s])
      BY <2>1, <2>2, <3>1, CollectedStepFacts
    <3>3. s \notin Answered(run) /\ run.step[s].phase = "Running" /\ run.step[s].task = t
      BY <3>1, <3>2 DEF CollectedTo
    <3>4. mem.step[s].phase = "Running" /\ mem.step[s].task = t
      BY <2>6, <3>3
    <3>5. taskStep[t] = s
      BY <1>0, <3>4 DEF Grounded
    <3>6. ~(\E x \in steps : run.step[x].task = t)
      BY <2>7, <3>3, <3>5
    <3>7. QED
      BY <2>5, <3>4, <3>6 DEF Awaits
  <2>9. CASE \E s \in steps : run.step[s].task = t
    <3>1. Awaits(mem, t) /\ ~(t > issued)
      BY <2>7, <2>9
    <3>2. QED
      BY <1>0, <1>1, <2>4, <2>5, <2>8, <3>1 DEF SpendOK
  <2>10. CASE ~(\E s \in steps : run.step[s].task = t)
    BY <1>0, <1>1, <2>4, <2>5, <2>8, <2>10 DEF SpendOK
  <2>11. QED
    BY <2>9, <2>10
<1>7. CASE PassStep
  <2>1. PICK st \in StepStatus : Passed(st) /\ Advance(st)
    BY <1>7 DEF PassStep
  <2>2. /\ mem'.step[at] = st /\ at \in Steps /\ pc' = "submit" /\ pc = "submit"
        /\ \A s \in Steps : s # at => mem'.step[s] = mem.step[s]
    BY <1>0, <1>7, <2>1, AdvanceFacts DEF PassStep
  <2>3. st.phase = "Running" => st = mem.step[at]
    BY <1>0, <2>1, <2>2, CurrentFacts DEF Passed
  <2>4. Awaits(mem', t) => Awaits(mem, t)
    BY <2>2, <2>3 DEF Awaits
  <2>5. spent' = spent /\ api' = api /\ memFresh' = memFresh /\ issued' = issued
    BY <1>7 DEF PassStep, Submitting, tasks, object
  <2>6. QED
    BY <1>0, <1>1, <2>2, <2>4, <2>5 DEF SpendOK
<1>8. CASE SubmitStep
  <2>1. /\ Submitting /\ issued' = issued + 1 /\ spent' = spent /\ issued \in Nat
    BY <1>0, <1>8, SubmitFacts
  <2>2. PICK st \in StepStatus : Advance(st) /\ st.phase = "Running" /\ st.task = issued + 1
    BY <1>0, <1>8, SubmitFacts
  <2>3. /\ mem'.step[at] = st /\ at \in Steps /\ pc' = "submit" /\ pc = "submit"
        /\ \A s \in Steps : s # at => mem'.step[s] = mem.step[s]
    BY <1>0, <2>1, <2>2, AdvanceFacts
  <2>4. Awaits(mem', t) => Awaits(mem, t) \/ t = issued + 1
    BY <2>2, <2>3 DEF Awaits
  <2>5. api' = api /\ memFresh' = memFresh
    BY <2>1 DEF Submitting, object
  <2>6. t = issued + 1 => spent[t] = 0
    BY <1>0, <2>1 DEF SpendOK
  <2>7. QED
    BY <1>0, <1>1, <2>1, <2>3, <2>4, <2>5, <2>6 DEF SpendOK
<1>9. CASE JudgeStep
  <2>1. /\ spent' = spent /\ issued' = issued /\ api' = api /\ memFresh' = memFresh
        /\ faults' = faults /\ pc' = "persist" /\ pc \in {"load", "submit"}
    BY <1>9 DEF JudgeStep, object
  <2>2. ASSUME NEW s \in Steps, mem'.step[s].phase = "Running"
        PROVE  mem'.step[s] = mem.step[s]
    <3>1. mem.step[s] \in StepStatus
      BY <1>0, <2>2 DEF RunRecord
    <3>2. QED
      BY <1>9, <2>2, <3>1 DEF JudgeStep, Judged, StepStatus
  <2>3. Awaits(mem', t) => Awaits(mem, t)
    BY <2>2 DEF Awaits
  <2>4. QED
    BY <1>0, <1>1, <2>1, <2>3 DEF SpendOK
<1>10. CASE PersistStep
  <2>1. /\ spent' = spent /\ issued' = issued /\ api' = mem /\ mem' = NewRun
        /\ faults' = faults /\ pc' = "idle"
    BY <1>10 DEF PersistStep, PassOver, Store
  <2>2. QED
    BY <1>0, <1>1, <2>1, NewRunAwaitsNone DEF SpendOK
<1>11. CASE OutsideStep
  <2>1. /\ spent' = spent /\ issued' = issued /\ mem' = mem /\ pc' = pc
    BY <1>11 DEF OutsideStep
  <2>2. CASE api' = api /\ faults' = faults /\ memFresh' = memFresh
    BY <1>0, <1>1, <2>1, <2>2 DEF SpendOK
  <2>3. CASE api' = api /\ faults' = faults + 1 /\ memFresh' = FALSE
    BY <1>0, <1>1, <2>1, <2>3 DEF SpendOK
  <2>4. CASE faults' = faults /\ api' = [api EXCEPT !.deleting = TRUE, !.exists = api.finalizer]
    <3>1. api'.deleting = TRUE
      BY <1>0, <2>4 DEF RunRecord
    <3>2. QED
      BY <1>0, <1>1, <2>1, <2>4, <3>1 DEF SpendOK
  <2>5. QED
    BY <1>11, <2>2, <2>3, <2>4 DEF OutsideStep
<1>12. QED
  BY <1>2, <1>3, <1>4, <1>5, <1>6, <1>7, <1>8, <1>9, <1>10, <1>11 DEF RunStep

\* For every pipeline and every number of faults: what is missing from the
\* SpendStore, and what is in it twice, is accounted for by failed Record
\* calls and by passes that were lost or started from an old copy.
THEOREM SpendStaysExact == Spec => []SpendIsExact
<1>1. Init => SpendInv /\ RecordedInv
  <2> SUFFICES ASSUME Init PROVE SpendInv /\ RecordedInv
    OBVIOUS
  <2>1. /\ api = NewRun /\ cache = NewRun /\ mem = NewRun /\ faults = 0
        /\ \A t \in TaskIds : spent[t] = 0
    BY DEF Init, ObjectInit
  <2>2. SpendInv
    BY <2>1, NewRunAwaitsNone DEF SpendInv, SpendOK
  <2>3. RecordedInv
    BY <2>1, NothingUnrecorded DEF RecordedInv
  <2>4. QED
    BY <2>2, <2>3
<1>2. RunInv /\ SpendInv /\ RecordedInv /\ [Next]_vars => (SpendInv /\ RecordedInv)'
  <2> SUFFICES ASSUME RunInv, SpendInv, RecordedInv, [Next]_vars
               PROVE  SpendInv' /\ RecordedInv'
    OBVIOUS
  <2>1. CASE UNCHANGED vars
    <3>1. UNCHANGED <<api, cache, mem, memFresh, pc, issued, spent, faults>>
      BY <2>1 DEF vars, object, pass, tasks
    <3>2. QED
      BY <3>1 DEF SpendInv, SpendOK, RecordedInv
  <2>2. CASE RunStep
    BY <2>2, SpendStep, RecordedStep
  <2>3. QED
    BY <2>1, <2>2, RunInvStep
<1>3. SpendInv /\ RecordedInv => SpendIsExact
  <2>1. SpendInv => SpendBound
    BY DEF SpendInv, SpendOK, SpendBound
  <2>2. RecordedInv => SpendRecorded
    BY DEF RecordedInv, Unrecorded, SpendRecorded
  <2>3. QED
    BY <2>1, <2>2 DEF SpendIsExact
<1>4. QED
  BY RunInitially, RunInvStep, <1>1, <1>2, <1>3, PTL DEF Spec

-----------------------------------------------------------------------------
(* Resubmissions.  The status of a step counts the tasks it has been given *)
(* (Rounds): loops and validation retries move between the fields of that  *)
(* sum and never lower it.  A pass adds one task at most; when it is lost, *)
(* or starts from an old copy, the number of tasks runs ahead of the       *)
(* stored status by one, and a fault has been counted.                     *)

\* A step that is not under way has no task, and its counters are in bounds.
Tidy(run) ==
  /\ run.phase = "" => \A s \in Steps : run.step[s] = AbsentStep
  /\ \A s \in Steps :
       /\ run.step[s].iter <= Pipeline[s].loop
       /\ run.step[s].phase # "Failed" =>
            run.step[s].attempts = 0 \/ run.step[s].attempts < Pipeline[s].attempts
       /\ run.step[s].phase \in {"absent", "Pending", "WarmingUp"} => run.step[s].task = NoTask

TidyInv == Tidy(api) /\ Tidy(cache) /\ Tidy(mem)

LEMMA NewRunTidy == Tidy(NewRun)
<1>1. \A s \in Steps : Pipeline[s].loop \in Nat
  BY StepsFacts DEF StepSpec
<1>2. \A n \in Nat : 0 <= n
  OBVIOUS
<1>3. ASSUME NEW s \in Steps
      PROVE  /\ NewRun.step[s] = AbsentStep /\ AbsentStep.iter = 0 /\ AbsentStep.attempts = 0
             /\ AbsentStep.task = NoTask
  BY <1>3 DEF NewRun, AbsentStep
<1>4. QED
  BY <1>1, <1>2, <1>3 DEF Tidy

LEMMA TidySame ==
  ASSUME NEW run, NEW new, Tidy(run), new.step = run.step, new.phase = run.phase
  PROVE  Tidy(new)
BY DEF Tidy

LEMMA TidyStep ==
  ASSUME RunInv, TidyInv, RunStep
  PROVE  TidyInv'
<1>0. /\ TypeOK /\ SubmitsRunning /\ mem \in RunRecord /\ Tidy(mem)
      /\ \A s \in Steps : Pipeline[s].loop \in Nat /\ mem.step[s] \in StepStatus
  BY StepsFacts DEF RunInv, TypeOK, ObjectInv, TidyInv, StepSpec, RunRecord
<1>1. Tidy(api') /\ Tidy(cache')
  BY <1>0, CopiesFlow, TidySame DEF TidyInv
<1>2. CASE ~CollectStep /\ ~PassStep /\ ~SubmitStep /\ ~JudgeStep
  <2>1. \/ mem' = mem \/ mem' = NewRun \/ mem' = cache
        \/ mem'.phase = api.phase /\ mem'.step = api.step
    BY <1>0, <1>2, MemFlow
  <2>2. Tidy(mem')
    BY <2>1, TidySame, NewRunTidy DEF TidyInv
  <2>3. QED
    BY <1>1, <2>2 DEF TidyInv
<1>3. CASE CollectStep
  <2> DEFINE run == InitializeRunSteps(mem)
  <2>1. /\ run \in RunRecord /\ mem' \in RunRecord /\ mem'.phase = "Running"
        /\ taskOut \in [TaskIds -> Outputs \cup {""}]
        /\ \A s \in Steps :
             run.step[s] = IF mem.phase = "" THEN [AbsentStep EXCEPT !.phase = "Pending"]
                           ELSE mem.step[s]
    BY <1>0, <1>3, CollectFacts
  <2>2. PICK invalid : mem' = Collected(run, invalid)
    BY <1>3 DEF CollectStep
  <2> HIDE DEF run
  <2>3. ASSUME NEW s \in Steps
        PROVE  /\ run.step[s].iter <= Pipeline[s].loop
               /\ run.step[s].phase # "Failed" =>
                    run.step[s].attempts = 0 \/ run.step[s].attempts < Pipeline[s].attempts
               /\ run.step[s].phase \in {"absent", "Pending", "WarmingUp"} =>
                    run.step[s].task = NoTask
    <3>1. /\ [AbsentStep EXCEPT !.phase = "Pending"].task = NoTask
          /\ [AbsentStep EXCEPT !.phase = "Pending"].iter = 0
          /\ [AbsentStep EXCEPT !.phase = "Pending"].attempts = 0
      BY DEF AbsentStep
    <3>2. CASE mem.phase = ""
      <4>1. run.step[s].task = NoTask /\ run.step[s].iter = 0 /\ run.step[s].attempts = 0
        BY <2>1, <2>3, <3>1, <3>2
      <4>2. Pipeline[s].loop \in Nat
        BY <1>0, <2>3
      <4>3. QED
        BY <4>1, <4>2
    <3>3. CASE mem.phase # ""
      BY <1>0, <2>1, <2>3, <3>3 DEF Tidy
    <3>4. QED
      BY <3>2, <3>3
  <2>4. ASSUME NEW s \in Steps
        PROVE  /\ mem'.step[s].iter <= Pipeline[s].loop
               /\ mem'.step[s].phase # "Failed" =>
                    mem'.step[s].attempts = 0 \/ mem'.step[s].attempts < Pipeline[s].attempts
               /\ mem'.step[s].phase \in {"absent", "Pending", "WarmingUp"} =>
                    mem'.step[s].task = NoTask
    <3>1. CollectedTo(run, s, run.step[s], mem'.step[s])
      BY <2>1, <2>2, <2>4, CollectedStepFacts
    <3> DEFINE st == run.step[s]
               c == mem'.step[s]
    <3> HIDE DEF st, c
    <3>2. /\ st.iter <= Pipeline[s].loop => c.iter <= Pipeline[s].loop
          /\ c.phase # "Failed" => c.attempts = st.attempts \/ c.attempts < Pipeline[s].attempts
          /\ st.phase = "Failed" => c.phase = "Failed"
          /\ c.phase \in {"absent", "WarmingUp"} => st.phase = c.phase /\ c.task = st.task
          /\ c.phase = "Pending" => c.task = NoTask \/ (st.phase = "Pending" /\ c.task = st.task)
      BY <3>1 DEF CollectedTo, st, c
    <3>3. /\ st.iter <= Pipeline[s].loop
          /\ st.phase # "Failed" => st.attempts = 0 \/ st.attempts < Pipeline[s].attempts
          /\ st.phase \in {"absent", "Pending", "WarmingUp"} => st.task = NoTask
      BY <2>3, <2>4 DEF st
    <3>4. /\ c.iter <= Pipeline[s].loop
          /\ c.phase # "Failed" => c.attempts = 0 \/ c.attempts < Pipeline[s].attempts
          /\ c.phase \in {"absent", "Pending", "WarmingUp"} => c.task = NoTask
      BY <3>2, <3>3
    <3>5. QED
      BY <3>4 DEF c
  <2>5. Tidy(mem')
    BY <2>1, <2>4 DEF Tidy
  <2>6. QED
    BY <1>1, <2>5 DEF TidyInv
<1>4. ASSUME NEW st \in StepStatus, Submitting, Advance(st),
             st.iter = mem.step[at].iter, st.attempts = mem.step[at].attempts,
             st.phase # "Failed" => mem.step[at].phase # "Failed",
             st.phase \in {"absent", "Pending", "WarmingUp"} => st.task = NoTask
      PROVE  Tidy(mem')
  <2>1. /\ mem'.step[at] = st /\ at \in Steps /\ mem'.phase = mem.phase /\ pc = "submit"
        /\ \A s \in Steps : s # at => mem'.step[s] = mem.step[s]
    BY <1>0, <1>4, AdvanceFacts
  <2>2. mem.phase = "Running"
    BY <1>0, <2>1 DEF SubmitsRunning
  <2>3. QED
    BY <1>0, <1>4, <2>1, <2>2 DEF Tidy
<1>5. CASE PassStep
  <2>1. PICK st \in StepStatus : Passed(st) /\ Advance(st)
    BY <1>5 DEF PassStep
  <2>2. Submitting /\ at \in Steps
    BY <1>5 DEF PassStep, Submitting
  <2>3. /\ Current.phase # "Failed" => mem.step[at].phase # "Failed"
        /\ Current.phase \in {"absent", "Pending", "WarmingUp"} => mem.step[at].task = NoTask
    BY <1>0, <2>2, CurrentFacts DEF Tidy
  <2>4. Eligible => Current.phase # "Failed" /\ Current.phase \in {"absent", "Pending", "WarmingUp"}
    BY DEF Eligible
  <2>5. Tidy(mem')
    BY <1>4, <2>1, <2>2, <2>3, <2>4 DEF Passed
  <2>6. QED
    BY <1>1, <2>5 DEF TidyInv
<1>6. CASE SubmitStep
  <2>1. Submitting /\ Eligible /\ at \in Steps
    BY <1>0, <1>6, SubmitFacts
  <2>2. PICK st \in StepStatus :
          /\ Advance(st) /\ st.phase = "Running"
          /\ st.iter = mem.step[at].iter /\ st.attempts = mem.step[at].attempts
    BY <1>0, <1>6, SubmitFacts
  <2>3. mem.step[at].phase # "Failed"
    BY <1>0, <2>1, CurrentFacts DEF Eligible
  <2>4. Tidy(mem')
    BY <1>4, <2>1, <2>2, <2>3
  <2>5. QED
    BY <1>1, <2>4 DEF TidyInv
<1>7. CASE JudgeStep
  <2>1. ASSUME NEW s \in Steps
        PROVE  /\ mem'.step[s].task = mem.step[s].task
               /\ mem'.step[s].iter = mem.step[s].iter
               /\ mem'.step[s].attempts = mem.step[s].attempts
               /\ mem'.step[s].phase = mem.step[s].phase \/ mem'.step[s].phase = "Failed"
    <3>1. \/ mem'.step[s] = mem.step[s]
          \/ mem'.step[s] = [mem.step[s] EXCEPT !.phase = "Failed", !.why = "other"]
      BY <1>7, <2>1 DEF JudgeStep, Judged
    <3>2. ASSUME NEW st \in StepStatus
          PROVE  LET new == [st EXCEPT !.phase = "Failed", !.why = "other"]
                 IN  /\ new.task = st.task /\ new.iter = st.iter
                     /\ new.attempts = st.attempts /\ new.phase = "Failed"
      BY DEF StepStatus
    <3>3. mem.step[s] \in StepStatus
      BY <1>0, <2>1
    <3>4. CASE mem'.step[s] = mem.step[s]
      BY <3>4
    <3>5. CASE mem'.step[s] = [mem.step[s] EXCEPT !.phase = "Failed", !.why = "other"]
      BY <3>2, <3>3, <3>5
    <3>6. QED
      BY <3>1, <3>4, <3>5
  <2>2. Tidy(mem')
    <3>1. mem'.phase # ""
      BY <1>7 DEF JudgeStep, Judged
    <3>2. ASSUME NEW s \in Steps
          PROVE  /\ mem'.step[s].iter <= Pipeline[s].loop
                 /\ mem'.step[s].phase # "Failed" =>
                      \/ mem'.step[s].attempts = 0
                      \/ mem'.step[s].attempts < Pipeline[s].attempts
                 /\ mem'.step[s].phase \in {"absent", "Pending", "WarmingUp"} =>
                      mem'.step[s].task = NoTask
      BY <1>0, <2>1, <3>2 DEF Tidy
    <3>3. QED
      BY <3>1, <3>2 DEF Tidy
  <2>3. QED
    BY <1>1, <2>2 DEF TidyInv
<1>8. QED
  BY <1>2, <1>3, <1>5, <1>6, <1>7

\* One more task for step s is due to the current pass.
Spare(s) == IF pc \in {"idle", "persist"} \/ s < at THEN 1 ELSE 0

RoundsOK(s) ==
  LET n == Cardinality(TasksOf(s))
  IN  /\ pc # "idle" => n <= Rounds(mem.step[s]) + faults
      /\ n <= Rounds(cache.step[s]) + faults + Spare(s)
      /\ n <= Rounds(api.step[s]) + faults + Spare(s)
      /\ ~api.deleting /\ (pc = "idle" \/ ~memFresh) =>
           n + 1 <= Rounds(api.step[s]) + faults + Spare(s)

RoundsInv ==
  /\ pc \in {"idle", "load"} => at = 1
  /\ \A s \in Steps : RoundsOK(s)

LEMMA TasksCounted ==
  ASSUME TypeOK, RunStep, NEW s \in Steps
  PROVE  /\ Cardinality(TasksOf(s)) \in Nat /\ Cardinality(TasksOf(s))' \in Nat
         /\ ~(SubmitStep /\ s = at) => Cardinality(TasksOf(s))' = Cardinality(TasksOf(s))
         /\ Cardinality(TasksOf(s))' <= Cardinality(TasksOf(s)) + 1
<1>0. issued \in 0 .. MaxTasks /\ MaxTasks \in Nat
  BY ConstFacts DEF TypeOK
<1>1. issued \in Nat /\ MaxTasks \in Nat /\ issued \in 0 .. MaxTasks
  BY <1>0
<1>2. IsFiniteSet(TasksOf(s))
  <2>1. IsFiniteSet(1 .. issued) /\ TasksOf(s) \subseteq 1 .. issued
    BY <1>1, FS_Interval DEF TasksOf
  <2>2. QED
    BY <2>1, FS_Subset
<1>3. Cardinality(TasksOf(s)) \in Nat
  BY <1>2, FS_CardinalityType
<1>4. CASE ~SubmitStep
  <2>1. issued' = issued /\ taskStep' = taskStep
    BY <1>4 DEF RunStep, GoneStep, ReleaseStep, LoseStep, LoadStep, CollectStep, PassStep,
       JudgeStep, PersistStep, OutsideStep, PassOver, tasks
  <2>2. Cardinality(TasksOf(s))' = Cardinality(TasksOf(s))
    BY <2>1 DEF TasksOf
  <2>3. QED
    BY <1>3, <1>4, <2>2
<1>5. CASE SubmitStep
  <2>1. /\ issued + 1 \in TaskIds /\ issued' = issued + 1 /\ taskStep'[issued + 1] = at
        /\ \A t \in TaskIds : t # issued + 1 => taskStep'[t] = taskStep[t]
    BY <1>5, SubmitFacts
  <2>2. 1 .. issued' = (1 .. issued) \cup {issued + 1}
    BY <1>1, <2>1
  <2>3. \A t \in 1 .. issued : t \in TaskIds /\ t # issued + 1
    BY <1>1 DEF TaskIds
  <2>4. TasksOf(s)' = IF s = at THEN TasksOf(s) \cup {issued + 1} ELSE TasksOf(s)
    BY <2>1, <2>2, <2>3 DEF TasksOf
  <2>5. s # at => Cardinality(TasksOf(s))' = Cardinality(TasksOf(s))
    BY <2>4
  <2>6. TasksOf(s)' \subseteq TasksOf(s) \cup {issued + 1}
    BY <2>4
  <2>7. Cardinality(TasksOf(s)') \in Nat /\ Cardinality(TasksOf(s)') <= Cardinality(TasksOf(s)) + 1
    BY <1>2, <2>6, OneMore
  <2>8. Cardinality(TasksOf(s))' = Cardinality(TasksOf(s)')
    OBVIOUS
  <2>9. Cardinality(TasksOf(s))' \in Nat /\ Cardinality(TasksOf(s))' <= Cardinality(TasksOf(s)) + 1
    BY <2>7, <2>8
  <2>10. QED
    BY <1>3, <1>5, <2>5, <2>9
<1>6. QED
  BY <1>4, <1>5

LEMMA Slack ==
  ASSUME NEW n \in Nat, NEW r \in Nat, NEW f \in Nat, NEW x \in Nat,
         NEW g \in Nat, NEW y \in Nat
  PROVE  /\ n <= r + f + x /\ f + x <= g + y => n <= r + g + y
         /\ n + 1 <= r + f + x /\ f + x <= g + y => n + 1 <= r + g + y
         /\ n <= r + f + x /\ f + x + 1 <= g + y => n + 1 <= r + g + y
         /\ n + 1 <= r + f + x /\ f + x <= g + y + 1 => n <= r + g + y
         /\ n <= r + f /\ f <= g => n <= r + g
         /\ n <= r + f /\ f <= g => n <= r + g + y
         /\ n <= r + f /\ f <= g /\ y = 1 => n + 1 <= r + g + y
         /\ n <= r + g + y /\ y = 0 => n <= r + g
OBVIOUS

LEMMA OneMoreRound ==
  ASSUME NEW n \in Nat, NEW m \in Nat, NEW r \in Nat, NEW f \in Nat, NEW g \in Nat,
         m <= n + 1, f <= g
  PROVE  /\ n <= r + f => m <= (r + 1) + g /\ m <= r + g + 1
         /\ n + 1 <= r + f => m + 1 <= r + g + 1
OBVIOUS

LEMMA MoreRounds ==
  ASSUME NEW n \in Nat, NEW r \in Nat, NEW q \in Nat, NEW f \in Nat, NEW g \in Nat,
         n <= r + f, r <= q, f <= g
  PROVE  n <= q + g
OBVIOUS

\* A pass owes the stored version no task: it is over, or it will be lost.
Unspent == ~api.deleting /\ (pc = "idle" \/ ~memFresh)

LEMMA RoundsStep ==
  ASSUME RunInv, TidyInv, RoundsInv, RunStep
  PROVE  RoundsInv'
<1>0. /\ TypeOK /\ ObjectInv /\ (pc \in {"idle", "load"} => at = 1)
      /\ api \in RunRecord /\ cache \in RunRecord /\ mem \in RunRecord
      /\ Grounded(mem, issued, taskStep) /\ Tidy(mem)
      /\ at \in Nat /\ Steps \subseteq Nat \ {0}
  <2>1. at \in 1 .. Len(Pipeline) + 1
    BY DEF RunInv, TypeOK
  <2>2. at \in Nat /\ Steps \subseteq Nat \ {0}
    BY <2>1, StepsFacts
  <2>3. QED
    BY <2>2 DEF RunInv, TypeOK, GroundedInv, RoundsInv, TidyInv
<1>a. faults \in Nat /\ faults' \in Nat /\ faults <= faults'
  BY <1>0, SpentGrows
<1>b. (pc \in {"idle", "load"} => at = 1)'
  <2>1. CASE PassStep \/ SubmitStep
    BY <2>1 DEF PassStep, SubmitStep, Submitting, Advance
  <2>2. CASE ~PassStep /\ ~SubmitStep
    BY <1>0, <2>2 DEF RunStep, GoneStep, ReleaseStep, LoseStep, LoadStep, CollectStep,
       JudgeStep, PersistStep, OutsideStep, PassOver
  <2>3. QED
    BY <2>1, <2>2
<1> SUFFICES ASSUME NEW s \in Steps
             PROVE  RoundsOK(s)'
  BY <1>b DEF RoundsInv
<1> DEFINE n == Cardinality(TasksOf(s))
           ra == Rounds(api.step[s])
           rc == Rounds(cache.step[s])
           rm == Rounds(mem.step[s])
<1>c. /\ RoundsOK(s) /\ n \in Nat /\ n' \in Nat /\ n' <= n + 1
      /\ ~(SubmitStep /\ s = at) => n' = n
      /\ ra \in Nat /\ rc \in Nat /\ rm \in Nat /\ s \in Nat \ {0}
  <2>1. api.step[s] \in StepStatus /\ cache.step[s] \in StepStatus /\ mem.step[s] \in StepStatus
    BY <1>0 DEF RunRecord
  <2>2. QED
    BY <1>0, <2>1, RoundsType, TasksCounted DEF RoundsInv
<1>d. /\ ~PersistStep => api'.step = api.step /\ (api.deleting => api'.deleting) /\ ra' = ra
      /\ rc' = rc \/ rc' = ra
  <2>1. ~PersistStep => api'.step = api.step /\ (api.deleting => api'.deleting)
    BY <1>0, CopiesFlow, DeletionFlow
  <2>2. cache' = cache \/ cache' = api
    BY <1>0, CopiesFlow
  <2>3. QED
    BY <2>1, <2>2
<1> HIDE DEF n, ra, rc, rm
<1>e. /\ pc # "idle" => n <= rm + faults
      /\ n <= rc + faults + Spare(s)
      /\ n <= ra + faults + Spare(s)
      /\ ~api.deleting /\ (pc = "idle" \/ ~memFresh) => n + 1 <= ra + faults + Spare(s)
  BY <1>c DEF RoundsOK, n, ra, rc, rm
<1>f. ASSUME pc' # "idle" => n' <= rm' + faults',
             n' <= rc' + faults' + Spare(s)',
             n' <= ra' + faults' + Spare(s)',
             Unspent' => n' + 1 <= ra' + faults' + Spare(s)'
      PROVE  RoundsOK(s)'
  BY <1>f DEF RoundsOK, Unspent, n, ra, rc, rm
<1>g. /\ Spare(s) \in {0, 1} /\ Spare(s)' \in {0, 1}
      /\ pc \in {"idle", "persist"} => Spare(s) = 1
      /\ pc' \in {"idle", "persist"} => Spare(s)' = 1
      /\ pc = "load" => Spare(s) = 0
      /\ pc' = "load" => Spare(s)' = 0
  <2>1. (pc = "load" => ~(s < at)) /\ (pc' = "load" => ~(s < at'))
    BY <1>0, <1>b, <1>c
  <2>2. QED
    BY <2>1 DEF Spare
<1>h. /\ Spare(s) \in Nat /\ Spare(s)' \in Nat
      /\ ~PersistStep => ra' = ra /\ ra' \in Nat
      /\ rc' \in Nat
  BY <1>c, <1>d, <1>g
<1>i. ASSUME ~SubmitStep \/ s # at, ~PersistStep,
             faults + Spare(s) <= faults' + Spare(s)',
             pc' # "idle" => n <= rm' + faults',
             Unspent' => Unspent \/ faults + Spare(s) + 1 <= faults' + Spare(s)'
      PROVE  RoundsOK(s)'
  <2>1. n' = n /\ ra' = ra
    BY <1>c, <1>d, <1>i
  <2>2. n' <= rc' + faults' + Spare(s)'
    <3>1. CASE rc' = rc
      BY <1>a, <1>c, <1>e, <1>h, <1>i, <2>1, <3>1, Slack
    <3>2. CASE rc' = ra
      BY <1>a, <1>c, <1>e, <1>h, <1>i, <2>1, <3>2, Slack
    <3>3. QED
      BY <1>d, <3>1, <3>2
  <2>3. n' <= ra' + faults' + Spare(s)'
    BY <1>a, <1>c, <1>e, <1>h, <1>i, <2>1, Slack
  <2>4. ASSUME Unspent' PROVE n' + 1 <= ra' + faults' + Spare(s)'
    <3>1. CASE Unspent
      <4>1. n + 1 <= ra + faults + Spare(s)
        BY <1>e, <3>1 DEF Unspent
      <4>2. QED
        BY <1>a, <1>c, <1>h, <1>i, <2>1, <4>1, Slack
    <3>2. CASE faults + Spare(s) + 1 <= faults' + Spare(s)'
      BY <1>a, <1>c, <1>e, <1>h, <2>1, <3>2, Slack
    <3>3. QED
      BY <1>i, <2>4, <3>1, <3>2
  <2>5. pc' # "idle" => n' <= rm' + faults'
    BY <1>i, <2>1
  <2>6. QED
    BY <1>f, <2>2, <2>3, <2>4, <2>5
<1>2. CASE GoneStep
  <2>1. /\ pc' = "idle" /\ pc = "idle" /\ ~SubmitStep /\ ~PersistStep
        /\ faults' = faults \/ faults' = faults + 1
    BY <1>2 DEF GoneStep, PassOver, SubmitStep, Submitting, PersistStep
  <2>2. faults + Spare(s) <= faults' + Spare(s)'
    <3>1. Spare(s)' = Spare(s)
      BY <1>g, <2>1
    <3>2. QED
      BY <1>a, <1>h, <3>1
  <2>3. Unspent' => Unspent
    BY <1>d, <2>1 DEF Unspent
  <2>4. QED
    BY <1>i, <2>1, <2>2, <2>3
<1>3. CASE ReleaseStep
  <2>1. pc' = "idle" /\ pc = "load" /\ ~SubmitStep /\ ~PersistStep /\ faults' = faults
    BY <1>3 DEF ReleaseStep, PassOver, SubmitStep, Submitting, PersistStep
  <2>2. faults + Spare(s) + 1 <= faults' + Spare(s)' /\ faults + Spare(s) <= faults' + Spare(s)'
    BY <1>a, <1>g, <2>1
  <2>3. QED
    BY <1>i, <2>1, <2>2
<1>4. CASE LoseStep
  <2>1. /\ pc' = "idle" /\ pc # "idle" /\ ~SubmitStep /\ ~PersistStep
        /\ api' = api
        /\ \/ faults' = faults + 1
           \/ faults' = faults /\ ~memFresh /\ pc = "persist"
    <3>1. pc' = "idle" /\ pc # "idle"
      BY <1>4 DEF LoseStep, PassOver
    <3>2. api' = api
      BY <1>4 DEF LoseStep, object
    <3>3. \/ faults' = faults + 1
          \/ faults' = faults /\ ~memFresh /\ pc = "persist"
      BY <1>4 DEF LoseStep
    <3>4. ~SubmitStep
      BY <3>1 DEF SubmitStep, Advance
    <3>5. faults' = faults + 1 => faults' # faults
      BY <1>a
    <3>6. ~PersistStep
      BY <3>3, <3>5 DEF PersistStep
    <3>7. QED
      BY <3>1, <3>2, <3>3, <3>4, <3>6
  <2>2. faults + Spare(s) <= faults' + Spare(s)'
    <3>1. Spare(s) <= Spare(s)'
      BY <1>g, <2>1
    <3>2. QED
      BY <1>a, <1>h, <3>1
  <2>3. Unspent' => Unspent \/ faults + Spare(s) + 1 <= faults' + Spare(s)'
    <3>1. CASE faults' = faults + 1
      <4>1. Spare(s) <= Spare(s)'
        BY <1>g, <2>1
      <4>2. QED
        BY <1>a, <1>h, <3>1, <4>1
    <3>2. CASE faults' = faults /\ ~memFresh /\ pc = "persist"
      BY <2>1, <3>2 DEF Unspent
    <3>3. QED
      BY <2>1, <3>1, <3>2
  <2>4. QED
    BY <1>i, <2>1, <2>2, <2>3
<1>5. CASE LoadStep
  <2>1. /\ pc = "idle" /\ pc' = "load" /\ ~SubmitStep /\ ~PersistStep /\ ~cache.deleting
        /\ \/ cacheFresh /\ faults' = faults
           \/ ~cacheFresh /\ faults' = faults + 1
        /\ mem' = cache \/ mem' = api'
        /\ memFresh' = cacheFresh \/ memFresh' = TRUE
    BY <1>5 DEF LoadStep, SubmitStep, Submitting, PersistStep
  <2>2. rm' = rc \/ rm' = ra'
    BY <2>1 DEF rm, rc, ra
  <2>3. cacheFresh => cache = api
    BY <1>0 DEF ObjectInv
  <2>4. cacheFresh => rc = ra /\ ~api.deleting
    BY <2>1, <2>3 DEF rc, ra
  <2>5. n' = n /\ ra' = ra /\ Spare(s) = 1 /\ Spare(s)' = 0
    BY <1>c, <1>d, <1>g, <2>1
  <2>a. CASE cacheFresh
    <3>1. faults' = faults /\ rc = ra /\ memFresh' = TRUE /\ Unspent
      BY <2>1, <2>4, <2>a DEF Unspent
    <3>2. n + 1 <= ra + faults + Spare(s)
      BY <1>e, <3>1 DEF Unspent
    <3>3. n <= ra + faults
      BY <1>a, <1>c, <2>5, <3>2
    <3>4. rm' = ra /\ rc' = ra /\ ~Unspent'
      BY <1>d, <2>1, <2>2, <2>5, <3>1 DEF Unspent
    <3>5. n' <= ra + faults' /\ n' <= ra + faults' + Spare(s)'
      BY <1>a, <1>c, <2>5, <3>1, <3>3
    <3>6. QED
      BY <1>f, <2>5, <3>4, <3>5
  <2>b. CASE ~cacheFresh
    <3>1. faults' = faults + 1
      BY <2>1, <2>b
    <3>2. faults + Spare(s) <= faults' + Spare(s)'
      BY <1>a, <2>5, <3>1
    <3>3. n <= rc + faults' /\ n <= ra + faults'
      BY <1>a, <1>c, <1>e, <2>5, <3>1
    <3>4. n <= rm' + faults'
      BY <2>2, <2>5, <3>3
    <3>5. Unspent' => Unspent
      BY <1>d, <2>1 DEF Unspent
    <3>6. QED
      BY <1>i, <2>1, <3>2, <3>4, <3>5
  <2>6. QED
    BY <2>a, <2>b
<1>6. CASE CollectStep
  <2>1. /\ pc = "load" /\ pc' = "submit" /\ at' = 1 /\ ~SubmitStep /\ ~PersistStep
        /\ api' = api /\ cache' = cache /\ memFresh' = memFresh
    BY <1>6 DEF CollectStep, SubmitStep, Submitting, PersistStep, object
  <2>2. Spare(s)' = 0
    <3>1. ~(s < 1)
      BY <1>c
    <3>2. QED
      BY <2>1, <3>1 DEF Spare
  <2>3. rm' \in Nat /\ rm <= rm'
    <3> DEFINE run == InitializeRunSteps(mem)
    <3>1. /\ run \in RunRecord /\ mem' \in RunRecord
          /\ taskOut \in [TaskIds -> Outputs \cup {""}]
          /\ run.step[s] = IF mem.phase = "" THEN [AbsentStep EXCEPT !.phase = "Pending"]
                           ELSE mem.step[s]
      BY <1>0, <1>6, CollectFacts
    <3>2. PICK invalid : mem' = Collected(run, invalid)
      BY <1>6 DEF CollectStep
    <3> HIDE DEF run
    <3>3. CollectedTo(run, s, run.step[s], mem'.step[s])
      BY <3>1, <3>2, CollectedStepFacts
    <3>4. rm' \in Nat
      <4>1. mem'.step[s] \in StepStatus
        BY <3>1 DEF RunRecord
      <4>2. QED
        BY <4>1, RoundsType DEF rm
    <3>5. CASE mem.phase = ""
      <4>1. mem.step[s] = AbsentStep
        BY <1>0, <3>5 DEF Tidy
      <4>2. rm = 0
        <5>1. AbsentStep.iter = 0 /\ AbsentStep.attempts = 0 /\ AbsentStep.task = NoTask
          BY DEF AbsentStep
        <5>2. mem.step[s].iter = 0 /\ mem.step[s].attempts = 0 /\ mem.step[s].task = NoTask
          BY <4>1, <5>1
        <5>3. QED
          BY <5>2 DEF rm, Rounds
      <4>3. QED
        BY <3>4, <4>2, <1>c
    <3>6. CASE mem.phase # ""
      <4>1. run.step[s] = mem.step[s]
        BY <3>1, <3>6
      <4>2. mem.step[s].phase = "Succeeded" => mem.step[s].task # NoTask
        BY <1>0 DEF Grounded
      <4>3. Rounds(mem.step[s]) <= Rounds(mem'.step[s])
        BY <3>3, <4>1, <4>2 DEF CollectedTo
      <4>4. QED
        BY <3>4, <4>3 DEF rm
    <3>7. QED
      BY <3>5, <3>6
  <2>4. rc' = rc
    BY <2>1 DEF rc
  <2>5. faults + Spare(s) <= faults' + Spare(s)'
    <3>1. Spare(s) = Spare(s)'
      BY <1>g, <2>1, <2>2
    <3>2. QED
      BY <1>a, <1>h, <3>1
  <2>6. n <= rm' + faults'
    <3>1. n <= rm + faults
      BY <1>e, <2>1
    <3>2. QED
      BY <1>a, <1>c, <2>3, <3>1, MoreRounds
  <2>7. Unspent' => Unspent
    BY <2>1 DEF Unspent
  <2>8. QED
    BY <1>i, <2>1, <2>5, <2>6, <2>7
<1>7. CASE PassStep
  <2>1. PICK st \in StepStatus : Passed(st) /\ Advance(st)
    BY <1>7 DEF PassStep
  <2>2. /\ mem'.step[at] = st /\ at \in Steps /\ pc' = "submit" /\ pc = "submit" /\ at' = at + 1
        /\ \A x \in Steps : x # at => mem'.step[x] = mem.step[x]
    BY <1>0, <1>7, <2>1, AdvanceFacts DEF PassStep
  <2>3. /\ st.iter = mem.step[at].iter /\ st.attempts = mem.step[at].attempts
        /\ st.task = mem.step[at].task
    BY <2>1 DEF Passed
  <2>4. rm' = rm
    BY <2>2, <2>3 DEF rm, Rounds
  <2>5. ~SubmitStep /\ ~PersistStep /\ api' = api /\ cache' = cache /\ memFresh' = memFresh
    <3>1. issued' = issued /\ issued \in Nat
      BY <1>7, <1>0, TasksGrowing DEF PassStep, tasks, TasksGrow
    <3>2. ~SubmitStep
      BY <1>0, <3>1, SubmitFacts
    <3>3. QED
      BY <1>7, <2>2, <3>2 DEF PassStep, Submitting, object, PersistStep
  <2>6. rc' = rc
    BY <2>5 DEF rc
  <2>7. Spare(s) <= Spare(s)'
    BY <1>0, <1>c, <2>2 DEF Spare
  <2>8. faults + Spare(s) <= faults' + Spare(s)'
    BY <1>a, <1>h, <2>7
  <2>9. n <= rm' + faults'
    BY <1>a, <1>c, <1>e, <2>2, <2>4, Slack
  <2>10. Unspent' => Unspent
    BY <2>2, <2>5 DEF Unspent
  <2>11. QED
    BY <1>i, <2>5, <2>8, <2>9, <2>10
<1>8. CASE SubmitStep
  <2>1. Submitting /\ Eligible /\ at \in Steps /\ issued + 1 \in TaskIds
    BY <1>0, <1>8, SubmitFacts
  <2>2. PICK st \in StepStatus :
          /\ Advance(st) /\ st.phase = "Running" /\ st.task = issued + 1
          /\ st.iter = mem.step[at].iter /\ st.attempts = mem.step[at].attempts
    BY <1>0, <1>8, SubmitFacts
  <2>3. /\ mem'.step[at] = st /\ pc' = "submit" /\ pc = "submit" /\ at' = at + 1
        /\ \A x \in Steps : x # at => mem'.step[x] = mem.step[x]
    BY <1>0, <2>1, <2>2, AdvanceFacts
  <2>4. ~PersistStep /\ api' = api /\ cache' = cache /\ memFresh' = memFresh
    BY <2>1, <2>3 DEF Submitting, object, PersistStep
  <2>5. rc' = rc
    BY <2>4 DEF rc
  <2>6. CASE s = at
    <3>1. Spare(s) = 0 /\ Spare(s)' = 1
      BY <1>0, <1>c, <2>3, <2>6 DEF Spare
    <3>2. mem.step[at].task = NoTask /\ st.task # NoTask
      <4>1. mem.step[at].task = NoTask
        BY <1>0, <2>1, CurrentFacts DEF Eligible, Tidy
      <4>2. QED
        BY <2>1, <2>2, <4>1 DEF TaskIds, NoTask
    <3>3. /\ mem.step[at].iter \in Nat /\ mem.step[at].attempts \in Nat
      <4>1. mem.step[at] \in StepStatus
        BY <1>0, <2>1 DEF RunRecord
      <4>2. QED
        BY <4>1, StatusFields
    <3>4. rm = mem.step[at].iter + mem.step[at].attempts + 0
      BY <2>6, <3>2 DEF rm, Rounds
    <3>5. rm' = mem.step[at].iter + mem.step[at].attempts + 1
      BY <2>2, <2>3, <2>6, <3>2 DEF rm, Rounds
    <3>6. rm' = rm + 1
      BY <3>3, <3>4, <3>5
    <3>7. /\ pc' # "idle" => n' <= rm' + faults'
          /\ n' <= rc' + faults' + Spare(s)'
          /\ n' <= ra' + faults' + Spare(s)'
      <4>1. n <= rm + faults /\ n <= rc + faults /\ n <= ra + faults /\ ra' = ra
        BY <1>a, <1>c, <1>d, <1>e, <2>3, <2>4, <3>1
      <4>2. n' <= n + 1 /\ n' \in Nat /\ n \in Nat
        BY <1>c
      <4>3. n' <= rm' + faults'
        BY <1>a, <1>c, <3>6, <4>1, <4>2, OneMoreRound
      <4>4. n' <= rc' + faults' + Spare(s)'
        BY <1>a, <1>c, <2>5, <3>1, <4>1, <4>2, OneMoreRound
      <4>5. n' <= ra' + faults' + Spare(s)'
        BY <1>a, <1>c, <3>1, <4>1, <4>2, OneMoreRound
      <4>6. QED
        BY <4>3, <4>4, <4>5
    <3>8. ASSUME Unspent' PROVE n' + 1 <= ra' + faults' + Spare(s)'
      <4>1. Unspent /\ ra' = ra
        BY <1>d, <2>3, <2>4, <3>8 DEF Unspent
      <4>2. n + 1 <= ra + faults
        BY <1>a, <1>c, <1>e, <3>1, <4>1 DEF Unspent
      <4>3. n' <= n + 1 /\ n' \in Nat /\ n \in Nat /\ ra \in Nat
        BY <1>c
      <4>4. QED
        BY <1>a, <3>1, <4>1, <4>2, <4>3, OneMoreRound
    <3>9. QED
      BY <1>f, <3>7, <3>8
  <2>7. CASE s # at
    <3>1. rm' = rm
      BY <2>3, <2>7 DEF rm
    <3>2. Spare(s) <= Spare(s)'
      BY <1>0, <1>c, <2>3 DEF Spare
    <3>3. faults + Spare(s) <= faults' + Spare(s)'
      BY <1>a, <1>h, <3>2
    <3>4. n <= rm' + faults'
      BY <1>a, <1>c, <1>e, <2>3, <3>1, Slack
    <3>5. Unspent' => Unspent
      BY <2>3, <2>4 DEF Unspent
    <3>6. QED
      BY <1>i, <2>4, <2>7, <3>3, <3>4, <3>5
  <2>8. QED
    BY <2>6, <2>7
<1>9. CASE JudgeStep
  <2>1. /\ api' = api /\ cache' = cache /\ memFresh' = memFresh
        /\ faults' = faults /\ pc' = "persist" /\ pc \in {"load", "submit"}
        /\ ~SubmitStep /\ ~PersistStep
    BY <1>9 DEF JudgeStep, object, SubmitStep, Advance, PersistStep
  <2>2. mem'.step[s] = mem.step[s]
        \/ mem'.step[s] = [mem.step[s] EXCEPT !.phase = "Failed", !.why = "other"]
    BY <1>9 DEF JudgeStep, Judged
  <2>3. rm' = rm
    <3>1. mem.step[s] \in StepStatus
      BY <1>0 DEF RunRecord
    <3>2. /\ mem'.step[s].iter = mem.step[s].iter /\ mem'.step[s].task = mem.step[s].task
          /\ mem'.step[s].attempts = mem.step[s].attempts
      BY <2>2, <3>1 DEF StepStatus
    <3>3. QED
      BY <3>2 DEF rm, Rounds
  <2>4. rc' = rc
    BY <2>1 DEF rc
  <2>5. faults + Spare(s) <= faults' + Spare(s)'
    BY <1>a, <1>g, <2>1
  <2>6. n <= rm' + faults'
    BY <1>a, <1>c, <1>e, <2>1, <2>3
  <2>7. Unspent' => Unspent
    BY <2>1 DEF Unspent
  <2>8. QED
    BY <1>i, <2>1, <2>5, <2>6, <2>7
<1>10. CASE PersistStep
  <2>1. /\ api' = mem /\ cache' = cache /\ faults' = faults /\ pc' = "idle" /\ pc = "persist"
        /\ ~SubmitStep
    BY <1>10 DEF PersistStep, PassOver, Store, SubmitStep, Submitting
  <2>2. rc' = rc /\ ra' = rm
    BY <2>1 DEF rc, ra, rm
  <2>3. n' = n /\ Spare(s) = 1 /\ Spare(s)' = 1 /\ n <= rm + faults
    BY <1>c, <1>e, <1>g, <2>1
  <2>4. /\ n' <= rc' + faults' + Spare(s)'
        /\ n' <= ra' + faults' + Spare(s)'
        /\ n' + 1 <= ra' + faults' + Spare(s)'
    BY <1>a, <1>c, <1>e, <2>1, <2>2, <2>3
  <2>5. QED
    BY <1>f, <2>1, <2>4
<1>11. CASE OutsideStep
  <2>1. /\ mem' = mem /\ pc' = pc /\ at' = at
        /\ \/ api' = api /\ faults' = faults /\ memFresh' = memFresh
           \/ api' = api /\ faults' = faults + 1 /\ memFresh' = FALSE
           \/ faults' = faults /\ api' = [api EXCEPT !.deleting = TRUE, !.exists = api.finalizer]
    BY <1>11 DEF OutsideStep
  <2>2. ~SubmitStep /\ ~PersistStep
    <3>1. issued' = issued /\ issued \in Nat
      BY <1>11, <1>0, TasksGrowing DEF OutsideStep, TasksGrow
    <3>2. ~SubmitStep
      BY <1>0, <3>1, SubmitFacts
    <3>3. QED
      BY <2>1, <3>2 DEF PersistStep, PassOver
  <2>3. rm' = rm /\ Spare(s)' = Spare(s)
    BY <2>1 DEF rm, Spare
  <2>4. [api EXCEPT !.deleting = TRUE, !.exists = api.finalizer].deleting = TRUE
    BY <1>0 DEF RunRecord
  <2>5. faults + Spare(s) <= faults' + Spare(s)'
    BY <1>a, <1>h, <2>3
  <2>6. pc' # "idle" => n <= rm' + faults'
    BY <1>a, <1>c, <1>e, <2>1, <2>3, Slack
  <2>7. Unspent' => Unspent \/ faults + Spare(s) + 1 <= faults' + Spare(s)'
    <3>1. CASE faults' = faults + 1
      BY <1>a, <1>h, <2>3, <3>1
    <3>2. CASE faults' # faults + 1
      BY <1>a, <2>1, <2>4, <3>2 DEF Unspent
    <3>3. QED
      BY <3>1, <3>2
  <2>8. QED
    BY <1>i, <2>2, <2>5, <2>6, <2>7
<1>12. QED
  BY <1>2, <1>3, <1>4, <1>5, <1>6, <1>7, <1>8, <1>9, <1>10, <1>11 DEF RunStep

\* What the status of a step with a bounded loop and bounded attempts can count.
LEMMA RoundsBound ==
  ASSUME NEW i \in Nat, NEW a \in Nat, NEW l \in Nat, NEW k \in Nat,
         i <= l, a = 0 \/ a < k
  PROVE  i + a + 1 <= 1 + l + (IF k > 1 THEN k - 1 ELSE 0)
OBVIOUS

LEMMA StepBound ==
  ASSUME NEW s \in Steps
  PROVE  /\ Pipeline[s].loop \in Nat /\ Pipeline[s].attempts \in Nat
         /\ 1 + Pipeline[s].loop + (IF Pipeline[s].attempts > 1
                                    THEN Pipeline[s].attempts - 1 ELSE 0) \in Nat
<1>1. Pipeline[s].loop \in Nat /\ Pipeline[s].attempts \in Nat
  BY StepsFacts DEF StepSpec
<1>2. QED
  BY <1>1

LEMMA BoundStep ==
  ASSUME RunInv, TidyInv, TidyInv', RoundsInv', ResubmissionBound, RunStep, TypeOK'
  PROVE  ResubmissionBound'
<1> SUFFICES ASSUME NEW s \in Steps
             PROVE  Cardinality(TasksOf(s))' <=
                      1 + Pipeline[s].loop + (IF Pipeline[s].attempts > 1
                                              THEN Pipeline[s].attempts - 1 ELSE 0) + faults'
  BY DEF ResubmissionBound
<1> DEFINE bound == 1 + Pipeline[s].loop + (IF Pipeline[s].attempts > 1
                                            THEN Pipeline[s].attempts - 1 ELSE 0)
           n == Cardinality(TasksOf(s))
<1>1. /\ faults \in Nat /\ faults' \in Nat /\ faults <= faults' /\ bound \in Nat
      /\ TypeOK /\ n \in Nat /\ n' \in Nat
      /\ ~(SubmitStep /\ s = at) => n' = n
      /\ n <= bound + faults
  <2>1. TypeOK
    BY DEF RunInv
  <2>2. QED
    BY <2>1, SpentGrows, StepBound, TasksCounted DEF ResubmissionBound
<1>2. CASE ~(SubmitStep /\ s = at)
  <2>1. n' = n
    BY <1>1, <1>2
  <2> HIDE DEF n, bound
  <2>2. n <= bound + faults'
    BY <1>1, Slack
  <2>3. n' <= bound + faults'
    BY <2>1, <2>2
  <2>4. QED
    BY <2>3 DEF n, bound
<1>3. CASE SubmitStep /\ s = at
  <2>1. PICK st \in StepStatus :
          /\ Advance(st) /\ st.phase = "Running" /\ st.task = issued + 1
          /\ st.iter = mem.step[at].iter /\ st.attempts = mem.step[at].attempts
    BY <1>1, <1>3, SubmitFacts
  <2>2. issued + 1 \in TaskIds /\ Submitting
    BY <1>1, <1>3, SubmitFacts
  <2>3. mem'.step[s] = st /\ pc' = "submit"
    BY <1>1, <1>3, <2>1, <2>2, AdvanceFacts
  <2>4. /\ st.iter \in Nat /\ st.attempts \in Nat /\ st.iter <= Pipeline[s].loop
        /\ st.attempts = 0 \/ st.attempts < Pipeline[s].attempts
    <3>1. Tidy(mem')
      BY DEF TidyInv
    <3>2. QED
      BY <2>1, <2>3, <3>1, StatusFields DEF Tidy
  <2>5. st.task # NoTask
    BY <2>1, <2>2, ConstFacts DEF TaskIds
  <2>6. Rounds(st) = st.iter + st.attempts + 1
    BY <2>5 DEF Rounds
  <2>7. Rounds(st) <= bound
    BY <2>4, <2>6, RoundsBound, StepBound
  <2>8. n' <= Rounds(st) + faults'
    <3>1. RoundsOK(s)'
      BY DEF RoundsInv
    <3>2. pc' # "idle" => n' <= Rounds(mem'.step[s]) + faults'
      BY <3>1 DEF RoundsOK
    <3>3. QED
      BY <2>3, <3>2
  <2>9. Rounds(st) \in Nat
    BY <2>1, RoundsType
  <2> HIDE DEF n, bound
  <2>10. n' <= bound + faults'
    <3>1. faults' <= faults'
      BY <1>1
    <3>2. QED
      BY <1>1, <2>7, <2>8, <2>9, <3>1, MoreRounds
  <2>11. QED
    BY <2>10 DEF n, bound
<1>4. QED
  BY <1>2, <1>3

LEMMA CountsInitially == Init => TidyInv /\ RoundsInv /\ ResubmissionBound
<1> SUFFICES ASSUME Init PROVE TidyInv /\ RoundsInv /\ ResubmissionBound
  OBVIOUS
<1>1. /\ api = NewRun /\ cache = NewRun /\ mem = NewRun /\ faults = 0 /\ at = 1
      /\ issued = 0 /\ pc = "idle"
  BY DEF Init, ObjectInit
<1>2. TidyInv
  BY <1>1, NewRunTidy DEF TidyInv
<1>3. ASSUME NEW s \in Steps PROVE Cardinality(TasksOf(s)) = 0
  <2>1. TasksOf(s) = {}
    BY <1>1 DEF TasksOf
  <2>2. QED
    BY <2>1, FS_EmptySet
<1>4. ASSUME NEW s \in Steps PROVE RoundsOK(s)
  <2>1. NewRun \in RunRecord
    BY <1>1, TypesInit DEF TypeOK
  <2>2. NewRun.step[s] \in StepStatus
    BY <2>1 DEF RunRecord
  <2>3. Rounds(NewRun.step[s]) \in Nat
    BY <2>2, RoundsType
  <2>4. Spare(s) = 1
    BY <1>1 DEF Spare
  <2> DEFINE r == Rounds(NewRun.step[s])
  <2> HIDE DEF r
  <2>5. r \in Nat
    BY <2>3 DEF r
  <2>6. 0 <= r + 0 + 1 /\ 0 + 1 <= r + 0 + 1
    BY <2>5
  <2>7. QED
    BY <1>1, <1>3, <2>4, <2>6 DEF RoundsOK, r
<1>5. RoundsInv
  BY <1>1, <1>4 DEF RoundsInv
<1>6. ResubmissionBound
  BY <1>1, <1>3, StepBound DEF ResubmissionBound
<1>7. QED
  BY <1>2, <1>5, <1>6

LEMMA CountsStep ==
  ASSUME RunInv, TidyInv, RoundsInv, ResubmissionBound, [Next]_vars
  PROVE  TidyInv' /\ RoundsInv' /\ ResubmissionBound'
<1>1. CASE UNCHANGED vars
  <2>1. UNCHANGED <<api, cache, mem, memFresh, pc, at, issued, taskStep, faults>>
    BY <1>1 DEF vars, object, pass, tasks
  <2>2. TidyInv'
    BY <2>1 DEF TidyInv
  <2>3. \A s \in Steps : TasksOf(s)' = TasksOf(s) /\ Spare(s)' = Spare(s)
    BY <2>1 DEF TasksOf, Spare
  <2>4. \A s \in Steps : RoundsOK(s)'
    BY <2>1, <2>3 DEF RoundsInv, RoundsOK
  <2>5. RoundsInv'
    BY <2>1, <2>4 DEF RoundsInv
  <2>6. ResubmissionBound'
    BY <2>1, <2>3 DEF ResubmissionBound
  <2>7. QED
    BY <2>2, <2>5, <2>6
<1>2. CASE RunStep
  <2>1. TidyInv' /\ RoundsInv'
    BY <1>2, TidyStep, RoundsStep
  <2>2. TypeOK'
    BY RunInvStep DEF RunInv
  <2>3. QED
    BY <1>2, <2>1, <2>2, BoundStep
<1>3. QED
  BY <1>1, <1>2, RunInvStep

\* No step is given more tasks than its loop, its validation attempts and the
\* faults so far explain, for every pipeline and every number of faults: what a
\* conflicting or lost status update can resubmit is one task of a step, and a
\* pass over a stale copy is itself one fault.
THEOREM TasksAreBounded == Spec => []ResubmissionBound
<1>1. RunInv /\ TidyInv /\ RoundsInv /\ ResubmissionBound /\ [Next]_vars =>
        (TidyInv /\ RoundsInv /\ ResubmissionBound)'
  BY CountsStep
<1>2. QED
  BY RunInitially, RunInvStep, CountsInitially, <1>1, PTL DEF Spec

-----------------------------------------------------------------------------
(* Orphans.  A task in the queue that a copy does not wait for is loose    *)
(* with respect to it.  A pass that goes well leaves no loose task behind; *)
(* one that is lost leaves its tasks, one for each step at most.           *)

\* The open tasks that nobody would collect if this copy were the stored one.
Loose(open, run) == {t \in open : ~Awaits(run, t)}

\* What the current pass may have submitted so far.
Room == IF pc \in {"idle", "persist"} THEN Len(Pipeline) ELSE at - 1

\* In the step that ends a pass in time, the steps stay as they are and, when the
\* run becomes terminal, what it waits for is cancelled.
EndsClean ==
  pc' = "persist" /\ pc # "persist" =>
    /\ mem'.step = mem.step
    /\ Terminal(mem'.phase) => \A t \in OpenTasks' : ~Awaits(mem', t)

\* Only Submit opens a task.
LEMMA LedgerFlow ==
  ASSUME RunInv, TidyInv, Next
  PROVE  /\ SubmitStep => OpenTasks' \subseteq OpenTasks \cup {issued + 1}
         /\ ~SubmitStep => OpenTasks' \subseteq OpenTasks
         /\ ~late' => ~late /\ EndsClean
         /\ pc # "finish" => pc' # "finish"
<1>0. TypeOK /\ ledger \in [TaskIds -> Queue!LedgerState] /\ late \in BOOLEAN /\ Tidy(mem)
  BY DEF RunInv, TypeOK, TidyInv
<1>1. ASSUME NEW run, CancelRunTasks(run)
      PROVE  /\ OpenTasks' \subseteq OpenTasks
             /\ \A t \in OpenTasks' : ~Awaits(run, t)
  <2>1. \A t \in TaskIds :
          ledger'[t] = IF t \in CancellableTasks(run) THEN "cancelled" ELSE ledger[t]
    BY <1>1 DEF CancelRunTasks, Queue!Cancel
  <2>2. OpenTasks' \subseteq OpenTasks
    BY <2>1 DEF OpenTasks
  <2>3. ASSUME NEW t \in OpenTasks', Awaits(run, t) PROVE FALSE
    <3>1. t \in TaskIds /\ t # NoTask /\ t \notin CancellableTasks(run)
      BY <2>1, <2>3, ConstFacts DEF OpenTasks, TaskIds
    <3>2. QED
      BY <2>3, <3>1 DEF Awaits, CancellableTasks
  <2>4. QED
    BY <2>2, <2>3
<1>2. UNCHANGED tasks => OpenTasks' = OpenTasks
  BY DEF tasks, OpenTasks
<1>3. CASE Start
  <2>1. OpenTasks' \subseteq OpenTasks
    BY <1>1, <1>2, <1>3 DEF Start, ReconcileGone, ReconcileDeleting, LoadRun
  <2>2. late' = late /\ pc = "idle" /\ pc' \in {"idle", "load"}
    BY <1>3 DEF Start, ReconcileGone, GetNotFound, ReconcileDeleting, FinalizeDeletion,
       LoadRun, EnsureFinalizer, Get, PassEnds
  <2>3. QED
    BY <2>1, <2>2 DEF EndsClean, SubmitStep, Submitting
<1>4. CASE ReleaseTerminal \/ CollectError \/ Collect
  <2>1. ledger' = ledger /\ late' = late /\ pc = "load" /\ pc' \in {"idle", "submit"}
    BY <1>4 DEF ReleaseTerminal, RemoveFinalizer, CollectError, Collect, EndPass, PassEnds, tasks
  <2>2. QED
    BY <2>1 DEF EndsClean, OpenTasks, SubmitStep, Submitting
<1>5. CASE Reject
  <2>1. ledger' = ledger /\ late' = late /\ pc = "load" /\ pc' = "persist" /\ mem.phase = ""
    BY <1>5 DEF Reject, tasks
  <2>2. mem'.step = mem.step
    BY <1>0, <1>5 DEF Reject, TypeOK, RunRecord
  <2>3. \A s \in Steps : mem.step[s].phase # "Running"
    <3>1. AbsentStep.phase # "Running"
      BY DEF AbsentStep
    <3>2. QED
      BY <1>0, <2>1, <3>1 DEF Tidy
  <2>4. \A t : ~Awaits(mem', t)
    BY <2>2, <2>3 DEF Awaits
  <2>5. QED
    BY <2>1, <2>2, <2>4 DEF EndsClean, OpenTasks, SubmitStep, Submitting
<1>6. CASE EnforceRunTimeout
  BY <1>1, <1>6 DEF EnforceRunTimeout, SubmitStep, Submitting
<1>7. CASE SubmitStep
  <2>1. ledger' = [ledger EXCEPT ![issued + 1] = "open"] /\ late' = late
        /\ pc = "submit" /\ pc' = "submit"
    BY <1>7 DEF SubmitStep, Queue!Submit, Submitting, Advance
  <2>2. QED
    BY <1>0, <1>7, <2>1 DEF OpenTasks, EndsClean
<1>8. CASE SubmitPendingSteps /\ ~SubmitStep
  <2>1. ledger' = ledger /\ late' = late /\ pc = "submit" /\ pc' \in {"idle", "submit"}
    BY <1>8 DEF SubmitPendingSteps, NotEligible, SkipStep, FailInputs, FailLookup, WarmUp,
       FailTokens, FailStep, SubmitError, Submitting, Advance, EndPass, PassEnds, tasks
  <2>2. QED
    BY <1>8, <2>1 DEF EndsClean, OpenTasks
<1>9. CASE Finish
  <2>1. /\ late' = late /\ pc' = "persist" /\ mem' = UpdateRunPipelinePhase(mem) /\ ~SubmitStep
        /\ IF Terminal(mem'.phase) THEN CancelRunTasks(mem') ELSE UNCHANGED tasks
    BY <1>9 DEF Finish, SubmitStep, Advance
  <2>2. /\ OpenTasks' \subseteq OpenTasks
        /\ Terminal(mem'.phase) => \A t \in OpenTasks' : ~Awaits(mem', t)
    BY <1>1, <1>2, <2>1
  <2>3. ~late => mem'.step = mem.step
    <3>1. mem \in RunRecord
      BY <1>0 DEF TypeOK
    <3>2. \A ph : [mem EXCEPT !.phase = ph].step = mem.step
      BY <3>1 DEF RunRecord
    <3>3. QED
      BY <2>1, <3>2 DEF UpdateRunPipelinePhase
  <2>4. QED
    BY <2>1, <2>2, <2>3 DEF EndsClean
<1>10. CASE Persist \/ Conflict
  <2>1. ledger' = ledger /\ late' = late /\ pc = "persist" /\ pc' = "idle"
    BY <1>10 DEF Persist, UpdateStatus, Conflict, UpdateConflict, PassEnds, tasks
  <2>2. QED
    BY <2>1 DEF EndsClean, OpenTasks, SubmitStep, Submitting
<1>11. CASE OperatorRestart
  <2>1. ledger' = ledger /\ late' = late /\ pc' = "idle"
    BY <1>11 DEF OperatorRestart, Restart, PassEnds, tasks
  <2>2. QED
    BY <2>1 DEF EndsClean, OpenTasks, SubmitStep, Advance, Submitting
<1>12. CASE CacheSync \/ UserEdit \/ UserDelete \/ DeadlinePasses \/ \E s \in Steps : AgentReady(s)
  <2>1. ledger' = ledger /\ (~late' => ~late) /\ pc' = pc /\ issued' = issued
    BY <1>12 DEF CacheSync, Watch, UserEdit, Edit, UserDelete, Delete, Around, DeadlinePasses,
       AgentReady, tasks, pass
  <2>2. ~SubmitStep
    BY <1>0, <2>1, SubmitFacts
  <2>3. QED
    BY <2>1, <2>2 DEF EndsClean, OpenTasks
<1>13. ASSUME NEW t \in TaskIds, NEW a \in Queue!Answer, NEW out \in Outputs, Answer(t, a, out)
       PROVE  /\ ~SubmitStep /\ OpenTasks' \subseteq OpenTasks
              /\ ~late' => ~late /\ EndsClean
              /\ pc # "finish" => pc' # "finish"
  <2>1. late' = late /\ pc' = pc /\ issued' = issued /\ ledger' = [ledger EXCEPT ![t] = a]
    BY <1>13 DEF Answer, Queue!Settle, pass
  <2>2. a # "open"
    BY <1>13 DEF Queue!Answer
  <2>3. OpenTasks' \subseteq OpenTasks
    BY <1>0, <2>1, <2>2 DEF OpenTasks
  <2>4. ~SubmitStep
    BY <1>0, <2>1, SubmitFacts
  <2>5. QED
    BY <2>1, <2>3, <2>4 DEF EndsClean
<1>14. QED
  BY <1>3, <1>4, <1>5, <1>6, <1>7, <1>8, <1>9, <1>10, <1>11, <1>12, <1>13
     DEF Next, Reconcile, Environment, Load

LEMMA OpenFinite ==
  ASSUME TypeOK
  PROVE  IsFiniteSet(OpenTasks)
<1>1. IsFiniteSet(TaskIds)
  BY ConstFacts, FS_Interval DEF TaskIds
<1>2. QED
  BY <1>1, FS_Subset DEF OpenTasks

LEMMA LooseType ==
  ASSUME NEW O, NEW run, IsFiniteSet(O)
  PROVE  IsFiniteSet(Loose(O, run)) /\ Cardinality(Loose(O, run)) \in Nat
<1>1. IsFiniteSet(Loose(O, run))
  BY FS_Subset DEF Loose
<1>2. QED
  BY <1>1, FS_CardinalityType

\* A copy that waits for what the other one waited for has no more loose tasks.
LEMMA LooseShrinks ==
  ASSUME NEW O, NEW P, NEW run, NEW new, IsFiniteSet(O), P \subseteq O,
         \A t \in P : Awaits(run, t) => Awaits(new, t)
  PROVE  /\ Cardinality(Loose(P, new)) \in Nat
         /\ Cardinality(Loose(P, new)) <= Cardinality(Loose(O, run))
<1>1. Loose(P, new) \subseteq Loose(O, run)
  BY DEF Loose
<1>2. IsFiniteSet(P)
  BY FS_Subset
<1>3. QED
  BY <1>1, <1>2, LooseType, FS_Subset

LEMMA LooseGrows ==
  ASSUME NEW O, NEW P, NEW run, NEW x, IsFiniteSet(O), P \subseteq O \cup {x}
  PROVE  /\ Cardinality(Loose(P, run)) \in Nat
         /\ Cardinality(Loose(P, run)) <= Cardinality(Loose(O, run)) + 1
<1>1. Loose(P, run) \subseteq Loose(O, run) \cup {x}
  BY DEF Loose
<1>2. QED
  BY <1>1, LooseType, OneMore

\* What the passes lost so far may have left behind.
Lost(f) == Len(Pipeline) * f

\* A pass leaves at most one loose task for each step of the pipeline, and every
\* pass that was lost is a fault.  A pass whose copy is not fresh will be lost.
LooseOK ==
  /\ pc # "idle" => Cardinality(Loose(OpenTasks, mem)) <= Lost(faults)
  /\ Cardinality(Loose(OpenTasks, cache)) <= Lost(faults) + Room
  /\ Cardinality(Loose(OpenTasks, api)) <= Lost(faults) + Room
  /\ Unspent =>
       Cardinality(Loose(OpenTasks, api)) + Len(Pipeline) <= Lost(faults) + Room

\* A terminal run waits for nothing.
NothingAwaited ==
  /\ Terminal(api.phase) => \A t \in OpenTasks : ~Awaits(api, t)
  /\ pc = "persist" /\ Terminal(mem.phase) => \A t \in OpenTasks : ~Awaits(mem, t)

LooseInv ==
  /\ pc # "finish"
  /\ ~late => LooseOK /\ NothingAwaited

LEMMA LostGrows ==
  ASSUME NEW f \in Nat
  PROVE  Lost(f) \in Nat /\ Lost(f + 1) = Lost(f) + Len(Pipeline)
<1>1. \A l, n \in Nat : l * n \in Nat /\ l * (n + 1) = l * n + l
  BY SMT
<1>2. Len(Pipeline) \in Nat
  BY StepsFacts
<1>3. QED
  BY <1>1, <1>2 DEF Lost

LEMMA RoomFor ==
  ASSUME NEW n \in Nat, NEW m \in Nat, NEW l \in Nat, NEW u \in Nat, NEW v \in Nat,
         u <= v, m <= n
  PROVE  /\ n <= u => m <= v
         /\ n + l <= u => m + l <= v
         /\ n <= u /\ u + l <= v => m + l <= v
OBVIOUS

LEMMA RoomForOne ==
  ASSUME NEW n \in Nat, NEW m \in Nat, NEW l \in Nat, NEW u \in Nat, NEW v \in Nat,
         u + 1 <= v, m <= n + 1
  PROVE  /\ n <= u => m <= v
         /\ n + l <= u => m + l <= v
OBVIOUS

LEMMA RoomLeft ==
  ASSUME NEW b \in Nat, NEW c \in Nat, NEW r \in Nat, NEW q \in Nat, NEW l \in Nat
  PROVE  /\ b <= c /\ r <= q => b + r <= c + q
         /\ b <= c /\ q = r + 1 => b + r + 1 <= c + q
         /\ b <= c /\ r = 0 /\ q = l => b + r + l <= c + q
         /\ c = b + l /\ r <= q => b + r + l <= c + q
         /\ c = b + l /\ r = l /\ q = 0 => b + r <= c + q
OBVIOUS

LEMMA UpTo ==
  ASSUME NEW i \in Nat, NEW j \in Nat, NEW k \in Nat, i <= j, j <= k
  PROVE  i <= k
OBVIOUS

LEMMA SumType ==
  ASSUME NEW i \in Nat, NEW j \in Nat
  PROVE  i + j \in Nat
OBVIOUS

LEMMA StepsBefore ==
  ASSUME NEW l \in Nat, NEW i \in 1 .. l + 1
  PROVE  i - 1 \in Nat /\ i - 1 <= l /\ i - 1 <= (i + 1) - 1 /\ (i + 1) - 1 = (i - 1) + 1
OBVIOUS

LEMMA RoomStored ==
  ASSUME NEW n \in Nat, NEW b \in Nat, NEW l \in Nat, n <= b
  PROVE  n <= b + l /\ n + l <= b + l
OBVIOUS

LEMMA LooseStep ==
  ASSUME RunInv, TidyInv, RoundsInv, RoundsInv', TypeOK', LooseOK, ~late', Next, RunStep
  PROVE  LooseOK'
<1> DEFINE L == Len(Pipeline)
           B == Lost(faults)
           la == Cardinality(Loose(OpenTasks, api))
           lc == Cardinality(Loose(OpenTasks, cache))
           lm == Cardinality(Loose(OpenTasks, mem))
<1>0. /\ TypeOK /\ ObjectInv /\ (pc \in {"idle", "load"} => at = 1)
      /\ (pc' \in {"idle", "load"} => at' = 1)
      /\ api \in RunRecord /\ cache \in RunRecord /\ mem \in RunRecord
      /\ Grounded(mem, issued, taskStep) /\ Grounded(api, issued, taskStep)
      /\ Grounded(cache, issued, taskStep) /\ Tidy(mem)
      /\ at \in 1 .. L + 1 /\ at' \in 1 .. L + 1 /\ L \in Nat \ {0}
  BY StepsFacts DEF RunInv, TypeOK, GroundedInv, RoundsInv, TidyInv
<1>1. /\ faults \in Nat /\ faults' \in Nat /\ faults <= faults'
      /\ faults' = faults \/ faults' = faults + 1
  <2>1. faults \in Nat /\ faults' \in Nat /\ faults <= faults'
    BY <1>0, SpentGrows
  <2>2. SubmitStep => faults' = faults \/ faults' = faults + 1
    BY <1>0, SubmitFacts
  <2>3. QED
    BY <2>1, <2>2 DEF RunStep, GoneStep, ReleaseStep, LoseStep, LoadStep, CollectStep, PassStep,
       JudgeStep, PersistStep, OutsideStep
<1>2. /\ B \in Nat /\ B' \in Nat /\ L \in Nat /\ Room \in Nat /\ Room' \in Nat
  <2>1. B \in Nat /\ B' \in Nat
    BY <1>1, LostGrows
  <2>2. L \in Nat /\ at \in 1 .. L + 1 /\ at' \in 1 .. L + 1
    BY <1>0
  <2> HIDE DEF L
  <2>3. at - 1 \in Nat /\ at' - 1 \in Nat
    BY <2>2, StepsBefore
  <2>4. QED
    BY <2>1, <2>2, <2>3 DEF Room, L
<1>2a. faults' = faults => B' = B
  OBVIOUS
<1>2b. faults' = faults + 1 => B' = B + L
  BY <1>1, LostGrows
<1>2c. B <= B'
  <2>1. CASE faults' = faults
    BY <1>2, <1>2a, <2>1
  <2>2. CASE faults' = faults + 1
    <3>1. B' = B + L
      BY <1>2b, <2>2
    <3> HIDE DEF B, L
    <3>2. QED
      BY <1>2, <3>1
  <2>3. QED
    BY <1>1, <2>1, <2>2
<1>3. /\ pc \in {"idle", "persist"} => Room = L
      /\ pc' \in {"idle", "persist"} => Room' = L
      /\ pc = "load" => Room = 0
      /\ pc' = "load" => Room' = 0
      /\ pc = "submit" => Room = at - 1
      /\ pc' = "submit" => Room' = at' - 1
  <2>1. at = 1 => at - 1 = 0
    OBVIOUS
  <2>2. at' = 1 => at' - 1 = 0
    OBVIOUS
  <2>3. QED
    BY <1>0, <2>1, <2>2 DEF Room
<1>3a. Room <= L /\ Room' <= L
  <2>1. at - 1 <= L /\ at' - 1 <= L /\ L <= L
    BY <1>0
  <2>2. QED
    BY <2>1 DEF Room
<1>4. IsFiniteSet(OpenTasks) /\ IsFiniteSet(OpenTasks')
  <2>1. TypeOK /\ TypeOK'
    BY <1>0
  <2>2. IsFiniteSet(OpenTasks)
    BY <2>1, OpenFinite
  <2>3. IsFiniteSet(TaskIds) /\ OpenTasks' \subseteq TaskIds
    BY ConstFacts, FS_Interval DEF TaskIds, OpenTasks
  <2>4. QED
    BY <2>2, <2>3, FS_Subset
<1>5. /\ la \in Nat /\ lc \in Nat /\ lm \in Nat /\ la' \in Nat /\ lc' \in Nat /\ lm' \in Nat
  BY <1>4, LooseType
<1>6. /\ SubmitStep => OpenTasks' \subseteq OpenTasks \cup {issued + 1}
      /\ ~SubmitStep => OpenTasks' \subseteq OpenTasks
      /\ EndsClean
  BY LedgerFlow
<1>7. ~PersistStep => api'.step = api.step /\ (api.deleting => api'.deleting)
  BY <1>0, CopiesFlow, DeletionFlow
<1>8. ~SubmitStep /\ ~PersistStep => la' <= la
  <2> SUFFICES ASSUME ~SubmitStep, ~PersistStep PROVE la' <= la
    OBVIOUS
  <2>1. OpenTasks' \subseteq OpenTasks /\ \A t \in OpenTasks' : Awaits(api, t) => Awaits(api', t)
    BY <1>6, <1>7, AwaitsSame
  <2>2. QED
    BY <1>4, <2>1, LooseShrinks
<1>9. ~SubmitStep => lc' <= lc \/ lc' <= la
  <2> SUFFICES ASSUME ~SubmitStep PROVE lc' <= lc \/ lc' <= la
    OBVIOUS
  <2>1. OpenTasks' \subseteq OpenTasks /\ (cache' = cache \/ cache' = api)
    BY <1>0, <1>6, CopiesFlow
  <2>2. QED
    BY <1>4, <2>1, LooseShrinks
<1> HIDE DEF B, la, lc, lm
<1>10. /\ pc # "idle" => lm <= B
       /\ lc <= B + Room
       /\ la <= B + Room
       /\ Unspent => la + L <= B + Room
  BY DEF LooseOK, B, la, lc, lm
<1>11. ASSUME pc' # "idle" => lm' <= B',
              lc' <= B' + Room',
              la' <= B' + Room',
              Unspent' => la' + L <= B' + Room'
       PROVE  LooseOK'
  BY <1>11 DEF LooseOK, B, la, lc, lm
<1> HIDE DEF L
<1>2d. B + Room \in Nat /\ B' + Room' \in Nat
  <2>1. B + Room \in Nat
    <3>1. B \in Nat /\ Room \in Nat
      BY <1>2
    <3>2. QED
      BY <3>1, SumType
  <2>2. B' + Room' \in Nat
    <3>1. B' \in Nat /\ Room' \in Nat
      BY <1>2
    <3>2. QED
      BY <3>1, SumType
  <2>3. QED
    BY <2>1, <2>2
<1>m. ASSUME pc # "idle", lm' <= lm PROVE lm' <= B'
  <2>1. lm <= B
    BY <1>10, <1>m
  <2>2. lm' <= B
    BY <1>2, <1>5, <1>m, <2>1, UpTo
  <2>3. QED
    BY <1>2, <1>2c, <1>5, <2>2, UpTo
<1>r. ASSUME Room <= Room' PROVE B + Room <= B' + Room'
  BY <1>2, <1>2c, <1>r, RoomLeft
<1>s. ASSUME Room' = Room PROVE B + Room <= B' + Room'
  <2>1. Room <= Room'
    BY <1>2, <1>s
  <2>2. QED
    BY <1>r, <2>1
<1>12. ASSUME ~SubmitStep, ~PersistStep,
              B + Room <= B' + Room',
              pc' # "idle" => lm' <= B',
              Unspent' => Unspent \/ B + Room + L <= B' + Room'
       PROVE  LooseOK'
  <2> DEFINE u == B + Room
             v == B' + Room'
  <2>a. u <= v /\ u \in Nat /\ v \in Nat
    <3>1. u \in Nat /\ v \in Nat
      BY <1>2d
    <3>2. u <= v
      BY <1>12
    <3>3. QED
      BY <3>1, <3>2
  <2>b. la <= u /\ la \in Nat /\ la' \in Nat /\ L \in Nat
    BY <1>2, <1>5, <1>10
  <2>c. lc <= u /\ lc \in Nat /\ lc' \in Nat /\ L \in Nat
    BY <1>2, <1>5, <1>10
  <2>d. Unspent => la + L <= u
    BY <1>10
  <2>e. B + Room + L <= B' + Room' => u + L <= v
    OBVIOUS
  <2> HIDE DEF u, v
  <2>1. la' <= la /\ la' <= B' + Room'
    <3>1. la' <= la
      BY <1>8, <1>12
    <3>2. la' <= v
      BY <2>a, <2>b, <3>1, RoomFor
    <3>3. QED
      BY <3>1, <3>2 DEF v
  <2>2. lc' <= B' + Room'
    <3>1. lc' <= lc => lc' <= v
      BY <2>a, <2>c, RoomFor
    <3>2. lc' <= la => lc' <= v
      BY <2>a, <2>b, <2>c, RoomFor
    <3>3. QED
      BY <1>9, <1>12, <3>1, <3>2 DEF v
  <2>3. Unspent' => la' + L <= B' + Room'
    <3>0. la' <= la
      BY <2>1
    <3>1. CASE Unspent
      <4>1. la + L <= u
        BY <2>d, <3>1
      <4>2. la' \in Nat /\ la \in Nat /\ L \in Nat
        BY <2>b
      <4>3. la' + L <= v
        BY <2>a, <3>0, <4>1, <4>2, RoomFor
      <4>4. QED
        BY <4>3 DEF v
    <3>2. CASE B + Room + L <= B' + Room'
      <4>1. u + L <= v
        BY <2>e, <3>2
      <4>2. la' + L <= v
        BY <2>a, <2>b, <3>0, <4>1, RoomFor
      <4>3. QED
        BY <4>2 DEF v
    <3>3. QED
      BY <1>12, <3>1, <3>2
  <2>4. QED
    BY <1>11, <1>12, <2>1, <2>2, <2>3
<1>13. CASE GoneStep
  <2>1. pc' = "idle" /\ pc = "idle" /\ ~SubmitStep /\ ~PersistStep
    BY <1>13 DEF GoneStep, PassOver, SubmitStep, Submitting, PersistStep
  <2>2. B + Room <= B' + Room'
    <3>1. Room' = Room
      BY <1>3, <2>1
    <3>2. QED
      BY <1>s, <3>1
  <2>3. Unspent' => Unspent
    BY <1>7, <2>1 DEF Unspent
  <2>4. QED
    BY <1>12, <2>1, <2>2, <2>3
<1>14. CASE ReleaseStep
  <2>1. pc' = "idle" /\ pc = "load" /\ ~SubmitStep /\ ~PersistStep
    BY <1>14 DEF ReleaseStep, PassOver, SubmitStep, Submitting, PersistStep
  <2>2. B + Room + L <= B' + Room' /\ B + Room <= B' + Room'
    <3>1. Room = 0 /\ Room' = L /\ Room <= Room'
      BY <1>3, <1>3a, <2>1
    <3>2. QED
      BY <1>2, <1>2c, <1>r, <3>1, RoomLeft
  <2>3. QED
    BY <1>12, <2>1, <2>2
<1>15. CASE LoseStep
  <2>1. pc' = "idle" /\ pc # "idle" /\ ~SubmitStep /\ api' = api
    BY <1>15 DEF LoseStep, PassOver, object, SubmitStep, Advance, Submitting
  <2>2. \/ faults' = faults + 1
        \/ faults' = faults /\ ~memFresh /\ pc = "persist"
    BY <1>15 DEF LoseStep
  <2>3. ~PersistStep
    <3>1. faults' = faults + 1 => faults' # faults
      BY <1>1
    <3>2. QED
      BY <2>2, <3>1 DEF PersistStep
  <2>4. Room' = L /\ Room <= Room'
    BY <1>3, <1>3a, <2>1
  <2>5. B + Room <= B' + Room'
    BY <1>r, <2>4
  <2>6. Unspent' => Unspent \/ B + Room + L <= B' + Room'
    <3>1. CASE faults' = faults + 1
      BY <1>2, <1>2b, <2>4, <3>1, RoomLeft
    <3>2. CASE faults' = faults /\ ~memFresh /\ pc = "persist"
      BY <2>1, <3>2 DEF Unspent
    <3>3. QED
      BY <2>2, <3>1, <3>2
  <2>7. QED
    BY <1>12, <2>1, <2>3, <2>5, <2>6
<1>16. CASE LoadStep
  <2>1. /\ pc = "idle" /\ pc' = "load" /\ ~SubmitStep /\ ~PersistStep /\ ~cache.deleting
        /\ \/ cacheFresh /\ faults' = faults
           \/ ~cacheFresh /\ faults' = faults + 1
        /\ mem' = cache \/ mem' = api'
        /\ memFresh' = cacheFresh \/ memFresh' = TRUE
    BY <1>16 DEF LoadStep, SubmitStep, Submitting, PersistStep
  <2>2. lm' <= lc \/ lm' <= la
    <3>1. mem'.step = cache.step \/ mem'.step = api.step
      BY <1>7, <2>1
    <3>2. OpenTasks' \subseteq OpenTasks
      BY <1>6, <2>1
    <3>3. CASE mem'.step = cache.step
      BY <1>4, <3>2, <3>3, AwaitsSame, LooseShrinks DEF lm, lc
    <3>4. CASE mem'.step = api.step
      BY <1>4, <3>2, <3>4, AwaitsSame, LooseShrinks DEF lm, la
    <3>5. QED
      BY <3>1, <3>3, <3>4
  <2>3. cacheFresh => lc = la /\ ~api.deleting
    BY <1>0, <2>1 DEF ObjectInv, lc, la
  <2>4. Room = L /\ Room' = 0
    BY <1>3, <2>1
  <2>5. CASE cacheFresh
    <3>1. B' = B /\ lc = la /\ memFresh' = TRUE /\ Unspent
      <4>1. B' = B
        BY <1>1, <1>2a, <2>1, <2>5
      <4>2. QED
        BY <2>1, <2>3, <2>5, <4>1 DEF Unspent
    <3>2. la + L <= B + L
      BY <1>10, <2>4, <3>1
    <3>3. la <= B
      BY <1>2, <1>5, <3>2
    <3>4. lm' <= la /\ lc' <= la /\ la' <= la
      BY <1>8, <1>9, <2>1, <2>2, <3>1
    <3>5. lm' <= B' /\ lc' <= B' + Room' /\ la' <= B' + Room'
      <4>1. lm' <= B /\ lc' <= B /\ la' <= B
        BY <1>2, <1>5, <3>3, <3>4, UpTo
      <4>2. B' = B /\ B' + Room' = B
        BY <1>2, <2>4, <3>1
      <4>3. QED
        BY <4>1, <4>2
    <3>6. ~Unspent'
      BY <2>1, <3>1 DEF Unspent
    <3>7. QED
      BY <1>11, <3>5, <3>6
  <2>6. CASE ~cacheFresh
    <3>1. B' = B + L
      BY <1>2b, <2>1, <2>6
    <3>2. B + Room <= B' + Room'
      BY <1>2, <2>4, <3>1, RoomLeft
    <3>3. lm' <= B'
      <4>1. lc <= B' /\ la <= B'
        BY <1>10, <2>4, <3>1
      <4>2. QED
        BY <1>2, <1>5, <2>2, <4>1, UpTo
    <3>4. Unspent' => Unspent
      BY <1>7, <2>1 DEF Unspent
    <3>5. QED
      BY <1>12, <2>1, <3>2, <3>3, <3>4
  <2>7. QED
    BY <2>5, <2>6
<1>17. CASE CollectStep
  <2>1. /\ pc = "load" /\ pc' = "submit" /\ at' = 1 /\ ~SubmitStep /\ ~PersistStep
        /\ api' = api /\ cache' = cache /\ memFresh' = memFresh
        /\ ledger' = ledger /\ mem.phase \in {"", "Running"}
    BY <1>17 DEF CollectStep, object, SubmitStep, Submitting, PersistStep
  <2>2. Room' = Room
    <3>1. Room = 0
      BY <1>3, <2>1
    <3>2. Room' = at' - 1 /\ at' = 1
      BY <1>3, <2>1
    <3>3. Room' = 0
      BY <3>2
    <3>4. QED
      BY <3>1, <3>3
  <2>3. lm' <= lm
    <3> DEFINE run == InitializeRunSteps(mem)
    <3>1. /\ run \in RunRecord /\ taskOut \in [TaskIds -> Outputs \cup {""}]
          /\ \A s \in Steps :
               run.step[s] = IF mem.phase = "" THEN [AbsentStep EXCEPT !.phase = "Pending"]
                             ELSE mem.step[s]
      BY <1>0, <1>17, CollectFacts
    <3>2. PICK invalid : mem' = Collected(run, invalid)
      BY <1>17 DEF CollectStep
    <3> HIDE DEF run
    <3>3. ASSUME NEW t \in OpenTasks, Awaits(mem, t)
          PROVE  Awaits(mem', t)
      <4>1. PICK s \in Steps : mem.step[s].phase = "Running" /\ mem.step[s].task = t
        BY <3>3 DEF Awaits
      <4>2. mem.phase # ""
        <5>1. AbsentStep.phase # "Running"
          BY DEF AbsentStep
        <5>2. QED
          BY <1>0, <4>1, <5>1 DEF Tidy
      <4>3. run.step[s] = mem.step[s]
        BY <3>1, <4>2
      <4>4. ledger[t] = "open"
        BY DEF OpenTasks
      <4>5. s \notin Answered(run)
        BY <4>1, <4>3, <4>4 DEF Answered
      <4>6. CollectedTo(run, s, run.step[s], mem'.step[s])
        BY <3>1, <3>2, CollectedStepFacts
      <4>7. mem'.step[s].phase = "Running" /\ mem'.step[s].task = t
        BY <4>1, <4>3, <4>5, <4>6 DEF CollectedTo
      <4>8. QED
        BY <4>7 DEF Awaits
    <3>4. OpenTasks' \subseteq OpenTasks
      BY <1>6, <2>1
    <3>5. QED
      BY <1>4, <3>3, <3>4, LooseShrinks DEF lm
  <2>4. lm' <= B'
    BY <1>m, <2>1, <2>3
  <2>5. B + Room <= B' + Room'
    BY <1>s, <2>2
  <2>6. Unspent' => Unspent
    BY <2>1 DEF Unspent
  <2>7. QED
    BY <1>12, <2>1, <2>4, <2>5, <2>6
<1>18. CASE PassStep
  <2>1. PICK st \in StepStatus : Passed(st) /\ Advance(st)
    BY <1>18 DEF PassStep
  <2>2. /\ mem'.step[at] = st /\ at \in Steps /\ pc' = "submit" /\ pc = "submit" /\ at' = at + 1
        /\ \A x \in Steps : x # at => mem'.step[x] = mem.step[x]
    BY <1>0, <1>18, <2>1, AdvanceFacts DEF PassStep
  <2>3. ~SubmitStep /\ ~PersistStep /\ api' = api /\ memFresh' = memFresh
    <3>1. issued' = issued
      BY <1>18 DEF PassStep, tasks
    <3>2. ~SubmitStep
      BY <1>0, <3>1, SubmitFacts
    <3>3. QED
      BY <1>18, <2>2, <3>2 DEF PassStep, Submitting, object, PersistStep
  <2>4. mem.step[at].phase = "Running" => st = mem.step[at]
    <3> SUFFICES ASSUME mem.step[at].phase = "Running" PROVE st = mem.step[at]
      OBVIOUS
    <3>1. mem.step[at].task # NoTask
      BY <1>0, <2>2 DEF Grounded
    <3>2. Current = mem.step[at]
      BY <3>1 DEF Current, Resumed
    <3>3. ~Eligible
      BY <3>2 DEF Eligible
    <3>4. QED
      BY <2>1, <3>2, <3>3 DEF Passed
  <2>5. \A t : Awaits(mem, t) => Awaits(mem', t)
    BY <2>2, <2>4 DEF Awaits
  <2>6. lm' <= lm
    BY <1>4, <1>6, <2>3, <2>5, LooseShrinks DEF lm
  <2>7. lm' <= B'
    BY <1>m, <2>2, <2>6
  <2>8. Room <= Room'
    <3>1. Room = at - 1 /\ Room' = at' - 1
      BY <1>3, <2>2
    <3>2. QED
      BY <1>0, <2>2, <3>1
  <2>9. B + Room <= B' + Room'
    BY <1>r, <2>8
  <2>10. Unspent' => Unspent
    BY <2>2, <2>3 DEF Unspent
  <2>11. QED
    BY <1>12, <2>3, <2>7, <2>9, <2>10
<1>19. CASE SubmitStep
  <2>1. Submitting /\ Eligible /\ at \in Steps /\ issued + 1 \in TaskIds /\ issued \in Nat
    BY <1>0, <1>19, SubmitFacts
  <2>2. PICK st \in StepStatus : Advance(st) /\ st.phase = "Running" /\ st.task = issued + 1
    BY <1>0, <1>19, SubmitFacts
  <2>3. /\ mem'.step[at] = st /\ pc' = "submit" /\ pc = "submit" /\ at' = at + 1
        /\ \A x \in Steps : x # at => mem'.step[x] = mem.step[x]
    BY <1>0, <2>1, <2>2, AdvanceFacts
  <2>4. api' = api /\ cache' = cache /\ memFresh' = memFresh
    BY <2>1 DEF Submitting, object
  <2>5. mem.step[at].phase # "Running"
    <3> SUFFICES ASSUME mem.step[at].phase = "Running" PROVE FALSE
      OBVIOUS
    <3>1. mem.step[at].task # NoTask
      BY <1>0, <2>1 DEF Grounded
    <3>2. Current = mem.step[at]
      BY <3>1 DEF Current, Resumed
    <3>3. QED
      BY <2>1, <3>2 DEF Eligible
  <2>6. \A t : Awaits(mem, t) => Awaits(mem', t)
    BY <2>3, <2>5 DEF Awaits
  <2>7. Awaits(mem', issued + 1)
    BY <2>1, <2>2, <2>3 DEF Awaits
  <2>8. lm' <= lm
    <3>1. Loose(OpenTasks', mem') \subseteq Loose(OpenTasks, mem)
      BY <1>6, <1>19, <2>6, <2>7 DEF Loose
    <3>2. IsFiniteSet(Loose(OpenTasks, mem))
      BY <1>4, LooseType
    <3>3. QED
      BY <3>1, <3>2, FS_Subset DEF lm
  <2>9. la' <= la + 1 /\ lc' <= lc + 1
    <3>1. OpenTasks' \subseteq OpenTasks \cup {issued + 1}
      BY <1>6, <1>19
    <3>2. la' <= la + 1
      BY <1>4, <2>4, <3>1, LooseGrows DEF la
    <3>3. lc' <= lc + 1
      BY <1>4, <2>4, <3>1, LooseGrows DEF lc
    <3>4. QED
      BY <3>2, <3>3
  <2>10. Room' = Room + 1
    <3>1. Room = at - 1 /\ Room' = at' - 1
      BY <1>3, <2>3
    <3>2. QED
      BY <1>0, <2>3, <3>1
  <2>11. lm' <= B'
    BY <1>m, <2>3, <2>8
  <2> DEFINE u == B + Room
             v == B' + Room'
  <2>a. u \in Nat /\ v \in Nat /\ u + 1 <= v
    <3>1. u \in Nat /\ v \in Nat
      BY <1>2d
    <3>2. u + 1 <= v
      BY <1>2, <1>2c, <2>10, RoomLeft
    <3>3. QED
      BY <3>1, <3>2
  <2>b. la \in Nat /\ la' \in Nat /\ L \in Nat
    BY <1>2, <1>5
  <2>c. lc \in Nat /\ lc' \in Nat
    BY <1>5
  <2>12. la' <= B' + Room' /\ lc' <= B' + Room'
    <3>1. la <= u
      BY <1>10
    <3>2. lc <= u
      BY <1>10
    <3>3. la' <= la + 1
      BY <2>9
    <3>4. lc' <= lc + 1
      BY <2>9
    <3> HIDE DEF u, v
    <3>5. la' <= v
      BY <2>a, <2>b, <3>1, <3>3, RoomForOne
    <3>6. lc' <= v
      BY <2>a, <2>b, <2>c, <3>2, <3>4, RoomForOne
    <3>7. QED
      BY <3>5, <3>6 DEF v
  <2>13. Unspent' => Unspent
    BY <2>3, <2>4 DEF Unspent
  <2>14. Unspent' => la' + L <= B' + Room'
    <3> SUFFICES ASSUME Unspent' PROVE la' + L <= B' + Room'
      OBVIOUS
    <3>1. la + L <= u
      BY <1>10, <2>13
    <3>2. la' <= la + 1
      BY <2>9
    <3> HIDE DEF u, v
    <3>3. la' + L <= v
      BY <2>a, <2>b, <3>1, <3>2, RoomForOne
    <3>4. QED
      BY <3>3 DEF v
  <2>15. QED
    BY <1>11, <2>11, <2>12, <2>14
<1>20. CASE JudgeStep
  <2>1. /\ api' = api /\ memFresh' = memFresh
        /\ pc' = "persist" /\ pc \in {"load", "submit"}
        /\ ~SubmitStep /\ ~PersistStep
    BY <1>20 DEF JudgeStep, object, SubmitStep, Advance, PersistStep
  <2>2. mem'.step = mem.step /\ OpenTasks' \subseteq OpenTasks
    BY <1>6, <2>1 DEF EndsClean
  <2>3. lm' <= lm
    BY <1>4, <2>2, AwaitsSame, LooseShrinks DEF lm
  <2>4. lm' <= B'
    BY <1>m, <2>1, <2>3
  <2>5. B + Room <= B' + Room'
    <3>1. Room <= Room'
      BY <1>3, <1>3a, <2>1
    <3>2. QED
      BY <1>r, <3>1
  <2>6. Unspent' => Unspent
    BY <2>1 DEF Unspent
  <2>7. QED
    BY <1>12, <2>1, <2>4, <2>5, <2>6
<1>21. CASE PersistStep
  <2>1. /\ api' = mem /\ cache' = cache /\ faults' = faults /\ pc' = "idle" /\ pc = "persist"
        /\ ~SubmitStep
    BY <1>21 DEF PersistStep, PassOver, Store, SubmitStep, Submitting
  <2>2. OpenTasks' \subseteq OpenTasks
    BY <1>6, <2>1
  <2>3. la' <= lm /\ lc' <= lc
    BY <1>4, <2>1, <2>2, LooseShrinks DEF la, lm, lc
  <2>4. B' = B /\ Room = L /\ Room' = L /\ lm <= B
    BY <1>2a, <1>3, <1>10, <2>1
  <2>5. la' <= B' + Room' /\ lc' <= B' + Room' /\ la' + L <= B' + Room'
    <3>1. la' <= B /\ lc' <= B + L
      <4>1. lc <= B + L /\ B + L \in Nat
        BY <1>2, <1>10, <2>4
      <4>2. QED
        BY <1>2, <1>5, <2>3, <2>4, <4>1, UpTo
    <3>2. la' <= B + L /\ la' + L <= B + L
      BY <1>2, <1>5, <3>1, RoomStored
    <3>3. QED
      BY <2>4, <3>1, <3>2
  <2>6. QED
    BY <1>11, <2>1, <2>5
<1>22. CASE OutsideStep
  <2>1. /\ mem' = mem /\ pc' = pc /\ at' = at /\ issued' = issued
        /\ \/ api' = api /\ faults' = faults /\ memFresh' = memFresh
           \/ api' = api /\ faults' = faults + 1 /\ memFresh' = FALSE
           \/ faults' = faults /\ api' = [api EXCEPT !.deleting = TRUE, !.exists = api.finalizer]
    BY <1>22 DEF OutsideStep
  <2>2. ~SubmitStep /\ ~PersistStep
    <3>1. ~SubmitStep
      BY <1>0, <2>1, SubmitFacts
    <3>2. QED
      BY <2>1, <3>1 DEF PersistStep, PassOver
  <2>3. lm' <= lm /\ Room' = Room
    <3>1. OpenTasks' \subseteq OpenTasks
      BY <1>6, <2>2
    <3>2. lm' <= lm
      BY <1>4, <2>1, <3>1, LooseShrinks DEF lm
    <3>3. Room' = Room
      BY <2>1 DEF Room
    <3>4. QED
      BY <3>2, <3>3
  <2>4. pc' # "idle" => lm' <= B'
    BY <1>m, <2>1, <2>3
  <2>5. B + Room <= B' + Room'
    BY <1>s, <2>3
  <2>6. Unspent' => Unspent \/ B + Room + L <= B' + Room'
    <3>1. CASE faults' = faults + 1
      <4>1. Room <= Room'
        BY <1>2, <2>3
      <4>2. QED
        BY <1>2, <1>2b, <3>1, <4>1, RoomLeft
    <3>2. CASE faults' # faults + 1
      <4>1. [api EXCEPT !.deleting = TRUE, !.exists = api.finalizer].deleting = TRUE
        BY <1>0 DEF RunRecord
      <4>2. QED
        BY <1>1, <2>1, <3>2, <4>1 DEF Unspent
    <3>3. QED
      BY <3>1, <3>2
  <2>7. QED
    BY <1>12, <2>2, <2>4, <2>5, <2>6
<1>23. QED
  BY <1>13, <1>14, <1>15, <1>16, <1>17, <1>18, <1>19, <1>20, <1>21, <1>22 DEF RunStep

\* A run that is stored as terminal waits for nothing: what it waited for was
\* cancelled in the step that made it terminal, and nothing is submitted for it.
LEMMA NothingAwaitedStep ==
  ASSUME RunInv, TidyInv, NothingAwaited, ~late', Next, RunStep
  PROVE  NothingAwaited'
<1>0. /\ TypeOK /\ Grounded(api, issued, taskStep) /\ issued \in Nat
  <2>1. TypeOK /\ Grounded(api, issued, taskStep)
    BY DEF RunInv, GroundedInv
  <2>2. issued \in 0 .. MaxTasks
    BY <2>1 DEF TypeOK
  <2>3. issued \in Nat
    BY <2>2, ConstFacts
  <2>4. QED
    BY <2>1, <2>3
<1>1. /\ SubmitStep => OpenTasks' \subseteq OpenTasks \cup {issued + 1}
      /\ ~SubmitStep => OpenTasks' \subseteq OpenTasks
      /\ EndsClean
  BY LedgerFlow
<1>2. ASSUME Terminal(api'.phase), NEW t \in OpenTasks'
      PROVE  ~Awaits(api', t)
  <2>1. CASE PersistStep /\ api' = mem
    <3>1. pc = "persist" /\ ~SubmitStep
      BY <2>1 DEF PersistStep, SubmitStep, Submitting
    <3>2. t \in OpenTasks /\ Terminal(mem.phase)
      BY <1>1, <1>2, <2>1, <3>1
    <3>3. QED
      BY <2>1, <3>1, <3>2 DEF NothingAwaited
  <2>2. CASE api'.phase = api.phase /\ api'.step = api.step
    <3>1. Terminal(api.phase)
      BY <1>2, <2>2
    <3>2. CASE t \in OpenTasks
      BY <2>2, <3>1, <3>2, AwaitsSame DEF NothingAwaited
    <3>3. CASE t = issued + 1
      <4>1. ~(issued + 1 <= issued) /\ issued + 1 # NoTask
        BY <1>0, ConstFacts
      <4>2. ~Awaits(api, issued + 1)
        BY <1>0, <4>1 DEF Awaits, Grounded
      <4>3. QED
        BY <2>2, <3>3, <4>2, AwaitsSame
    <3>4. QED
      BY <1>1, <1>2, <3>2, <3>3
  <2>3. QED
    BY <1>0, <2>1, <2>2, CopiesFlow
<1>3. ASSUME pc' = "persist", Terminal(mem'.phase), NEW t \in OpenTasks'
      PROVE  ~Awaits(mem', t)
  <2>1. CASE pc # "persist"
    BY <1>1, <1>3, <2>1 DEF EndsClean
  <2>2. CASE pc = "persist"
    <3>1. OutsideStep /\ ~SubmitStep
      BY <1>3, <2>2 DEF RunStep, GoneStep, ReleaseStep, LoseStep, LoadStep, CollectStep,
         PassStep, SubmitStep, Submitting, JudgeStep, PersistStep, PassOver
    <3>2. mem' = mem /\ t \in OpenTasks
      BY <1>1, <1>3, <3>1 DEF OutsideStep
    <3>3. QED
      BY <1>3, <2>2, <3>2 DEF NothingAwaited
  <2>3. QED
    BY <2>1, <2>2
<1>4. QED
  BY <1>2, <1>3 DEF NothingAwaited

LEMMA LooseInitially == Init => LooseInv
<1> SUFFICES ASSUME Init PROVE LooseInv
  OBVIOUS
<1>1. /\ api = NewRun /\ cache = NewRun /\ faults = 0 /\ pc = "idle"
      /\ ledger = [t \in TaskIds |-> "absent"]
  BY DEF Init, ObjectInit, Queue!Init
<1>2. OpenTasks = {}
  BY <1>1 DEF OpenTasks
<1>3. \A run : Loose(OpenTasks, run) = {}
  BY <1>2 DEF Loose
<1>4. \A run : Cardinality(Loose(OpenTasks, run)) = 0
  BY <1>3, FS_EmptySet
<1>5. Room = Len(Pipeline) /\ Len(Pipeline) \in Nat /\ Lost(faults) \in Nat
  BY <1>1, StepsFacts, LostGrows DEF Room
<1> DEFINE L == Len(Pipeline)
           B == Lost(faults)
<1> HIDE DEF L, B
<1>6. 0 <= B + L /\ 0 + L <= B + L
  <2>1. L \in Nat /\ B \in Nat
    BY <1>5 DEF L, B
  <2>2. QED
    BY <2>1
<1>7. LooseOK
  BY <1>1, <1>4, <1>5, <1>6 DEF LooseOK, L, B
<1>8. NothingAwaited
  BY <1>1, <1>2 DEF NothingAwaited
<1>9. QED
  BY <1>1, <1>7, <1>8 DEF LooseInv

LEMMA LooseInvStep ==
  ASSUME RunInv, TidyInv, RoundsInv, RoundsInv', LooseInv, [Next]_vars
  PROVE  LooseInv'
<1>1. CASE UNCHANGED vars
  <2>1. UNCHANGED <<api, cache, mem, memFresh, pc, at, late, ledger, faults>>
    BY <1>1 DEF vars, object, pass, tasks
  <2>2. OpenTasks' = OpenTasks /\ Room' = Room /\ Unspent' = Unspent
    BY <2>1 DEF OpenTasks, Room, Unspent
  <2>3. (LooseOK => LooseOK') /\ (NothingAwaited => NothingAwaited')
    BY <2>1, <2>2 DEF LooseOK, NothingAwaited
  <2>4. QED
    BY <2>1, <2>3 DEF LooseInv
<1>2. CASE Next
  <2>1. RunStep \/ UNCHANGED vars
    BY RunInvStep
  <2>2. TypeOK'
    BY RunInvStep DEF RunInv
  <2>3. CASE RunStep
    <3>1. pc' # "finish" /\ (~late' => ~late)
      BY <1>2, LedgerFlow DEF LooseInv
    <3>2. ASSUME ~late' PROVE LooseOK' /\ NothingAwaited'
      <4>1. LooseOK /\ NothingAwaited
        BY <3>1, <3>2 DEF LooseInv
      <4>2. QED
        BY <1>2, <2>2, <2>3, <3>2, <4>1, LooseStep, NothingAwaitedStep
    <3>3. QED
      BY <3>1, <3>2 DEF LooseInv
  <2>4. QED
    BY <1>1, <2>1, <2>3
<1>3. QED
  BY <1>1, <1>2

LEMMA LeftOver ==
  ASSUME NEW n \in Nat, NEW b \in Nat, NEW l \in Nat, NEW r \in Nat, r <= l
  PROVE  /\ n <= b + r => n <= b + l
         /\ n + l <= b + r => n <= b
OBVIOUS

LEMMA OrphansLeft ==
  ASSUME RunInv, RoundsInv, LooseInv
  PROVE  OrphanBound
<1> SUFFICES ASSUME Terminal(api.phase), ~late
             PROVE  Cardinality(OpenTasks) <=
                      Len(Pipeline) * (faults + IF api.deleting THEN 1 ELSE 0)
  BY DEF OrphanBound
<1> DEFINE L == Len(Pipeline)
           B == Lost(faults)
           n == Cardinality(OpenTasks)
<1>0. /\ TypeOK /\ ObjectInv /\ LooseOK /\ NothingAwaited
      /\ pc \in {"idle", "load", "submit", "persist"}
      /\ api.deleting \in BOOLEAN /\ memFresh \in BOOLEAN
  BY DEF RunInv, TypeOK, LooseInv, RunRecord
<1>1. Loose(OpenTasks, api) = OpenTasks
  BY <1>0 DEF NothingAwaited, Loose
<1>2. n \in Nat
  BY <1>0, <1>1, OpenFinite, FS_CardinalityType
<1>3. faults \in Nat /\ L \in Nat /\ at \in 1 .. L + 1
  <2>1. at \in 1 .. L + 1 /\ faults \in 0 .. MaxFaults
    BY <1>0 DEF TypeOK
  <2>2. QED
    BY <2>1, StepsFacts, ConstFacts
<1>4. B \in Nat /\ Lost(faults + 1) = B + L
  BY <1>3, LostGrows
<1>5. Room \in Nat /\ Room <= L
  <2> HIDE DEF L
  <2>1. at - 1 \in Nat /\ at - 1 <= L /\ L \in Nat
    BY <1>3, StepsBefore
  <2>2. L <= L
    BY <2>1
  <2>3. QED
    BY <2>1, <2>2 DEF Room, L
<1>6. /\ n <= B + Room
      /\ Unspent => n + L <= B + Room
      /\ pc # "idle" => Cardinality(Loose(OpenTasks, mem)) <= B
  BY <1>0, <1>1 DEF LooseOK
<1>7. CASE api.deleting
  <2>1. n <= B + L
    <3>1. n <= B + Room
      BY <1>6
    <3>2. L \in Nat
      BY <1>3
    <3> HIDE DEF L, B, n
    <3>3. QED
      BY <1>2, <1>4, <1>5, <3>1, <3>2, LeftOver
  <2>2. n <= Lost(faults + 1)
    BY <1>4, <2>1
  <2>3. QED
    BY <1>7, <2>2 DEF Lost
<1>8. CASE ~api.deleting
  <2>1. n <= B
    <3>1. CASE Unspent
      <4>1. n + L <= B + Room
        BY <1>6, <3>1
      <4>2. L \in Nat
        BY <1>3
      <4> HIDE DEF L, B, n
      <4>3. QED
        BY <1>2, <1>4, <1>5, <4>1, <4>2, LeftOver
    <3>2. CASE ~Unspent
      <4>1. pc # "idle" /\ memFresh
        BY <1>8, <3>2 DEF Unspent
      <4>2. pc = "load"
        BY <1>0, <4>1 DEF ObjectInv
      <4>3. mem = api
        BY <1>0, <4>1, <4>2 DEF ObjectInv
      <4>4. QED
        BY <1>1, <1>6, <4>1, <4>3
    <3>3. QED
      BY <3>1, <3>2
  <2>2. faults + 0 = faults
    BY <1>3
  <2>3. QED
    BY <1>8, <2>1, <2>2 DEF Lost
<1>9. QED
  BY <1>0, <1>7, <1>8

\* A run that became terminal before its deadline leaves no task open in the
\* queue but those of passes that were cut off between Submit and the status
\* update, one for each step at most: cancelRunTasks, over the copy the pass
\* works on, reaches everything else.
THEOREM OrphansAreBounded == Spec => []OrphanBound
<1>1. RunInv /\ TidyInv /\ RoundsInv /\ ResubmissionBound /\ [Next]_vars =>
        (TidyInv /\ RoundsInv /\ ResubmissionBound)'
  BY CountsStep
<1>2. RunInv /\ TidyInv /\ RoundsInv /\ RoundsInv' /\ LooseInv /\ [Next]_vars => LooseInv'
  BY LooseInvStep
<1>3. RunInv /\ RoundsInv /\ LooseInv => OrphanBound
  BY OrphansLeft
<1>4. QED
  BY RunInitially, RunInvStep, CountsInitially, LooseInitially, <1>1, <1>2, <1>3, PTL DEF Spec
=============================================================================
