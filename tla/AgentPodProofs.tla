--------------------------- MODULE AgentPodProofs ---------------------------
(***************************************************************************)
(* Proofs about the agent pod, alone and behind the MCP gateway, for every *)
(* number of slots, tasks, sessions and requests: the circuit breaker      *)
(* never waits for a probe that nobody makes, the daily budget is exceeded *)
(* by at most one task for each slot, and the gateway's counters bound the *)
(* dispatches although all tasks share them.                               *)
(*                                                                         *)
(* The actions of the pod and of the gateway fall into a few classes       *)
(* (ToolStep, Quiet, and the steps of processTask).  The first part shows  *)
(* that they do and that the types are kept; the invariants then look at   *)
(* the classes only.                                                       *)
(***************************************************************************)
EXTENDS McpGateway, FiniteSetTheorems, TLAPS

Pcs == {"idle", "start", "admit", "think", "call", "poll", "peer",
        "ack", "nack", "spend"}

\* The places at which the breaker waits to hear of a call.
Flying == {"think", "call", "poll", "peer"}

Jobs == [pc : Pcs, task : Tasks \union {Remote}, tool : ToolNames \union {"none"},
         asks : Nat, seen : SUBSET ToolNames,
         kids : SUBSET (Tasks \union {Remote}), wait : SUBSET (Tasks \union {Remote}),
         due : BOOLEAN, late : BOOLEAN, stored : Nat, mine : Nat, alone : BOOLEAN]

TaskStates == [st : {"unused", "queued", "running", "done", "failed"},
               depth : 0 .. MaxDispatchDepth, tries : Nat]

Breakers == [state : {"closed", "open", "half-open"},
             failures : Nat, calls : Nat, cool : BOOLEAN]

Gates == [dispatches : 0 .. MaxDispatchCalls + 1, searches : Nat,
          depth : 0 .. MaxDispatchDepth]

PodTypeOK ==
    /\ world \in Worlds
    /\ task \in [Tasks -> TaskStates]
    /\ job \in [Slots -> Jobs]
    /\ breaker \in Breakers
    /\ gate \in Gates
    /\ usage \in Nat /\ spent \in Nat /\ lost \in Nat /\ started \in Nat
    /\ sent \in [n : Nat, depth : 0 .. MaxDispatchDepth]

\* A slot that is not idle has a task, which was submitted; the tools that are
\* called are the agent's.
SlotsHaveTasks ==
    \A s \in Slots :
        /\ job[s].tool \in world.tools \union {"none"}
        /\ job[s].pc # "idle" =>
             job[s].task \in Tasks /\ task[job[s].task].st # "unused"

PodOK == PodTypeOK /\ SlotsHaveTasks

-----------------------------------------------------------------------------
(* The classes of steps.                                                   *)

\* No submitted task is forgotten or gets another depth.
TasksKept ==
    /\ task' \in [Tasks -> TaskStates]
    /\ \A t \in Tasks : task[t].st # "unused" =>
          task'[t].st # "unused" /\ task'[t].depth = task[t].depth

\* A dispatch that passes validations 4 and 5 of the gateway.
Dispatches(s, j) ==
    /\ world.gateway
    /\ gate.dispatches < MaxDispatchCalls /\ gate.depth < MaxDispatchDepth
    /\ gate' = [gate EXCEPT !.dispatches = @ + 1]
    /\ sent'.n = sent.n + 1
    /\ j.mine = job[s].mine + 1

NoDispatch(s, j) ==
    /\ gate'.dispatches >= gate.dispatches /\ gate'.depth = gate.depth
    /\ sent' = sent
    /\ j.mine = job[s].mine

\* A step of slot s between the provider's call and its return.
ToolStep(s) ==
    /\ job[s].pc \in Flying
    /\ breaker' \in Breakers /\ (~world.breaker => breaker' = breaker)
    /\ gate' \in Gates
    /\ sent' \in [n : Nat, depth : 0 .. MaxDispatchDepth]
    /\ TasksKept
    /\ UNCHANGED <<world, usage, spent, lost, started>>
    /\ \E j \in Jobs :
         /\ job' = [job EXCEPT ![s] = j]
         /\ j.pc \in Flying /\ j.task = job[s].task /\ j.alone = job[s].alone
         /\ j.tool \in world.tools \union {"none"}
         /\ Dispatches(s, j) \/ NoDispatch(s, j)

\* A step that moves no slot and no counter.
Quiet ==
    /\ UNCHANGED <<world, gate, usage, spent, lost, started, sent>>
    /\ TasksKept
    /\ breaker' \in Breakers /\ breaker'.state = breaker.state
    /\ job' \in [Slots -> Jobs]
    /\ \A s \in Slots :
          /\ job'[s].pc = job[s].pc /\ job'[s].task = job[s].task
          /\ job'[s].tool = job[s].tool
          /\ job'[s].alone = job[s].alone /\ job'[s].mine = job[s].mine

\* What processTask does with a task, beside the steps above.
TaskStep(s) ==
    \/ \E t \in Tasks : Begin(s, t)
    \/ Start(s) \/ Admit(s) \/ Answer(s) \/ Fail(s) \/ Nack(s) \/ Ack(s)
    \/ Spend(s) \/ SpendFails(s)

-----------------------------------------------------------------------------
(* Lemmas about the operators of the pod.                                  *)

\* RecordSuccess and RecordFailure end a half-open circuit: no call that the
\* breaker hears of leaves it waiting.
LEMMA RecordedEndsProbe ==
    ASSUME breaker \in Breakers, NEW ok, Recorded(ok)
    PROVE  /\ breaker' \in Breakers
           /\ world.breaker => breaker'.state # "half-open"
           /\ ~world.breaker => breaker' = breaker
<1>1. CASE ~world.breaker
  BY <1>1 DEF Recorded
<1>2. CASE world.breaker /\ ok
  BY <1>2 DEF Recorded, RecordSuccess, Breakers
<1>3. CASE world.breaker /\ ~ok
  <2> DEFINE n == Min2(breaker.failures + 1, FailureThreshold)
  <2>1. n \in Nat
    BY PodAssumption DEF Min2, Breakers
  <2>2. breaker' = [breaker EXCEPT !.failures = n, !.cool = FALSE,
                  !.calls = IF breaker.state = "half-open" THEN 0 ELSE @,
                  !.state = IF \/ @ = "half-open"
                               \/ @ = "closed" /\ n >= FailureThreshold
                            THEN "open" ELSE @]
    BY <1>3 DEF Recorded, RecordFailure
  <2> HIDE DEF n
  <2>3. QED
    BY <1>3, <2>1, <2>2 DEF Breakers
<1>4. QED
  BY <1>1, <1>2, <1>3

\* Allow keeps the breaker's type.
LEMMA AdmittedType ==
    ASSUME breaker \in Breakers, Admitted
    PROVE  breaker' \in Breakers /\ (~world.breaker => breaker' = breaker)
<1>1. CASE ~world.breaker
  BY <1>1 DEF Admitted
<1>2. CASE world.breaker /\ breaker.state = "open"
  BY <1>2 DEF Admitted, Allow, Breakers
<1>3. CASE world.breaker /\ breaker.state = "half-open"
  BY <1>3 DEF Admitted, Allow, Breakers
<1>4. CASE world.breaker /\ breaker.state = "closed"
  BY <1>4 DEF Admitted, Allow, Breakers
<1>5. QED
  BY <1>1, <1>2, <1>3, <1>4 DEF Breakers

\* A call that returns leaves its slot with the provider, with the task it had.
LEMMA ReturnIsToolStep ==
    ASSUME NEW s \in Slots, NEW j \in Jobs, NEW ok, breaker \in Breakers, Return(s, j, ok)
    PROVE  /\ breaker' \in Breakers /\ (~world.breaker => breaker' = breaker)
           /\ \E r \in Jobs :
                /\ job' = [job EXCEPT ![s] = r]
                /\ r.pc = "think" /\ r.tool = "none"
                /\ r.task = j.task /\ r.alone = j.alone /\ r.mine = j.mine
<1>1. breaker' \in Breakers /\ (~world.breaker => breaker' = breaker)
  BY RecordedEndsProbe DEF Return
<1>2. /\ Returned(j) \in Jobs
      /\ Returned(j).pc = "think" /\ Returned(j).tool = "none"
      /\ Returned(j).task = j.task /\ Returned(j).alone = j.alone
      /\ Returned(j).mine = j.mine
  BY DEF Returned, Jobs, Pcs
<1>3. ASSUME NEW r \in Jobs
      PROVE  /\ Store(r) \in Jobs
             /\ Store(r).pc = r.pc /\ Store(r).tool = r.tool
             /\ Store(r).task = r.task /\ Store(r).alone = r.alone
             /\ Store(r).mine = r.mine
  BY <1>3 DEF Store, Jobs
<1>4. PICK r \in {Returned(j), IF ok THEN Store(Returned(j)) ELSE Returned(j)} :
          job' = [job EXCEPT ![s] = r]
  BY DEF Return
<1>5. r = Returned(j) \/ r = Store(Returned(j))
  BY <1>4
<1>6. Store(Returned(j)) \in Jobs
  BY <1>2, <1>3
<1>7. /\ r \in Jobs /\ r.pc = "think" /\ r.tool = "none"
      /\ r.task = j.task /\ r.alone = j.alone /\ r.mine = j.mine
  BY <1>2, <1>3, <1>5, <1>6
<1>8. QED
  BY <1>1, <1>4, <1>7

\* Submitting a task that is not yet on the queue keeps the others.
LEMMA SubmitKeepsTasks ==
    ASSUME PodTypeOK, NEW t \in Tasks, Submit(t, 0)
    PROVE  TasksKept
BY PodAssumption DEF PodTypeOK, Submit, TasksKept, TaskStates

LEMMA NackedKeepsTasks ==
    ASSUME PodTypeOK, NEW t \in Tasks, Nacked(t), task[t].st # "unused"
    PROVE  TasksKept
<1>1. world.retries \in Nat
  BY WorldAssumption DEF PodTypeOK
<1>2. Min2(task[t].tries + 1, world.retries) \in Nat
  BY <1>1 DEF PodTypeOK, TaskStates, Min2
<1>3. QED
  BY <1>2 DEF PodTypeOK, Nacked, TasksKept, TaskStates

-----------------------------------------------------------------------------
(* Every action belongs to a class.                                        *)

\* Each step of a tool call, from the provider's request for it to the result,
\* is a ToolStep of its slot.
LEMMA ToolIsToolStep ==
    ASSUME PodOK, NEW s \in Slots, Tool(s) \/ DeadlinePasses(s)
    PROVE  ToolStep(s)
<1> USE DEF PodOK
<1>a. job[s] \in Jobs /\ job[s].tool \in world.tools \union {"none"}
  BY DEF PodTypeOK, SlotsHaveTasks
<1>b. task' = task => TasksKept
  BY DEF PodTypeOK, TasksKept
<1>c. gate' = gate /\ sent' = sent =>
        gate' \in Gates /\ sent' \in [n : Nat, depth : 0 .. MaxDispatchDepth]
  BY DEF PodTypeOK
<1>d. gate \in Gates /\ breaker \in Breakers
  BY DEF PodTypeOK
<1>e. world.tools \subseteq ToolNames /\ ("dispatch" \in world.tools => world.gateway)
  BY WorldAssumption DEF PodTypeOK
<1>g. gate' = gate => gate'.dispatches >= gate.dispatches /\ gate'.depth = gate.depth
  BY <1>d DEF Gates
<1>r. ASSUME NEW j \in Jobs, NEW ok, Return(s, j, ok), job[s].pc \in Flying,
             j.task = job[s].task, j.alone = job[s].alone, j.mine = job[s].mine,
             gate' \in Gates,
             gate'.dispatches >= gate.dispatches, gate'.depth = gate.depth,
             sent' = sent, TasksKept,
             UNCHANGED <<world, daily, started>>
      PROVE  ToolStep(s)
  <2>1. PICK r \in Jobs :
               /\ job' = [job EXCEPT ![s] = r]
               /\ r.pc = "think" /\ r.tool = "none"
               /\ r.task = j.task /\ r.alone = j.alone /\ r.mine = j.mine
    BY <1>d, <1>r, ReturnIsToolStep
  <2>2. breaker' \in Breakers /\ (~world.breaker => breaker' = breaker)
    BY <1>d, <1>r, ReturnIsToolStep
  <2>3. NoDispatch(s, r)
    BY <1>r, <2>1 DEF NoDispatch
  <2>4. QED
    BY <1>r, <2>1, <2>2, <2>3 DEF ToolStep, Flying, daily, PodTypeOK
<1>s. ASSUME NEW j \in Jobs, job' = [job EXCEPT ![s] = j], job[s].pc \in Flying,
             j.pc \in Flying, j.task = job[s].task, j.alone = job[s].alone,
             j.mine = job[s].mine, j.tool \in world.tools \union {"none"},
             breaker' \in Breakers, ~world.breaker => breaker' = breaker, TasksKept,
             UNCHANGED <<world, gate, sent, daily, started>>
      PROVE  ToolStep(s)
  <2>1. NoDispatch(s, j)
    BY <1>g, <1>s DEF NoDispatch
  <2>2. QED
    BY <1>s, <1>c, <2>1 DEF ToolStep, daily
<1>1. CASE Recall(s)
  <2> DEFINE j == [job[s] EXCEPT !.asks = @ + 1]
  <2>1. /\ j \in Jobs /\ j.pc = job[s].pc /\ j.task = job[s].task
        /\ j.alone = job[s].alone /\ j.mine = job[s].mine /\ j.tool = job[s].tool
    BY <1>a DEF Jobs
  <2>2. job' = [job EXCEPT ![s] = j] /\ job[s].pc = "think"
    BY <1>1 DEF Recall, PodTypeOK
  <2>3. UNCHANGED <<world, gate, sent, daily, started, task, breaker>>
    BY <1>1 DEF Recall, shared
  <2> HIDE DEF j
  <2>4. QED
    BY <1>a, <1>b, <1>d, <1>s, <2>1, <2>2, <2>3 DEF Flying
<1>2. ASSUME NEW tool \in world.tools \ {"recall"}, NEW same \in BOOLEAN,
             Ask(s, tool, same)
      PROVE  ToolStep(s)
  <2> DEFINE dup == world.dedup /\ same /\ tool \in job[s].seen
             runs == ~dup /\ ~Denied(tool) /\ Admits
             j == [job[s] EXCEPT !.asks = @ + 1,
                     !.seen = IF world.dedup THEN @ \union {tool} ELSE @,
                     !.pc = IF runs THEN "call" ELSE @,
                     !.tool = IF runs THEN tool ELSE @]
  <2>1. job[s].pc = "think" /\ job' = [job EXCEPT ![s] = j]
    BY <1>2 DEF Ask, PodTypeOK
  <2>2. breaker' \in Breakers /\ (~world.breaker => breaker' = breaker)
    BY <1>2, <1>d, AdmittedType DEF Ask
  <2>3. UNCHANGED <<world, gate, sent, daily, started, task>>
    BY <1>2 DEF Ask
  <2>4. tool \in ToolNames
    BY <1>e
  <2>5. /\ j \in Jobs /\ j.pc \in Flying /\ j.task = job[s].task
        /\ j.alone = job[s].alone /\ j.mine = job[s].mine
        /\ j.tool \in world.tools \union {"none"}
    <3> DEFINE seen == IF world.dedup THEN job[s].seen \union {tool} ELSE job[s].seen
               pc == IF runs THEN "call" ELSE job[s].pc
               tl == IF runs THEN tool ELSE job[s].tool
    <3>1. seen \in SUBSET ToolNames
      BY <1>a, <2>4 DEF Jobs
    <3>2. pc \in Flying /\ pc \in Pcs
      BY <2>1 DEF Flying, Pcs
    <3>3. tl \in world.tools \union {"none"} /\ tl \in ToolNames \union {"none"}
      BY <1>a, <1>e
    <3>4. job[s].asks + 1 \in Nat
      BY <1>a DEF Jobs
    <3>5. j = [job[s] EXCEPT !.asks = @ + 1, !.seen = seen, !.pc = pc, !.tool = tl]
      OBVIOUS
    <3> HIDE DEF seen, pc, tl, j
    <3>6. QED
      BY <1>a, <3>1, <3>2, <3>3, <3>4, <3>5 DEF Jobs
  <2> HIDE DEF j
  <2>6. QED
    BY <1>b, <1>s, <2>1, <2>2, <2>3, <2>5 DEF Flying
<1>3. CASE CallFails(s)
  BY <1>3, <1>a, <1>b, <1>c, <1>d, <1>g, <1>r DEF CallFails, Flying
<1>4. CASE CallMcp(s)
  BY <1>4, <1>a, <1>b, <1>c, <1>d, <1>g, <1>r DEF CallMcp, Flying
<1>5. ASSUME NEW t \in Tasks, SubmitSubtask(s, t)
      PROVE  ToolStep(s)
  <2> DEFINE j == [job[s] EXCEPT !.kids = @ \union {t}]
  <2>1. /\ j \in Jobs /\ j.task = job[s].task
        /\ j.alone = job[s].alone /\ j.mine = job[s].mine
    BY <1>a DEF Jobs
  <2>2. TasksKept
    BY <1>5, SubmitKeepsTasks DEF SubmitSubtask
  <2>3. /\ job[s].pc = "call" /\ Return(s, j, TRUE)
        /\ UNCHANGED <<world, gate, sent, daily, started>>
    BY <1>5 DEF SubmitSubtask
  <2> HIDE DEF j
  <2>4. QED
    BY <1>c, <1>g, <1>r, <2>1, <2>2, <2>3 DEF Flying
<1>6. CASE Delegate(s)
  <2> DEFINE j == [job[s] EXCEPT !.kids = @ \union {Remote}]
  <2>1. /\ j \in Jobs /\ j.task = job[s].task
        /\ j.alone = job[s].alone /\ j.mine = job[s].mine
    BY <1>a DEF Jobs
  <2>2. /\ job[s].pc = "call" /\ Return(s, j, TRUE)
        /\ UNCHANGED <<world, gate, sent, daily, started, task>>
    BY <1>6 DEF Delegate
  <2> HIDE DEF j
  <2>3. QED
    BY <1>b, <1>c, <1>g, <1>r, <2>1, <2>2 DEF Flying
<1>7. ASSUME NEW t \in Tasks \union {Remote}, Spawn(s, t)
      PROVE  ToolStep(s)
  <2> DEFINE j == [job[s] EXCEPT !.wait = @ \union {t}]
  <2>1. /\ j \in Jobs /\ j.pc = job[s].pc /\ j.task = job[s].task
        /\ j.alone = job[s].alone /\ j.mine = job[s].mine /\ j.tool = job[s].tool
    BY <1>a DEF Jobs
  <2>2. TasksKept
    BY <1>7, <1>b, SubmitKeepsTasks DEF Spawn
  <2>3. job' = [job EXCEPT ![s] = j] /\ job[s].pc = "call"
    BY <1>7 DEF Spawn, PodTypeOK
  <2>4. UNCHANGED <<world, gate, sent, daily, started, breaker>>
    BY <1>7 DEF Spawn, shared
  <2> HIDE DEF j
  <2>5. QED
    BY <1>a, <1>d, <1>s, <2>1, <2>2, <2>3, <2>4 DEF Flying
<1>8. CASE SpawnedAll(s)
  <2> DEFINE j == [job[s] EXCEPT !.pc = "poll"]
  <2>1. /\ j \in Jobs /\ j.pc = "poll" /\ j.task = job[s].task
        /\ j.alone = job[s].alone /\ j.mine = job[s].mine /\ j.tool = job[s].tool
    BY <1>a DEF Jobs, Pcs
  <2>2. job' = [job EXCEPT ![s] = j] /\ job[s].pc = "call"
    BY <1>8 DEF SpawnedAll, PodTypeOK
  <2>3. UNCHANGED <<world, gate, sent, daily, started, task, breaker>>
    BY <1>8 DEF SpawnedAll, shared
  <2> HIDE DEF j
  <2>4. QED
    BY <1>a, <1>b, <1>d, <1>s, <2>1, <2>2, <2>3 DEF Flying
<1>9. ASSUME NEW ids \in SUBSET job[s].kids, Collect(s, ids)
      PROVE  ToolStep(s)
  <2> DEFINE j == [job[s] EXCEPT !.pc = "poll", !.wait = ids]
  <2>1. /\ j \in Jobs /\ j.pc = "poll" /\ j.task = job[s].task
        /\ j.alone = job[s].alone /\ j.mine = job[s].mine /\ j.tool = job[s].tool
    BY <1>a DEF Jobs, Pcs
  <2>2. job' = [job EXCEPT ![s] = j] /\ job[s].pc = "call"
    BY <1>9 DEF Collect, PodTypeOK
  <2>3. UNCHANGED <<world, gate, sent, daily, started, task, breaker>>
    BY <1>9 DEF Collect, shared
  <2> HIDE DEF j
  <2>4. QED
    BY <1>a, <1>b, <1>d, <1>s, <2>1, <2>2, <2>3 DEF Flying
<1>10. CASE Search(s)
  <2>1. /\ gate' \in Gates
        /\ gate'.dispatches >= gate.dispatches /\ gate'.depth = gate.depth
    BY <1>10, <1>d, PodAssumption DEF Search, Gates, Min2
  <2>2. QED
    BY <1>10, <1>a, <1>b, <1>r, <2>1 DEF Search, Flying
<1>11. CASE Dispatch(s)
  <2>1. /\ gate' = [gate EXCEPT !.dispatches = Min2(gate.dispatches + 1, MaxDispatchCalls + 1)]
        /\ job[s].pc = "call" /\ world.gateway
        /\ UNCHANGED <<world, task, daily, started>>
    BY <1>11, <1>a, <1>e DEF Dispatch
  <2>2. gate' \in Gates /\ gate'.dispatches >= gate.dispatches /\ gate'.depth = gate.depth
    BY <1>d, <2>1, PodAssumption DEF Gates, Min2
  <2>3. CASE DispatchAllowed(gate')
    <3> DEFINE j == [job[s] EXCEPT !.pc = "poll", !.mine = @ + 1]
    <3>1. /\ j \in Jobs /\ j.pc = "poll" /\ j.task = job[s].task
          /\ j.alone = job[s].alone /\ j.mine = job[s].mine + 1 /\ j.tool = job[s].tool
      <4>1. job[s].mine + 1 \in Nat
        BY <1>a DEF Jobs
      <4>2. ASSUME NEW m \in Nat
            PROVE  LET k == [job[s] EXCEPT !.pc = "poll", !.mine = m]
                   IN  /\ k \in Jobs /\ k.pc = "poll" /\ k.task = job[s].task
                       /\ k.alone = job[s].alone /\ k.mine = m /\ k.tool = job[s].tool
        BY <1>a, <4>2 DEF Jobs, Pcs
      <4>3. QED
        BY <4>1, <4>2
    <3>2. /\ job' = [job EXCEPT ![s] = j]
          /\ sent' = [n |-> sent.n + 1,
                      depth |-> IF gate.depth + 1 > sent.depth
                                THEN gate.depth + 1 ELSE sent.depth]
          /\ breaker' = breaker
      BY <1>11, <2>3 DEF Dispatch, PodTypeOK
    <3>3. gate'.dispatches <= MaxDispatchCalls /\ gate.depth < MaxDispatchDepth
      BY <2>2, <2>3 DEF DispatchAllowed
    <3>4. gate.dispatches < MaxDispatchCalls /\ gate' = [gate EXCEPT !.dispatches = @ + 1]
      <4>1. /\ gate.dispatches \in 0 .. MaxDispatchCalls + 1
            /\ gate'.dispatches = Min2(gate.dispatches + 1, MaxDispatchCalls + 1)
        BY <1>d, <2>1 DEF Gates
      <4>2. /\ gate.dispatches < MaxDispatchCalls
            /\ Min2(gate.dispatches + 1, MaxDispatchCalls + 1) = gate.dispatches + 1
        BY <3>3, <4>1, PodAssumption DEF Min2
      <4>3. QED
        BY <2>1, <4>2
    <3>5. sent' \in [n : Nat, depth : 0 .. MaxDispatchDepth] /\ sent'.n = sent.n + 1
      BY <1>d, <3>2, <3>3, PodAssumption DEF PodTypeOK, Gates
    <3> HIDE DEF j
    <3>6. Dispatches(s, j)
      BY <2>1, <3>1, <3>3, <3>4, <3>5 DEF Dispatches
    <3>7. QED
      BY <1>a, <1>b, <1>d, <2>1, <2>2, <3>1, <3>2, <3>5, <3>6 DEF ToolStep, Flying, daily
  <2>4. CASE ~DispatchAllowed(gate')
    BY <1>11, <1>a, <1>b, <1>r, <2>1, <2>2, <2>4 DEF Dispatch, Flying
  <2>5. QED
    BY <2>3, <2>4
<1>12. CASE Advise(s)
  <2>1. CASE AdvisorAllowed
    <3> DEFINE j == [job[s] EXCEPT !.pc = "poll"]
    <3>1. /\ j \in Jobs /\ j.pc = "poll" /\ j.task = job[s].task
          /\ j.alone = job[s].alone /\ j.mine = job[s].mine /\ j.tool = job[s].tool
      BY <1>a DEF Jobs, Pcs
    <3>2. job' = [job EXCEPT ![s] = j] /\ job[s].pc = "call"
      BY <1>12, <2>1 DEF Advise, PodTypeOK
    <3>3. UNCHANGED <<world, gate, sent, daily, started, task, breaker>>
      BY <1>12, <2>1 DEF Advise
    <3> HIDE DEF j
    <3>4. QED
      BY <1>a, <1>b, <1>d, <1>s, <3>1, <3>2, <3>3 DEF Flying
  <2>2. CASE ~AdvisorAllowed
    BY <1>12, <1>a, <1>b, <1>c, <1>d, <1>g, <1>r, <2>2 DEF Advise, Flying
  <2>3. QED
    BY <2>1, <2>2
<1>13. CASE PollEnds(s)
  BY <1>13, <1>a, <1>b, <1>c, <1>d, <1>g, <1>r DEF PollEnds, Flying
<1>14. CASE PollFails(s)
  BY <1>14, <1>a, <1>b, <1>c, <1>d, <1>g, <1>r DEF PollFails, Flying
<1>15. CASE DeadlinePasses(s)
  <2> DEFINE j == [job[s] EXCEPT !.due = TRUE]
  <2>1. /\ j \in Jobs /\ j.pc = job[s].pc /\ j.task = job[s].task
        /\ j.alone = job[s].alone /\ j.mine = job[s].mine /\ j.tool = job[s].tool
    BY <1>a DEF Jobs
  <2>2. job' = [job EXCEPT ![s] = j] /\ job[s].pc = "poll"
    BY <1>15 DEF DeadlinePasses, PodTypeOK
  <2>3. UNCHANGED <<world, gate, sent, daily, started, task, breaker>>
    BY <1>15 DEF DeadlinePasses, shared
  <2> HIDE DEF j
  <2>4. QED
    BY <1>a, <1>b, <1>d, <1>s, <2>1, <2>2, <2>3 DEF Flying
<1>16. QED
  BY <1>1, <1>2, <1>3, <1>4, <1>5, <1>6, <1>7, <1>8, <1>9, <1>10, <1>11, <1>12,
     <1>13, <1>14, <1>15 DEF Tool

\* The REST client of the gateway is a tool like the others.
LEMMA PeerIsToolStep ==
    ASSUME PodOK, NEW s \in Slots, Peer(s)
    PROVE  ToolStep(s)
<1> USE DEF PodOK
<1>a. job[s] \in Jobs /\ job[s].tool \in world.tools \union {"none"}
  BY DEF PodTypeOK, SlotsHaveTasks
<1>b. /\ breaker \in Breakers /\ gate \in Gates
      /\ sent \in [n : Nat, depth : 0 .. MaxDispatchDepth]
  BY DEF PodTypeOK
<1>c. task' = task => TasksKept
  BY DEF PodTypeOK, TasksKept
<1>1. ASSUME NEW c \in Calls, CallPeer(s, c)
      PROVE  ToolStep(s)
  <2> DEFINE j == [job[s] EXCEPT !.pc = "peer"]
  <2>1. /\ j \in Jobs /\ j.pc = "peer" /\ j.task = job[s].task
        /\ j.alone = job[s].alone /\ j.mine = job[s].mine /\ j.tool = job[s].tool
    BY <1>a DEF Jobs, Pcs
  <2>2. job' = [job EXCEPT ![s] = j] /\ job[s].pc = "call"
    BY <1>1 DEF CallPeer, PodTypeOK
  <2>3. UNCHANGED <<world, gate, sent, daily, started, task, breaker>>
    BY <1>1 DEF CallPeer, shared
  <2> HIDE DEF j
  <2>4. NoDispatch(s, j)
    BY <1>b, <2>1, <2>3 DEF NoDispatch, Gates
  <2>5. QED
    BY <1>a, <1>b, <1>c, <2>1, <2>2, <2>3, <2>4 DEF ToolStep, Flying, daily
<1>2. ASSUME NEW ok, Return(s, job[s], ok), job[s].pc \in Flying,
             UNCHANGED <<world, task, gate, daily, started, sent>>
      PROVE  ToolStep(s)
  <2>1. PICK r \in Jobs :
               /\ job' = [job EXCEPT ![s] = r]
               /\ r.pc = "think" /\ r.tool = "none"
               /\ r.task = job[s].task /\ r.alone = job[s].alone /\ r.mine = job[s].mine
    BY <1>a, <1>b, <1>2, ReturnIsToolStep
  <2>2. breaker' \in Breakers /\ (~world.breaker => breaker' = breaker)
    BY <1>a, <1>b, <1>2, ReturnIsToolStep
  <2>3. NoDispatch(s, r)
    BY <1>b, <1>2, <2>1 DEF NoDispatch, Gates
  <2>4. QED
    BY <1>b, <1>c, <1>2, <2>1, <2>2, <2>3 DEF ToolStep, Flying, daily
<1>3. ASSUME NEW c \in Calls, PeerReturns(s, c)
      PROVE  ToolStep(s)
  BY <1>2, <1>3 DEF PeerReturns, Flying
<1>4. ASSUME NEW c \in Calls, PeerTimesOut(s, c)
      PROVE  ToolStep(s)
  BY <1>2, <1>4 DEF PeerTimesOut, Flying
<1>5. CASE PeerRefused(s)
  BY <1>2, <1>5 DEF PeerRefused, Flying
<1>6. QED
  BY <1>1, <1>3, <1>4, <1>5 DEF Peer

\* The other steps move no slot: stale and refused tasks, timeouts, the
\* cooldown, and what the gateway and its clients do.
LEMMA QuietSteps ==
    ASSUME PodOK,
           \/ \E s \in Slots : Expire(s) \/ \E t \in Tasks : Stale(s, t) \/ OverBudget(s, t)
           \/ CoolDown
           \/ \E c \in Calls : Handle(c) \/ CallDue(c)
           \/ \E x \in Sessions : Forward(x)
           \/ Clients
           \/ UNCHANGED allVars
    PROVE  Quiet
<1> USE DEF PodOK
<1>a. task' = task => TasksKept
  BY DEF PodTypeOK, TasksKept
<1>b. breaker' = breaker => breaker' \in Breakers /\ breaker'.state = breaker.state
  BY DEF PodTypeOK
<1>c. ASSUME TasksKept, UNCHANGED <<world, job, breaker, gate, daily, started, sent>>
      PROVE  Quiet
  BY <1>b, <1>c DEF Quiet, daily, PodTypeOK
<1>1. ASSUME NEW s \in Slots, Expire(s)
      PROVE  Quiet
  <2>1. job' = [job EXCEPT ![s].late = TRUE]
    BY <1>1 DEF Expire
  <2>2. /\ job' \in [Slots -> Jobs]
        /\ \A r \in Slots :
             /\ job'[r].pc = job[r].pc /\ job'[r].task = job[r].task
             /\ job'[r].tool = job[r].tool
             /\ job'[r].alone = job[r].alone /\ job'[r].mine = job[r].mine
    <3> DEFINE j == [job[s] EXCEPT !.late = TRUE]
    <3>1. job[s] \in Jobs
      BY DEF PodTypeOK
    <3>2. /\ j \in Jobs /\ j.pc = job[s].pc /\ j.task = job[s].task /\ j.tool = job[s].tool
          /\ j.alone = job[s].alone /\ j.mine = job[s].mine
      BY <3>1 DEF Jobs
    <3>3. job' = [job EXCEPT ![s] = j]
      BY <2>1
    <3> HIDE DEF j
    <3>4. QED
      BY <3>2, <3>3 DEF PodTypeOK
  <2>3. UNCHANGED <<world, task, shared, daily, started, sent>>
    BY <1>1 DEF Expire
  <2>4. QED
    BY <1>a, <1>b, <2>2, <2>3 DEF Quiet, shared, daily
<1>2. ASSUME NEW s \in Slots, NEW t \in Tasks, Stale(s, t) \/ OverBudget(s, t)
      PROVE  Quiet
  BY <1>2, <1>c, NackedKeepsTasks DEF Stale, OverBudget, shared
<1>3. CASE CoolDown
  <2>1. breaker' \in Breakers /\ breaker'.state = breaker.state
    BY <1>3 DEF CoolDown, PodTypeOK, Breakers
  <2>2. QED
    BY <1>3, <1>a, <2>1 DEF CoolDown, Quiet, daily, PodTypeOK
<1>4. ASSUME NEW c \in Calls, Handle(c) \/ CallDue(c)
      PROVE  Quiet
  <2>1. ASSUME NEW t \in Tasks, Serve(c, t)
        PROVE  Quiet
    BY <1>c, <2>1, SubmitKeepsTasks DEF Serve, shared
  <2>2. CASE ServeAtOnce(c)
    BY <1>a, <1>c, <2>2 DEF ServeAtOnce, shared
  <2>3. CASE StopPolling(c) \/ ReplySession(c) \/ ReplyRest(c) \/ CallDue(c)
    BY <1>a, <1>c, <2>3 DEF StopPolling, ReplySession, ReplyRest, CallDue, vars, daily
  <2>4. QED
    BY <1>4, <2>1, <2>2, <2>3 DEF Handle
<1>s. ASSUME UNCHANGED vars PROVE Quiet
  BY <1>a, <1>c, <1>s DEF vars, daily
<1>5. ASSUME NEW x \in Sessions, Forward(x)
      PROVE  Quiet
  <2>1. UNCHANGED vars
    BY <1>5 DEF Forward
  <2>2. QED
    BY <1>s, <2>1
<1>6. CASE Clients
  <2>1. UNCHANGED vars
    BY <1>6 DEF Clients, OpenSession, CloseSession, Post
  <2>2. QED
    BY <1>s, <2>1
<1>7. CASE UNCHANGED allVars
  BY <1>7, <1>a, <1>c DEF allVars, vars, daily
<1>8. QED
  BY <1>1, <1>2, <1>3, <1>4, <1>5, <1>6, <1>7

LEMMA Classified ==
    ASSUME PodOK, [GatewayNext]_allVars
    PROVE  \/ \E s \in Slots : ToolStep(s) \/ TaskStep(s)
           \/ Quiet
           \/ DayPasses
<1>1. ASSUME NEW s \in Slots, Step(s) \/ Expire(s) \/ DeadlinePasses(s)
      PROVE  ToolStep(s) \/ TaskStep(s) \/ Quiet
  BY <1>1, ToolIsToolStep, QuietSteps DEF Step, TaskStep
<1>2. ASSUME NEW s \in Slots, Peer(s)
      PROVE  ToolStep(s)
  BY <1>2, PeerIsToolStep
<1>3. QED
  BY <1>1, <1>2, QuietSteps DEF GatewayNext, Next

-----------------------------------------------------------------------------
(* The types.                                                              *)

LEMMA PodInit == GatewayInit => PodOK
<1> SUFFICES ASSUME GatewayInit PROVE PodOK
  OBVIOUS
<1>1. Idle \in Jobs /\ Idle.pc = "idle" /\ Idle.tool = "none"
  BY DEF Idle, Jobs, Pcs
<1>2. task \in [Tasks -> TaskStates]
  BY PodAssumption DEF GatewayInit, Init, TaskStates
<1>3. job \in [Slots -> Jobs] /\ \A s \in Slots : job[s] = Idle
  BY <1>1 DEF GatewayInit, Init
<1>4. /\ breaker \in Breakers /\ gate \in Gates
      /\ sent \in [n : Nat, depth : 0 .. MaxDispatchDepth]
  BY PodAssumption DEF GatewayInit, Init, Breakers, Gates
<1>5. QED
  BY <1>1, <1>2, <1>3, <1>4 DEF GatewayInit, Init, PodOK, PodTypeOK, SlotsHaveTasks

\* A slot that gets a new job, with its task on the queue, keeps the types.
LEMMA SlotMoves ==
    ASSUME PodOK, NEW s \in Slots, NEW j \in Jobs, job' = [job EXCEPT ![s] = j],
           world' = world, TasksKept,
           j.tool \in world.tools \union {"none"},
           j.pc # "idle" => j.task \in Tasks /\ task[j.task].st # "unused",
           breaker' \in Breakers, gate' \in Gates,
           usage' \in Nat, spent' \in Nat, lost' \in Nat, started' \in Nat,
           sent' \in [n : Nat, depth : 0 .. MaxDispatchDepth]
    PROVE  PodOK'
<1>1. job' \in [Slots -> Jobs]
  BY DEF PodOK, PodTypeOK
<1>2. PodTypeOK'
  BY <1>1 DEF PodOK, PodTypeOK, TasksKept
<1>3. SlotsHaveTasks'
  BY DEF PodOK, PodTypeOK, SlotsHaveTasks, TasksKept
<1>4. QED
  BY <1>2, <1>3 DEF PodOK

\* The job of a slot after a start, its own or another one.
StartedJob(j, k, p) == k \in Jobs /\ k.pc = p /\ k.task = j.task /\ k.tool = j.tool

LEMMA AloneIsSet ==
  ASSUME NEW j \in Jobs, NEW p \in Pcs, NEW b \in BOOLEAN
  PROVE  /\ StartedJob(j, [j EXCEPT !.pc = p, !.alone = b], p)
         /\ StartedJob(j, [j EXCEPT !.alone = b], j.pc)
BY DEF Jobs, StartedJob

LEMMA TaskStepKeepsTypes ==
    ASSUME PodOK, NEW s \in Slots, TaskStep(s)
    PROVE  PodOK'
<1> USE DEF PodOK
<1>a. /\ job[s] \in Jobs /\ job[s].tool \in world.tools \union {"none"}
      /\ job[s].pc # "idle" => job[s].task \in Tasks /\ task[job[s].task].st # "unused"
  BY DEF PodTypeOK, SlotsHaveTasks
<1>b. /\ breaker \in Breakers /\ gate \in Gates
      /\ usage \in Nat /\ spent \in Nat /\ lost \in Nat /\ started \in Nat
      /\ sent \in [n : Nat, depth : 0 .. MaxDispatchDepth]
      /\ job \in [Slots -> Jobs] /\ task \in [Tasks -> TaskStates] /\ world \in Worlds
  BY DEF PodTypeOK
<1>c. task' = task => TasksKept
  BY <1>b DEF TasksKept
<1>d. Idle \in Jobs /\ Idle.pc = "idle" /\ Idle.tool = "none"
  BY DEF Idle, Jobs, Pcs
<1>e. ASSUME NEW p \in Pcs
      PROVE  LET j == [job[s] EXCEPT !.pc = p]
             IN  j \in Jobs /\ j.pc = p /\ j.task = job[s].task /\ j.tool = job[s].tool
  BY <1>a, <1>e DEF Jobs
<1>1. ASSUME NEW t \in Tasks, Begin(s, t)
      PROVE  PodOK'
  <2> DEFINE p == IF world.gateway THEN "start" ELSE "admit"
             j == [Idle EXCEPT !.task = t, !.pc = p]
  <2>1. p \in Pcs
    BY DEF Pcs
  <2>2. job' = [job EXCEPT ![s] = j] /\ task' = [task EXCEPT ![t].st = "running"]
    BY <1>1 DEF Begin
  <2>3. /\ lost' \in Nat /\ UNCHANGED <<world, breaker, gate, usage, spent, started, sent>>
        /\ task[t].st = "queued"
    BY <1>1, <1>b DEF Begin, shared
  <2> HIDE DEF p
  <2>4. j \in Jobs /\ j.pc = p /\ j.task = t /\ j.tool = "none"
    BY <2>1 DEF Jobs, Idle
  <2>5. TasksKept
    BY <1>b, <2>2 DEF TasksKept, TaskStates
  <2> HIDE DEF j
  <2>6. QED
    BY <1>b, <2>2, <2>3, <2>4, <2>5, SlotMoves
<1>2. CASE Start(s)
  <2>1. gate' \in Gates
    <3>1. task[job[s].task].depth \in 0 .. MaxDispatchDepth
      BY <1>2, <1>a, <1>b DEF Start, TaskStates
    <3>2. gate' = [dispatches |-> 0, searches |-> 0, depth |-> task[job[s].task].depth]
      BY <1>2 DEF Start
    <3>3. QED
      BY <3>1, <3>2, PodAssumption DEF Gates
  <2>2. /\ job' \in [Slots -> Jobs]
        /\ \A r \in Slots : job'[r].task = job[r].task /\ job'[r].tool = job[r].tool
                            /\ (job'[r].pc # "idle" => job[r].pc # "idle")
    <3>1. \A r \in Slots : job[r] \in Jobs /\ job[r].pc \in Pcs
      BY <1>b DEF Jobs
    <3>2. FALSE \in BOOLEAN
      OBVIOUS
    <3>3. PICK b \in BOOLEAN :
            job' = [r \in Slots |-> IF r = s
                                   THEN [job[s] EXCEPT !.pc = "admit", !.alone = b]
                                   ELSE [job[r] EXCEPT !.alone = FALSE]]
      <4> DEFINE only == \A q \in Slots \ {s} : job[q].pc = "idle"
      <4>1. job' = [r \in Slots |-> IF r = s
                                    THEN [job[s] EXCEPT !.pc = "admit", !.alone = only]
                                    ELSE [job[r] EXCEPT !.alone = FALSE]]
        BY <1>2 DEF Start
      <4>2. only \in BOOLEAN
        OBVIOUS
      <4> HIDE DEF only
      <4>3. QED
        BY <4>1, <4>2
    <3>5. "admit" \in Pcs /\ job[s].pc # "idle"
      BY <1>2 DEF Start, Pcs
    <3>6. ASSUME NEW r \in Slots
          PROVE  /\ job'[r] \in Jobs
                 /\ job'[r].task = job[r].task /\ job'[r].tool = job[r].tool
                 /\ (job'[r].pc # "idle" => job[r].pc # "idle")
      <4>1. CASE r = s
        <5>1. job'[r] = [job[s] EXCEPT !.pc = "admit", !.alone = b]
          BY <3>3, <4>1
        <5>2. StartedJob(job[s], job'[r], "admit")
          BY <3>1, <3>3, <3>5, <5>1, AloneIsSet
        <5>3. QED
          BY <3>5, <4>1, <5>2 DEF StartedJob
      <4>2. CASE r # s
        <5>1. job'[r] = [job[r] EXCEPT !.alone = FALSE]
          BY <3>3, <3>6, <4>2
        <5>2. StartedJob(job[r], job'[r], job[r].pc)
          BY <3>1, <3>2, <3>6, <5>1, AloneIsSet
        <5>3. QED
          BY <5>2 DEF StartedJob
      <4>3. QED
        BY <4>1, <4>2
    <3>7. QED
      BY <3>3, <3>6
  <2>3. UNCHANGED <<world, task, breaker, daily, sent>> /\ started' \in Nat
    <3>1. started' = started + 1 /\ UNCHANGED <<world, task, breaker, daily, sent>>
      BY <1>2 DEF Start
    <3>2. QED
      BY <1>b, <3>1
  <2>4. PodTypeOK'
    BY <1>b, <2>1, <2>2, <2>3 DEF PodTypeOK, daily
  <2>5. SlotsHaveTasks'
    BY <2>2, <2>3 DEF SlotsHaveTasks
  <2>6. QED
    BY <2>4, <2>5
<1>f. ASSUME NEW j \in Jobs, job' = [job EXCEPT ![s] = j], job[s].pc # "idle",
             j.pc = "idle" \/ j.task = job[s].task,
             j.tool = job[s].tool \/ j.tool = "none", TasksKept,
             breaker' \in Breakers, usage' \in Nat, spent' \in Nat, lost' \in Nat,
             UNCHANGED <<world, gate, started, sent>>
      PROVE  PodOK'
  BY <1>a, <1>b, <1>f, SlotMoves
<1>3. CASE Admit(s)
  <2>1. breaker' \in Breakers
    BY <1>3, <1>b, AdmittedType DEF Admit
  <2>2. \E p \in Pcs : job' = [job EXCEPT ![s] = [job[s] EXCEPT !.pc = p]]
    BY <1>3, <1>b DEF Admit, Pcs
  <2>3. /\ job[s].pc = "admit"
        /\ UNCHANGED <<world, task, gate, usage, spent, lost, started, sent>>
    BY <1>3 DEF Admit, daily
  <2>4. QED
    BY <1>b, <1>c, <1>e, <1>f, <2>1, <2>2, <2>3
<1>4. CASE Answer(s) \/ Fail(s)
  <2>1. breaker' \in Breakers
    BY <1>4, <1>b, RecordedEndsProbe DEF Answer, Fail
  <2>2. \E p \in Pcs : job' = [job EXCEPT ![s] = [job[s] EXCEPT !.pc = p]]
    BY <1>4, <1>b DEF Answer, Fail, Pcs
  <2>3. /\ job[s].pc = "think"
        /\ UNCHANGED <<world, task, gate, usage, spent, lost, started, sent>>
    BY <1>4 DEF Answer, Fail, daily
  <2>4. QED
    BY <1>b, <1>c, <1>e, <1>f, <2>1, <2>2, <2>3
<1>5. CASE Nack(s)
  <2>1. TasksKept
    BY <1>5, <1>a, NackedKeepsTasks DEF Nack
  <2>2. QED
    BY <1>5, <1>b, <1>d, <1>f, <2>1 DEF Nack, shared, daily
<1>6. CASE Ack(s)
  <2>1. TasksKept
    BY <1>6, <1>a, <1>b DEF Ack, TasksKept, TaskStates
  <2>2. "spend" \in Pcs /\ job[s].pc # "idle"
    BY <1>6 DEF Pcs, Ack
  <2>3. spent' \in Nat /\ UNCHANGED <<world, breaker, gate, usage, lost, started, sent>>
    BY <1>6, <1>b DEF Ack, shared
  <2>4. CASE world.limited
    <3>1. job' = [job EXCEPT ![s] = [job[s] EXCEPT !.pc = "spend"]]
      BY <1>6, <1>b, <2>4 DEF Ack
    <3>2. QED
      BY <1>b, <1>e, <1>f, <2>1, <2>2, <2>3, <3>1
  <2>5. CASE ~world.limited
    BY <1>6, <1>b, <1>d, <1>f, <2>1, <2>2, <2>3, <2>5 DEF Ack
  <2>6. QED
    BY <2>4, <2>5
<1>7. CASE Spend(s) \/ SpendFails(s)
  <2>1. /\ usage' \in Nat /\ lost' \in Nat /\ job[s].pc = "spend"
        /\ job' = [job EXCEPT ![s] = Idle]
        /\ UNCHANGED <<world, task, breaker, gate, spent, started, sent>>
    BY <1>7, <1>b DEF Spend, SpendFails, shared
  <2>2. QED
    BY <1>b, <1>c, <1>d, <1>f, <2>1
<1>8. QED
  BY <1>1, <1>2, <1>3, <1>4, <1>5, <1>6, <1>7 DEF TaskStep

LEMMA PodNext == PodOK /\ [GatewayNext]_allVars => PodOK'
<1> SUFFICES ASSUME PodOK, [GatewayNext]_allVars PROVE PodOK'
  OBVIOUS
<1>1. ASSUME NEW s \in Slots, ToolStep(s)
      PROVE  PodOK'
  <2>1. PICK j \in Jobs :
             /\ job' = [job EXCEPT ![s] = j]
             /\ j.pc \in Flying /\ j.task = job[s].task
             /\ j.tool \in world.tools \union {"none"}
    BY <1>1 DEF ToolStep
  <2>2. job[s].task \in Tasks /\ task[job[s].task].st # "unused"
    BY <1>1 DEF ToolStep, Flying, PodOK, SlotsHaveTasks
  <2>3. QED
    BY <1>1, <2>1, <2>2, SlotMoves DEF ToolStep, PodOK, PodTypeOK
<1>2. ASSUME Quiet
      PROVE  PodOK'
  <2>1. PodTypeOK'
    BY <1>2 DEF Quiet, PodOK, PodTypeOK, TasksKept
  <2>2. SlotsHaveTasks'
    BY <1>2 DEF Quiet, PodOK, SlotsHaveTasks, TasksKept
  <2>3. QED
    BY <2>1, <2>2 DEF PodOK
<1>3. CASE DayPasses
  BY <1>3 DEF DayPasses, shared, PodOK, PodTypeOK, SlotsHaveTasks
<1>4. QED
  BY <1>1, <1>2, <1>3, Classified, TaskStepKeepsTypes

\* Where the pods and the gateway keep their types.
THEOREM PodTypes == GatewaySpec => []PodOK
BY PodInit, PodNext, PTL DEF GatewaySpec

-----------------------------------------------------------------------------
(* What the steps of processTask do to the slots.                          *)

LEMMA PcMoves ==
    ASSUME PodOK, NEW s \in Slots, NEW p \in Pcs, job' = [job EXCEPT ![s].pc = p]
    PROVE  \A r \in Slots :
              /\ job'[r].pc = IF r = s THEN p ELSE job[r].pc
              /\ job'[r].task = job[r].task
              /\ job'[r].alone = job[r].alone /\ job'[r].mine = job[r].mine
BY DEF PodOK, PodTypeOK, Jobs

LEMMA Freed ==
    ASSUME PodOK, NEW s \in Slots, job' = [job EXCEPT ![s] = Idle]
    PROVE  job'[s].pc = "idle" /\ \A r \in Slots \ {s} : job'[r] = job[r]
BY DEF PodOK, PodTypeOK, Idle

LEMMA Begun ==
    ASSUME PodOK, NEW s \in Slots, NEW t \in Tasks, Begin(s, t)
    PROVE  /\ job'[s].pc = IF world.gateway THEN "start" ELSE "admit"
           /\ job'[s].mine = 0
           /\ \A r \in Slots \ {s} : job'[r] = job[r]
<1> DEFINE p == IF world.gateway THEN "start" ELSE "admit"
<1>1. job' = [job EXCEPT ![s] = [Idle EXCEPT !.task = t, !.pc = p]]
  BY DEF Begin
<1> HIDE DEF p
<1>2. /\ [Idle EXCEPT !.task = t, !.pc = p].pc = p
      /\ [Idle EXCEPT !.task = t, !.pc = p].mine = 0
  BY DEF Idle
<1>3. job'[s].pc = p /\ job'[s].mine = 0 /\ \A r \in Slots \ {s} : job'[r] = job[r]
  BY <1>1, <1>2 DEF PodOK, PodTypeOK
<1>4. QED
  BY <1>3 DEF p

LEMMA Started ==
    ASSUME PodOK, NEW s \in Slots, Start(s)
    PROVE  /\ job'[s].pc = "admit" /\ job'[s].mine = job[s].mine
           /\ job'[s].alone => \A q \in Slots \ {s} : job[q].pc = "idle"
           /\ \A r \in Slots \ {s} : job'[r].pc = job[r].pc /\ ~job'[r].alone
           /\ \A r \in Slots : job'[r].task = job[r].task
<1> DEFINE b == \A q \in Slots \ {s} : job[q].pc = "idle"
<1>1. job' = [r \in Slots |-> IF r = s
                              THEN [job[s] EXCEPT !.pc = "admit", !.alone = b]
                              ELSE [job[r] EXCEPT !.alone = FALSE]]
  BY DEF Start
<1> HIDE DEF b
<1>2. job'[s] = [job[s] EXCEPT !.pc = "admit", !.alone = b]
  BY <1>1
<1>3. /\ job'[s].pc = "admit" /\ job'[s].mine = job[s].mine
      /\ job'[s].alone = b /\ job'[s].task = job[s].task
  BY <1>2 DEF PodOK, PodTypeOK, Jobs
<1>4. ASSUME NEW r \in Slots \ {s}
      PROVE  job'[r].pc = job[r].pc /\ ~job'[r].alone /\ job'[r].task = job[r].task
  <2>1. job'[r] = [job[r] EXCEPT !.alone = FALSE]
    BY <1>1, <1>4
  <2>2. QED
    BY <1>4, <2>1 DEF PodOK, PodTypeOK, Jobs
<1>5. QED
  BY <1>3, <1>4 DEF b

-----------------------------------------------------------------------------
(* The circuit breaker.                                                    *)

\* Without a breaker in the configuration there is no half-open circuit.
ProbeInv == ProbeInFlight /\ (~world.breaker => breaker.state = "closed")

LEMMA ProbeInit == GatewayInit => ProbeInv
BY DEF GatewayInit, Init, ProbeInv, ProbeInFlight

LEMMA ProbeNext == PodOK /\ ProbeInv /\ [GatewayNext]_allVars => ProbeInv'
<1> SUFFICES ASSUME PodOK, ProbeInv, [GatewayNext]_allVars PROVE ProbeInv'
  OBVIOUS
<1>a. breaker \in Breakers
  BY DEF PodOK, PodTypeOK
<1>b. ASSUME breaker' = breaker, world' = world,
             \A r \in Slots : job[r].pc \in Flying => job'[r].pc \in Flying
      PROVE  ProbeInv'
  BY <1>b DEF ProbeInv, ProbeInFlight, InFlight, Flying
<1>1. ASSUME NEW s \in Slots, ToolStep(s)
      PROVE  ProbeInv'
  <2>1. job'[s].pc \in Flying
    BY <1>1 DEF ToolStep, PodOK, PodTypeOK
  <2>2. QED
    BY <1>1, <2>1 DEF ToolStep, ProbeInv, ProbeInFlight, InFlight, Flying
<1>2. CASE Quiet
  BY <1>2 DEF Quiet, ProbeInv, ProbeInFlight, InFlight
<1>3. CASE DayPasses
  BY <1>3, <1>b DEF DayPasses, shared
<1>4. ASSUME NEW s \in Slots, TaskStep(s)
      PROVE  ProbeInv'
  <2>1. ASSUME NEW t \in Tasks, Begin(s, t)
        PROVE  ProbeInv'
    BY <1>b, <2>1, Begun DEF Begin, shared, Flying
  <2>2. CASE Start(s)
    BY <1>b, <2>2, Started DEF Start, Flying
  <2>3. CASE Admit(s)
    <3>1. CASE Admits
      <4>1. job'[s].pc = "think"
        BY <2>3, <3>1, PcMoves DEF Admit, Pcs
      <4>2. (~world.breaker => breaker' = breaker) /\ world' = world
        BY <1>a, <2>3, <3>1, AdmittedType DEF Admit
      <4>3. QED
        BY <4>1, <4>2 DEF ProbeInv, ProbeInFlight, InFlight
    <3>2. CASE ~Admits
      BY <1>b, <2>3, <3>2, PcMoves DEF Admit, Pcs, Flying
    <3>3. QED
      BY <3>1, <3>2
  <2>4. CASE Answer(s) \/ Fail(s)
    <3>1. /\ world.breaker => breaker'.state # "half-open"
          /\ ~world.breaker => breaker' = breaker
          /\ world' = world
      BY <1>a, <2>4, RecordedEndsProbe DEF Answer, Fail
    <3>2. QED
      BY <3>1 DEF ProbeInv, ProbeInFlight
  <2>5. CASE Nack(s)
    BY <1>b, <2>5, Freed DEF Nack, shared, Flying
  <2>6. CASE Ack(s)
    <3>1. \A r \in Slots : job[r].pc \in Flying => job'[r].pc \in Flying
      BY <2>6, PcMoves, Freed DEF Ack, Pcs, Flying
    <3>2. QED
      BY <1>b, <2>6, <3>1 DEF Ack, shared
  <2>7. CASE Spend(s) \/ SpendFails(s)
    BY <1>b, <2>7, Freed DEF Spend, SpendFails, shared, Flying
  <2>8. QED
    BY <1>4, <2>1, <2>2, <2>3, <2>4, <2>5, <2>6, <2>7 DEF TaskStep
<1>5. QED
  BY <1>1, <1>2, <1>3, <1>4, Classified

\* For every number of slots, tasks and requests, behind the gateway or not, a
\* half-open breaker has a call in flight that will be recorded: its probes
\* cannot be used up for good (circuit.Breaker, Runner.RunTask, CallTool).
THEOREM ProbesAreMade == GatewaySpec => []ProbeInFlight
<1>1. PodOK /\ ProbeInv /\ [GatewayNext]_allVars => (PodOK /\ ProbeInv)'
  BY PodNext, ProbeNext
<1>2. PodOK /\ ProbeInv => ProbeInFlight
  BY DEF ProbeInv
<1>3. QED
  BY PodInit, ProbeInit, <1>1, <1>2, PTL DEF GatewaySpec

-----------------------------------------------------------------------------
(* The daily budget.                                                       *)

\* Slots whose task has passed the check and is not answered, and slots whose
\* answered task is not yet recorded.
Working == {s \in Slots : job[s].pc \notin {"idle", "spend"}}
Spending == {s \in Slots : job[s].pc = "spend"}

\* What the day has seen is recorded, about to be recorded, or lost; and there
\* is room under the bound for every task that has passed the check.
DailyInv ==
    /\ spent - lost <= usage + Cardinality(Spending)
    /\ spent - lost + Cardinality(Working) <= DailyLimit - 1 + Cardinality(Slots)
    /\ ~world.limited => spent = 0

\* The cardinalities when the steps move one slot.
LEMMA Counted ==
    /\ Cardinality(Slots) \in Nat
    /\ IsFiniteSet(Working) /\ IsFiniteSet(Spending)
    /\ Cardinality(Working) \in Nat /\ Cardinality(Spending) \in Nat
    /\ Cardinality(Working) + Cardinality(Spending) <= Cardinality(Slots)
    /\ \A s \in Slots : s \notin Working /\ s \notin Spending =>
          Cardinality(Working) + Cardinality(Spending) + 1 <= Cardinality(Slots)
<1>1. IsFiniteSet(Slots) /\ Cardinality(Slots) \in Nat
  BY PodAssumption, FS_CardinalityType
<1>2. IsFiniteSet(Working) /\ IsFiniteSet(Spending)
  BY <1>1, FS_Subset DEF Working, Spending
<1>3. Cardinality(Working) \in Nat /\ Cardinality(Spending) \in Nat
  BY <1>2, FS_CardinalityType
<1>4. /\ IsFiniteSet(Working \cup Spending)
      /\ Cardinality(Working \cup Spending) = Cardinality(Working) + Cardinality(Spending)
  <2>1. Working \cap Spending = {}
    BY DEF Working, Spending
  <2>2. Cardinality(Working \cap Spending) = 0
    BY <2>1, FS_EmptySet
  <2>3. /\ IsFiniteSet(Working \cup Spending)
        /\ Cardinality(Working \cup Spending) =
             Cardinality(Working) + Cardinality(Spending) - Cardinality(Working \cap Spending)
    BY <1>2, FS_Union
  <2>4. QED
    BY <1>3, <2>2, <2>3
<1>5. Cardinality(Working \cup Spending) <= Cardinality(Slots)
  BY <1>1, FS_Subset DEF Working, Spending
<1>6. ASSUME NEW s \in Slots, s \notin Working, s \notin Spending
      PROVE  Cardinality(Working) + Cardinality(Spending) + 1 <= Cardinality(Slots)
  <2> DEFINE T == (Working \cup Spending) \cup {s}
  <2>1. Cardinality(T) = Cardinality(Working \cup Spending) + 1
    BY <1>4, <1>6, FS_AddElement
  <2>2. T \in SUBSET Slots
    BY DEF Working, Spending
  <2>3. Cardinality(T) <= Cardinality(Slots)
    BY <1>1, <2>2, FS_Subset
  <2>4. QED
    BY <1>4, <2>1, <2>3
<1>7. QED
  BY <1>1, <1>2, <1>3, <1>4, <1>5, <1>6

LEMMA DailyInit == GatewayInit => DailyInv
<1> SUFFICES ASSUME GatewayInit PROVE DailyInv
  OBVIOUS
<1>1. Working = {} /\ Spending = {}
  BY DEF GatewayInit, Init, Working, Spending, Idle
<1>2. Cardinality(Working) = 0 /\ Cardinality(Spending) = 0
  BY <1>1, FS_EmptySet
<1>3. QED
  BY <1>2, Counted, PodAssumption DEF GatewayInit, Init, DailyInv

LEMMA DailyNext == PodOK /\ DailyInv /\ [GatewayNext]_allVars => DailyInv'
<1> SUFFICES ASSUME PodOK, DailyInv, [GatewayNext]_allVars PROVE DailyInv'
  OBVIOUS
<1> DEFINE W == Cardinality(Working)
           P == Cardinality(Spending)
           N == Cardinality(Slots)
<1>a. usage \in Nat /\ spent \in Nat /\ lost \in Nat
  BY DEF PodOK, PodTypeOK
<1>b. /\ W \in Nat /\ P \in Nat /\ N \in Nat /\ DailyLimit \in Nat \ {0}
      /\ IsFiniteSet(Working) /\ IsFiniteSet(Spending)
  BY Counted, PodAssumption
<1>c. /\ spent - lost <= usage + P
      /\ spent - lost + W <= DailyLimit - 1 + N
      /\ ~world.limited => spent = 0
  BY DEF DailyInv
<1>d. ASSUME \A r \in Slots : job'[r].pc = job[r].pc
      PROVE  Working' = Working /\ Spending' = Spending
  BY <1>d DEF Working, Spending
<1>e. ASSUME Working' = Working, Spending' = Spending,
             UNCHANGED <<world, usage, spent, lost>>
      PROVE  DailyInv'
  BY <1>c, <1>e DEF DailyInv
<1>1. ASSUME NEW s \in Slots, ToolStep(s)
      PROVE  DailyInv'
  <2>1. /\ job[s].pc \in Flying /\ job'[s].pc \in Flying
        /\ \A r \in Slots \ {s} : job'[r] = job[r]
    BY <1>1 DEF ToolStep, PodOK, PodTypeOK
  <2>2. Working' = Working /\ Spending' = Spending
    BY <2>1 DEF Working, Spending, Flying
  <2>3. QED
    BY <1>1, <1>e, <2>2 DEF ToolStep
<1>2. CASE Quiet
  BY <1>2, <1>d, <1>e DEF Quiet
<1>3. CASE DayPasses
  <2>1. /\ usage' = usage - 1 /\ spent' = spent - 1 /\ spent > 0
        /\ lost' = lost /\ job' = job /\ world' = world
    BY <1>3 DEF DayPasses
  <2>2. Working' = Working /\ Spending' = Spending
    BY <1>d, <2>1
  <2> HIDE DEF W, P, N
  <2>3. /\ spent' - lost' <= usage' + P
        /\ spent' - lost' + W <= DailyLimit - 1 + N
    BY <1>a, <1>b, <1>c, <2>1
  <2>4. QED
    BY <1>c, <1>a, <2>1, <2>2, <2>3 DEF DailyInv, W, P, N
<1>4. ASSUME NEW s \in Slots, TaskStep(s)
      PROVE  DailyInv'
  \* A slot leaves one of the two sets, or joins it.
  <2>j. ASSUME s \notin Working, s \notin Spending, Working' = Working \cup {s},
               Spending' = Spending
        PROVE  Cardinality(Working)' = W + 1 /\ Cardinality(Spending)' = P /\ W + P + 1 <= N
    <3>1. Cardinality(Working \cup {s}) = W + 1
      BY <1>b, <2>j, FS_AddElement
    <3>2. W + P + 1 <= N
      BY <2>j, Counted
    <3>3. QED
      BY <2>j, <3>1, <3>2
  <2>l. ASSUME s \in Working, Working' = Working \ {s}
        PROVE  Cardinality(Working)' = W - 1
    BY <1>b, <2>l, FS_RemoveElement
  <2>m. ASSUME s \notin Spending, Spending' = Spending \cup {s}
        PROVE  Cardinality(Spending)' = P + 1
    BY <1>b, <2>m, FS_AddElement
  <2>n. ASSUME s \in Spending, Spending' = Spending \ {s}
        PROVE  Cardinality(Spending)' = P - 1
    BY <1>b, <2>n, FS_RemoveElement
  <2>1. ASSUME NEW t \in Tasks, Begin(s, t)
        PROVE  DailyInv'
    <3>1. /\ s \notin Working /\ s \notin Spending
          /\ Working' = Working \cup {s} /\ Spending' = Spending
      <4>1. job[s].pc = "idle" /\ job'[s].pc \in {"start", "admit"}
        BY <2>1, Begun DEF Begin
      <4>2. \A r \in Slots \ {s} : job'[r] = job[r]
        BY <2>1, Begun
      <4>3. QED
        BY <4>1, <4>2 DEF Working, Spending
    <3>2. Cardinality(Working)' = W + 1 /\ Cardinality(Spending)' = P /\ W + P + 1 <= N
      BY <2>j, <3>1
    <3>3. /\ UNCHANGED <<world, usage, spent>>
          /\ \/ ~world.limited /\ lost' = lost
             \/ usage < DailyLimit /\ lost' = lost
             \/ lost' = lost + 1
      BY <1>a, <1>b, <2>1 DEF Begin, Exceeded, shared
    <3> HIDE DEF W, P, N
    <3>4. /\ spent' - lost' <= usage' + P
          /\ spent' - lost' + (W + 1) <= DailyLimit - 1 + N
      BY <1>a, <1>b, <1>c, <3>2, <3>3
    <3>5. QED
      BY <1>c, <3>2, <3>3, <3>4 DEF DailyInv, N
  <2>2. CASE Start(s)
    <3>1. Working' = Working /\ Spending' = Spending
      <4>1. job[s].pc = "start" /\ job'[s].pc = "admit"
        BY <2>2, Started DEF Start
      <4>2. \A r \in Slots \ {s} : job'[r].pc = job[r].pc
        BY <2>2, Started
      <4>3. QED
        BY <4>1, <4>2 DEF Working, Spending
    <3>2. QED
      BY <1>e, <2>2, <3>1 DEF Start, daily
  <2>3. CASE Admit(s) \/ Answer(s) \/ Fail(s)
    <3>1. Working' = Working /\ Spending' = Spending
      <4>1. PICK p \in {"think", "ack", "nack"} : job' = [job EXCEPT ![s].pc = p]
        BY <2>3 DEF Admit, Answer, Fail
      <4>2. p \in Pcs
        BY DEF Pcs
      <4>3. \A r \in Slots : job'[r].pc = IF r = s THEN p ELSE job[r].pc
        BY <4>1, <4>2, PcMoves
      <4>4. job[s].pc \in {"admit", "think"}
        BY <2>3 DEF Admit, Answer, Fail
      <4>5. QED
        BY <4>3, <4>4 DEF Working, Spending
    <3>2. QED
      BY <1>e, <2>3, <3>1 DEF Admit, Answer, Fail, daily
  <2>4. CASE Nack(s)
    <3>1. s \in Working /\ Working' = Working \ {s} /\ Spending' = Spending
      BY <2>4, Freed DEF Nack, Working, Spending
    <3>2. Cardinality(Working)' = W - 1 /\ Cardinality(Spending)' = P
      BY <2>l, <3>1
    <3>3. UNCHANGED <<world, usage, spent, lost>>
      BY <2>4 DEF Nack, daily
    <3> HIDE DEF W, P, N
    <3>4. spent' - lost' + (W - 1) <= DailyLimit - 1 + N
      BY <1>a, <1>b, <1>c, <3>3
    <3>5. QED
      BY <1>c, <3>2, <3>3, <3>4 DEF DailyInv, N
  <2>5. CASE Ack(s) /\ world.limited
    <3>1. /\ s \in Working /\ Working' = Working \ {s}
          /\ s \notin Spending /\ Spending' = Spending \cup {s}
      <4>1. job[s].pc = "ack" /\ job' = [job EXCEPT ![s].pc = "spend"]
        BY <2>5 DEF Ack
      <4>2. \A r \in Slots : job'[r].pc = IF r = s THEN "spend" ELSE job[r].pc
        <5>1. "spend" \in Pcs
          BY DEF Pcs
        <5>2. QED
          BY <4>1, <5>1, PcMoves
      <4>3. QED
        BY <4>1, <4>2 DEF Working, Spending
    <3>2. Cardinality(Working)' = W - 1 /\ Cardinality(Spending)' = P + 1
      BY <2>l, <2>m, <3>1
    <3>3. spent' = spent + 1 /\ UNCHANGED <<world, usage, lost>>
      BY <2>5 DEF Ack
    <3> HIDE DEF W, P, N
    <3>4. /\ spent' - lost' <= usage' + (P + 1)
          /\ spent' - lost' + (W - 1) <= DailyLimit - 1 + N
      BY <1>a, <1>b, <1>c, <3>3
    <3>5. QED
      BY <2>5, <3>2, <3>3, <3>4 DEF DailyInv, N
  <2>6. CASE Ack(s) /\ ~world.limited
    <3>1. s \in Working /\ Working' = Working \ {s} /\ Spending' = Spending
      BY <2>6, Freed DEF Ack, Working, Spending
    <3>2. Cardinality(Working)' = W - 1 /\ Cardinality(Spending)' = P
      BY <2>l, <3>1
    <3>3. UNCHANGED <<world, usage, spent, lost>>
      BY <2>6 DEF Ack
    <3> HIDE DEF W, P, N
    <3>4. spent' - lost' + (W - 1) <= DailyLimit - 1 + N
      BY <1>a, <1>b, <1>c, <3>3
    <3>5. QED
      BY <1>c, <3>2, <3>3, <3>4 DEF DailyInv, N
  <2>7. CASE Spend(s) \/ SpendFails(s)
    <3>1. /\ s \in Spending /\ Spending' = Spending \ {s} /\ Working' = Working
      BY <2>7, Freed DEF Spend, SpendFails, Working, Spending
    <3>2. Cardinality(Working)' = W /\ Cardinality(Spending)' = P - 1
      BY <2>n, <3>1
    <3>3. /\ UNCHANGED <<world, spent>>
          /\ \/ usage' = usage + 1 /\ lost' = lost
             \/ usage' = usage /\ lost' = lost + 1
      BY <2>7 DEF Spend, SpendFails
    <3> HIDE DEF W, P, N
    <3>4. /\ spent' - lost' <= usage' + (P - 1)
          /\ spent' - lost' + W <= DailyLimit - 1 + N
      BY <1>a, <1>b, <1>c, <3>3
    <3>5. QED
      BY <1>c, <3>2, <3>3, <3>4 DEF DailyInv, N
  <2>8. QED
    BY <1>4, <2>1, <2>2, <2>3, <2>4, <2>5, <2>6, <2>7 DEF TaskStep
<1>5. QED
  BY <1>1, <1>2, <1>3, <1>4, Classified

\* For every limit and every number of slots, the day's answered tasks exceed
\* the daily limit by at most one for each slot, beside those whose check or
\* record failed, although the check and the record are two separate calls of
\* the budget store with the task in between (processTask, budgetStore).
THEOREM BudgetIsKept == GatewaySpec => []DailyBudgetHolds
<1>1. PodOK /\ DailyInv /\ [GatewayNext]_allVars => (PodOK /\ DailyInv)'
  BY PodNext, DailyNext
<1>2. PodOK /\ DailyInv => DailyBudgetHolds
  <2> SUFFICES ASSUME PodOK, DailyInv PROVE DailyBudgetHolds
    OBVIOUS
  <2>1. spent \in Nat /\ lost \in Nat
    BY DEF PodOK, PodTypeOK
  <2>2. QED
    BY <2>1, Counted, PodAssumption DEF DailyInv, DailyBudgetHolds
<1>3. QED
  BY PodInit, DailyInit, <1>1, <1>2, PTL DEF GatewaySpec

-----------------------------------------------------------------------------
(* The gateway's counters.                                                 *)

\* The slots whose task has reset the gateway's counters.
Counting == {s \in Slots : job[s].pc \notin {"idle", "start"}}

\* A task that has not started has sent nothing.
Fresh == \A s \in Slots : job[s].pc = "start" => job[s].mine = 0

\* The dispatches of earlier tasks are paid for by their starts, those since
\* the last start are counted in gate; and a task that has been alone with the
\* counters since it reset them has counted only its own.
DispatchInv ==
    /\ IF started = 0
       THEN sent.n = 0
       ELSE sent.n <= MaxDispatchCalls * (started - 1)
                        + Min2(gate.dispatches, MaxDispatchCalls)
    /\ world.gateway /\ Counting # {} => started > 0
    /\ Fresh
    /\ \A s \in Counting :
          job[s].alone /\ world.gateway =>
              /\ job[s].mine <= gate.dispatches /\ job[s].mine <= MaxDispatchCalls
              /\ gate.depth = task[job[s].task].depth
              /\ Counting = {s}

LEMMA DispatchInit == GatewayInit => DispatchInv
<1> SUFFICES ASSUME GatewayInit PROVE DispatchInv
  OBVIOUS
<1>1. Counting = {}
  BY DEF GatewayInit, Init, Counting, Idle
<1>2. QED
  BY <1>1 DEF GatewayInit, Init, DispatchInv, Fresh, Idle

LEMMA FreshNext == PodOK /\ Fresh /\ [GatewayNext]_allVars => Fresh'
<1> SUFFICES ASSUME PodOK, Fresh, [GatewayNext]_allVars PROVE Fresh'
  OBVIOUS
<1>1. ASSUME NEW s \in Slots, job'[s].pc # "start" \/ job'[s].mine = 0,
             \A r \in Slots \ {s} : job'[r] = job[r]
      PROVE  Fresh'
  BY <1>1 DEF Fresh
<1>2. ASSUME NEW s \in Slots, ToolStep(s)
      PROVE  Fresh'
  <2>1. job'[s].pc \in Flying /\ \A r \in Slots \ {s} : job'[r] = job[r]
    BY <1>2 DEF ToolStep, PodOK, PodTypeOK
  <2>2. QED
    BY <1>1, <2>1 DEF Flying
<1>3. ASSUME NEW s \in Slots, TaskStep(s)
      PROVE  Fresh'
  <2>1. ASSUME NEW t \in Tasks, Begin(s, t)
        PROVE  Fresh'
    BY <1>1, <2>1, Begun
  <2>2. CASE Start(s)
    <3>1. ASSUME NEW r \in Slots \ {s}
          PROVE  job'[r].mine = job[r].mine
      <4>1. job'[r] = [job[r] EXCEPT !.alone = FALSE]
        BY <2>2, <3>1 DEF Start
      <4>2. QED
        BY <3>1, <4>1 DEF PodOK, PodTypeOK, Jobs
    <3>2. QED
      BY <2>2, <3>1, Started DEF Fresh
  <2>3. ASSUME NEW p \in Pcs \ {"start"}, job' = [job EXCEPT ![s].pc = p]
        PROVE  Fresh'
    BY <2>3, PcMoves DEF Fresh
  <2>4. ASSUME job' = [job EXCEPT ![s] = Idle]
        PROVE  Fresh'
    BY <1>1, <2>4, Freed
  <2>5. CASE Admit(s) \/ Answer(s) \/ Fail(s)
    BY <2>3, <2>5 DEF Admit, Answer, Fail, Pcs
  <2>6. CASE Ack(s)
    BY <2>3, <2>4, <2>6 DEF Ack, Pcs
  <2>7. CASE Nack(s) \/ Spend(s) \/ SpendFails(s)
    BY <2>4, <2>7 DEF Nack, Spend, SpendFails
  <2>8. QED
    BY <1>3, <2>1, <2>2, <2>5, <2>6, <2>7 DEF TaskStep
<1>4. CASE Quiet
  BY <1>4 DEF Quiet, Fresh
<1>5. CASE DayPasses
  BY <1>5 DEF DayPasses, Fresh
<1>6. QED
  BY <1>2, <1>3, <1>4, <1>5, Classified

LEMMA DispatchNext == PodOK /\ DispatchInv /\ [GatewayNext]_allVars => DispatchInv'
<1> SUFFICES ASSUME PodOK, DispatchInv, [GatewayNext]_allVars PROVE DispatchInv'
  OBVIOUS
<1> DEFINE M == MaxDispatchCalls
           Total == IF started = 0 THEN sent.n = 0
                    ELSE sent.n <= M * (started - 1) + Min2(gate.dispatches, M)
           Own(s) == /\ job[s].mine <= gate.dispatches /\ job[s].mine <= M
                     /\ gate.depth = task[job[s].task].depth
                     /\ Counting = {s}
           Alone == \A s \in Counting : job[s].alone /\ world.gateway => Own(s)
           Paid == world.gateway /\ Counting # {} => started > 0
<1>a. /\ M \in Nat \ {0} /\ started \in Nat /\ gate \in Gates
      /\ sent.n \in Nat /\ gate.dispatches \in Nat /\ job \in [Slots -> Jobs]
      /\ \A s \in Slots : job[s].mine \in Nat
  BY PodAssumption DEF PodOK, PodTypeOK, Gates, Jobs
<1>b. Total /\ Paid /\ Alone
  BY DEF DispatchInv
<1>f. Fresh'
  BY FreshNext DEF DispatchInv
<1>c. (Total /\ Paid /\ Alone)' => DispatchInv'
  BY <1>f DEF DispatchInv
<1>k. ASSUME NEW s \in Counting
      PROVE  s \in Slots /\ job[s].task \in Tasks /\ task[job[s].task].st # "unused"
  BY <1>k DEF Counting, PodOK, SlotsHaveTasks
\* Slots stop counting, or stay as they are, and the counters stay too.
<1>d. ASSUME Counting' \subseteq Counting, TasksKept,
             UNCHANGED <<world, gate, started, sent>>,
             \A r \in Counting' : /\ job'[r].alone = job[r].alone
                                  /\ job'[r].mine = job[r].mine
                                  /\ job'[r].task = job[r].task
      PROVE  DispatchInv'
  <2>1. Total' /\ Paid'
    BY <1>b, <1>d
  <2>2. ASSUME NEW r \in Counting', job'[r].alone, world'.gateway
        PROVE  Own(r)'
    <3>1. r \in Counting /\ Own(r)
      BY <1>b, <1>d, <2>2
    <3>2. task'[job[r].task].depth = task[job[r].task].depth
      BY <1>d, <1>k, <3>1 DEF TasksKept
    <3>3. QED
      BY <1>d, <2>2, <3>1, <3>2
  <2>3. QED
    BY <1>c, <2>1, <2>2
<1>1. ASSUME NEW s \in Slots, ToolStep(s)
      PROVE  DispatchInv'
  <2>1. PICK j \in Jobs :
             /\ job' = [job EXCEPT ![s] = j]
             /\ j.pc \in Flying /\ j.task = job[s].task /\ j.alone = job[s].alone
             /\ Dispatches(s, j) \/ NoDispatch(s, j)
    BY <1>1 DEF ToolStep
  <2>2. job'[s] = j /\ \A r \in Slots \ {s} : job'[r] = job[r]
    BY <1>a, <2>1
  <2>3. s \in Counting /\ Counting' = Counting
    BY <1>1, <2>1, <2>2 DEF ToolStep, Counting, Flying
  <2>4. started' = started /\ world' = world /\ TasksKept /\ gate' \in Gates
    BY <1>1 DEF ToolStep
  <2>5. Paid'
    BY <1>b, <2>3, <2>4
  <2>6. CASE Dispatches(s, j)
    <3>1. /\ world.gateway /\ gate.dispatches < M
          /\ gate'.dispatches = gate.dispatches + 1 /\ gate'.depth = gate.depth
          /\ sent'.n = sent.n + 1 /\ j.mine = job[s].mine + 1
      BY <1>a, <2>6 DEF Dispatches, Gates
    <3>2. started > 0
      BY <1>b, <2>3, <3>1
    <3>3. Min2(gate'.dispatches, M) = Min2(gate.dispatches, M) + 1
      BY <1>a, <3>1 DEF Min2
    <3>4. Min2(gate.dispatches, M) \in Nat /\ M * (started - 1) \in Nat
      BY <1>a, <3>2 DEF Min2
    <3>5. Total'
      BY <1>a, <1>b, <2>4, <3>1, <3>2, <3>3, <3>4
    <3>6. ASSUME NEW r \in Counting', job'[r].alone, world'.gateway
          PROVE  Own(r)'
      <4>1. r \in Counting /\ job[r].alone
        BY <1>k, <2>1, <2>2, <2>3, <3>6
      <4>2. Own(r)
        BY <1>b, <2>4, <3>6, <4>1
      <4>3. r = s
        BY <2>3, <4>2
      <4>4. task'[j.task].depth = task[job[s].task].depth
        BY <1>k, <2>1, <2>3, <2>4 DEF TasksKept
      <4>5. j.mine <= gate'.dispatches /\ j.mine <= M
        BY <1>a, <3>1, <4>2, <4>3
      <4>6. QED
        BY <2>2, <2>3, <3>1, <4>2, <4>3, <4>4, <4>5
    <3>7. QED
      BY <1>c, <2>5, <3>5, <3>6
  <2>7. CASE NoDispatch(s, j)
    <3>1. /\ gate'.dispatches >= gate.dispatches /\ gate'.depth = gate.depth
          /\ sent' = sent /\ j.mine = job[s].mine /\ gate'.dispatches \in Nat
      BY <2>4, <2>7, PodAssumption DEF NoDispatch, Gates
    <3>2. Min2(gate.dispatches, M) <= Min2(gate'.dispatches, M)
      BY <1>a, <3>1 DEF Min2
    <3>3. Total'
      <4>1. CASE started = 0
        BY <1>b, <2>4, <3>1, <4>1
      <4>2. CASE started # 0
        <5>1. /\ Min2(gate.dispatches, M) \in Nat /\ Min2(gate'.dispatches, M) \in Nat
              /\ M * (started - 1) \in Nat
          BY <1>a, <3>1, <4>2 DEF Min2
        <5>2. sent'.n <= M * (started - 1) + Min2(gate'.dispatches, M)
          BY <1>a, <1>b, <3>1, <3>2, <4>2, <5>1
        <5>3. QED
          BY <2>4, <4>2, <5>2
      <4>3. QED
        BY <4>1, <4>2
    <3>4. ASSUME NEW r \in Counting', job'[r].alone, world'.gateway
          PROVE  Own(r)'
      <4>1. r \in Counting /\ job[r].alone
        BY <1>k, <2>1, <2>2, <2>3, <3>4
      <4>2. Own(r)
        BY <1>b, <2>4, <3>4, <4>1
      <4>3. r = s
        BY <2>3, <4>2
      <4>4. task'[j.task].depth = task[job[s].task].depth
        BY <1>k, <2>1, <2>3, <2>4 DEF TasksKept
      <4>5. j.mine <= gate'.dispatches /\ j.mine <= M
        BY <1>a, <3>1, <4>2, <4>3
      <4>6. QED
        BY <2>2, <2>3, <3>1, <4>2, <4>3, <4>4, <4>5
    <3>5. QED
      BY <1>c, <2>5, <3>3, <3>4
  <2>8. QED
    BY <2>1, <2>6, <2>7
<1>2. CASE Quiet
  BY <1>2, <1>d DEF Quiet, Counting
<1>3. CASE DayPasses
  <2>1. TasksKept
    BY <1>3 DEF DayPasses, TasksKept, PodOK, PodTypeOK
  <2>2. QED
    BY <1>3, <1>d, <2>1 DEF DayPasses, shared, Counting
<1>4. ASSUME NEW s \in Slots, TaskStep(s)
      PROVE  DispatchInv'
  <2>k. task' = task => TasksKept
    BY DEF TasksKept, PodOK, PodTypeOK
  <2>1. ASSUME NEW t \in Tasks, Begin(s, t)
        PROVE  DispatchInv'
    <3>1. TasksKept /\ UNCHANGED <<world, gate, started, sent>>
      BY <2>1 DEF Begin, shared, TasksKept, TaskStates, PodOK, PodTypeOK
    <3>2. \A r \in Slots \ {s} : job'[r] = job[r]
      BY <2>1, Begun
    <3>3. CASE world.gateway
      <4>1. job[s].pc = "idle" /\ job'[s].pc = "start"
        BY <2>1, <3>3, Begun DEF Begin
      <4>2. Counting' \subseteq Counting /\ s \notin Counting'
        BY <3>2, <4>1 DEF Counting
      <4>3. QED
        BY <1>d, <1>k, <3>1, <3>2, <4>2
    <3>4. CASE ~world.gateway
      BY <1>b, <1>c, <3>1, <3>4
    <3>5. QED
      BY <3>3, <3>4
  <2>2. CASE Start(s)
    <3>1. /\ gate' = [dispatches |-> 0, searches |-> 0, depth |-> task[job[s].task].depth]
          /\ started' = started + 1 /\ job[s].pc = "start"
          /\ UNCHANGED <<world, task, sent>>
      BY <2>2 DEF Start
    <3>2. Total'
      <4>1. gate'.dispatches = 0 /\ Min2(0, M) = 0
        BY <1>a, <3>1 DEF Min2
      <4>2. CASE started = 0
        <5>1. sent.n <= M * 0 + 0
          BY <1>a, <1>b, <4>2
        <5>2. QED
          BY <1>a, <3>1, <4>1, <4>2, <5>1
      <4>3. CASE started # 0
        <5>1. Min2(gate.dispatches, M) <= M /\ Min2(gate.dispatches, M) \in Nat
          BY <1>a DEF Min2
        <5>2. M * started = M * (started - 1) + M /\ M * (started - 1) \in Nat
          BY <1>a, <4>3
        <5>3. sent.n <= M * started + 0
          BY <1>a, <1>b, <4>3, <5>1, <5>2
        <5>4. QED
          BY <1>a, <3>1, <4>1, <4>3, <5>3
      <4>4. QED
        BY <4>2, <4>3
    <3>3. Paid'
      BY <1>a, <3>1
    <3>4. ASSUME NEW r \in Counting', job'[r].alone
          PROVE  Own(r)'
      <4>1. r = s
        BY <2>2, <3>4, Started DEF Counting
      <4>2. \A q \in Slots \ {s} : job'[q].pc = "idle"
        BY <2>2, <3>4, <4>1, Started
      <4>3. Counting' = {s}
        BY <3>4, <4>1, <4>2 DEF Counting
      <4>4. job'[s].mine = 0
        BY <2>2, Started DEF Start, DispatchInv, Fresh
      <4>5. QED
        BY <1>a, <2>2, <3>1, <4>1, <4>3, <4>4, Started
    <3>5. QED
      BY <1>c, <3>2, <3>3, <3>4
  <2>3. CASE Admit(s) \/ Answer(s) \/ Fail(s)
    <3>1. PICK p \in {"think", "ack", "nack"} : job' = [job EXCEPT ![s].pc = p]
      BY <2>3 DEF Admit, Answer, Fail
    <3>2. p \in Pcs
      BY DEF Pcs
    <3>3. job[s].pc \in {"admit", "think"}
      BY <2>3 DEF Admit, Answer, Fail
    <3>4. Counting' = Counting
      BY <3>1, <3>2, <3>3, PcMoves DEF Counting
    <3>5. UNCHANGED <<world, gate, task, started, sent>>
      BY <2>3 DEF Admit, Answer, Fail
    <3>6. QED
      BY <1>d, <1>k, <2>k, <3>1, <3>2, <3>4, <3>5, PcMoves
  <2>f. ASSUME job' = [job EXCEPT ![s] = Idle], TasksKept,
               UNCHANGED <<world, gate, started, sent>>
        PROVE  DispatchInv'
    <3>1. job'[s].pc = "idle" /\ \A r \in Slots \ {s} : job'[r] = job[r]
      BY <2>f, Freed
    <3>2. Counting' \subseteq Counting /\ s \notin Counting'
      BY <3>1 DEF Counting
    <3>3. QED
      BY <1>d, <1>k, <2>f, <3>1, <3>2
  <2>t. job[s].pc # "idle" => job[s].task \in Tasks /\ task[job[s].task].st # "unused"
    BY DEF PodOK, SlotsHaveTasks
  <2>4. CASE Nack(s)
    <3>1. TasksKept
      BY <2>4, <2>t, NackedKeepsTasks DEF Nack, PodOK
    <3>2. QED
      BY <2>4, <2>f, <3>1 DEF Nack, shared
  <2>5. CASE Ack(s)
    <3>1. TasksKept
      BY <2>5, <2>t DEF Ack, TasksKept, TaskStates, PodOK, PodTypeOK
    <3>2. UNCHANGED <<world, gate, started, sent>>
      BY <2>5 DEF Ack, shared
    <3>3. CASE world.limited
      <4>1. job' = [job EXCEPT ![s].pc = "spend"] /\ job[s].pc = "ack"
        BY <2>5, <3>3 DEF Ack
      <4>2. "spend" \in Pcs
        BY DEF Pcs
      <4>3. Counting' = Counting
        BY <4>1, <4>2, PcMoves DEF Counting
      <4>4. QED
        BY <1>d, <1>k, <3>1, <3>2, <4>1, <4>2, <4>3, PcMoves
    <3>4. CASE ~world.limited
      BY <2>5, <2>f, <3>1, <3>2, <3>4 DEF Ack
    <3>5. QED
      BY <3>3, <3>4
  <2>6. CASE Spend(s) \/ SpendFails(s)
    BY <2>6, <2>f, <2>k DEF Spend, SpendFails, shared
  <2>7. QED
    BY <1>4, <2>1, <2>2, <2>3, <2>4, <2>5, <2>6 DEF TaskStep
<1>5. QED
  BY <1>1, <1>2, <1>3, <1>4, Classified

\* For every number of slots, tasks and tool calls: no dispatch is deeper than
\* the limit, the dispatches are at most MaxDispatchCalls for each task started,
\* and a task that has the Runner's counters to itself gets its own count and
\* depth (gatewayHandler.resetPerTask, dispatch).
THEOREM DispatchesAreBounded == GatewaySpec => []DispatchIsBounded
<1>1. PodOK /\ DispatchInv /\ [GatewayNext]_allVars => (PodOK /\ DispatchInv)'
  BY PodNext, DispatchNext
<1>2. PodOK /\ DispatchInv => DispatchIsBounded
  <2> SUFFICES ASSUME PodOK, DispatchInv PROVE DispatchIsBounded
    OBVIOUS
  <2> DEFINE M == MaxDispatchCalls
  <2>1. /\ M \in Nat \ {0} /\ started \in Nat /\ gate.dispatches \in Nat
        /\ sent.n \in Nat /\ sent.depth <= MaxDispatchDepth
    BY PodAssumption DEF PodOK, PodTypeOK, Gates
  <2>2. sent.n <= M * started
    <3>1. CASE started = 0
      BY <2>1, <3>1 DEF DispatchInv
    <3>2. CASE started # 0
      <4>1. sent.n <= M * (started - 1) + Min2(gate.dispatches, M)
        BY <3>2 DEF DispatchInv
      <4>2. Min2(gate.dispatches, M) <= M /\ Min2(gate.dispatches, M) \in Nat
        BY <2>1 DEF Min2
      <4>3. M * started = M * (started - 1) + M /\ M * (started - 1) \in Nat
        BY <2>1, <3>2
      <4>4. QED
        BY <2>1, <4>1, <4>2, <4>3
    <3>3. QED
      BY <3>1, <3>2
  <2>3. \A s \in Slots : job[s].pc \in {"think", "call", "poll"} => s \in Counting
    BY DEF Counting
  <2>4. QED
    BY <2>1, <2>2, <2>3 DEF DispatchInv, DispatchIsBounded
<1>3. QED
  BY PodInit, DispatchInit, <1>1, <1>2, PTL DEF GatewaySpec
=============================================================================
