------------------------------ MODULE TaskQueue ------------------------------
(***************************************************************************)
(* The Redis Streams backend of queue.TaskQueue                            *)
(* (runtime/pkg/queue/redis/queue.go) and the agent pods that drain it     *)
(* (pollLoop and processTask of runtime/cmd/kubeswarm-runtime/main.go).    *)
(*                                                                         *)
(* One stream, one consumer group.  A stream entry is identified by its    *)
(* position; it carries the task it is an attempt of (original_task_id,    *)
(* or its own ID when it is the first attempt) and the attempt number.     *)
(* Every Redis command is a step of its own: Ack, Nack and Cancel are      *)
(* sequences of commands that other pods' commands interleave with and     *)
(* that a crash may cut short.                                             *)
(***************************************************************************)
EXTENDS Naturals, Sequences

CONSTANTS
  Tasks,       \* the tasks the controller submits
  Pods,        \* agent pods, each with one poll loop
  Workers,     \* the semaphore slots of all pods (MaxConcurrentTasks each)
  PodOf,       \* the pod a slot belongs to
  MaxRetries,  \* how often a failed task is queued again (cfg.MaxRetries)
  MaxFaults,   \* bound on pod crashes and failed Redis commands
  MaxSteals,   \* bound on tasks that stay unfinished for claimIdleAfter
  LoseWrites   \* may a fault hit between the commands of one Ack or Nack?

ASSUME ConstAssumption ==
  /\ PodOf \in [Workers -> Pods]
  /\ MaxRetries \in Nat
  /\ MaxFaults \in Nat
  /\ MaxSteals \in Nat
  /\ LoseWrites \in BOOLEAN

VARIABLES
  stream,         \* the task stream: every entry ever added
  lastDelivered,  \* the group's last-delivered-id
  deleted,        \* entries removed by XDEL
  pel,            \* entries delivered and not acknowledged
  idle,           \* pending entries idle for claimIdleAfter
  results,        \* the results hash, by original task ID
  dead,           \* entries copied to the dead-letter stream
  held,           \* per pod: the entry its poll loop is waiting to start
  job,            \* per slot: the entry it works on and where it is
  cancelled,      \* per task: how far the controller's Cancel has come
  faults, steals  \* what is used of MaxFaults and MaxSteals

redis   == <<stream, lastDelivered, deleted, pel, idle, results, dead>>
agents  == <<held, job>>
budget  == <<faults, steals>>
vars    == <<redis, agents, cancelled, budget>>

-----------------------------------------------------------------------------
(* Types and helpers *)

Entry   == [task : Tasks, attempt : Nat]
Ids     == 1 .. Len(stream)
NoEntry == 0

\* Before its XACK a slot has only decided how the task ended; after it, the
\* entry is gone from the group and the slot alone still knows of the task.
Deciding == {"run", "ok", "retriable", "permanent"}
Writing  == {"ackSet", "nackCheck", "nackAdd", "deadAdd", "deadSet"}
PC       == {"free"} \cup Deciding \cup Writing

FreeJob == [pc |-> "free", id |-> NoEntry]

TaskOf(i)    == stream[i].task
AttemptOf(i) == stream[i].attempt
Submitted(t) == \E i \in Ids : TaskOf(i) = t
Unread       == {i \in Ids : i > lastDelivered /\ i \notin deleted}

\* A live process has the entry in its hands.
InHand(i) ==
  \/ \E p \in Pods : held[p] = i
  \/ \E w \in Workers : job[w].pc # "free" /\ job[w].id = i

Outstanding(i) == i \in Unread \/ i \in pel \/ InHand(i)

TypeOK ==
  /\ stream \in Seq(Entry)
  /\ lastDelivered \in 0 .. Len(stream)
  /\ deleted \subseteq Ids
  /\ pel \subseteq 1 .. lastDelivered
  /\ idle \subseteq pel
  /\ results \in [Tasks -> {"none", "ok", "failed", "cancelled"}]
  /\ dead \subseteq Ids
  /\ held \in [Pods -> 0 .. lastDelivered]
  /\ job \in [Workers -> [pc : PC, id : 0 .. lastDelivered]]
  /\ \A w \in Workers : job[w].pc # "free" => job[w].id # NoEntry
  /\ cancelled \in [Tasks -> {"no", "xdel", "xack", "done"}]
  /\ faults \in 0 .. MaxFaults
  /\ steals \in 0 .. MaxSteals

Init ==
  /\ stream = <<>>
  /\ lastDelivered = 0
  /\ deleted = {}
  /\ pel = {}
  /\ idle = {}
  /\ results = [t \in Tasks |-> "none"]
  /\ dead = {}
  /\ held = [p \in Pods |-> NoEntry]
  /\ job = [w \in Workers |-> FreeJob]
  /\ cancelled = [t \in Tasks |-> "no"]
  /\ faults = 0
  /\ steals = 0

-----------------------------------------------------------------------------
(* The controller's side *)

\* Submit: XADD with no original_task_id, so the entry is its own original.
Submit(t) ==
  /\ ~Submitted(t)
  /\ stream' = Append(stream, [task |-> t, attempt |-> 0])
  /\ UNCHANGED <<lastDelivered, deleted, pel, idle, results, dead>>
  /\ UNCHANGED <<agents, cancelled, budget>>

\* The controller cancels by the ID it was given, that of the first attempt.
FirstEntry(t) == {i \in Ids : TaskOf(i) = t /\ AttemptOf(i) = 0}

\* A Redis command fails.
CommandFails == faults < MaxFaults /\ faults' = faults + 1

\* Cancel goes on when one of its commands fails.
CancelXDel(t) ==
  /\ Submitted(t)
  /\ cancelled[t] = "no"
  /\ \/ deleted' = deleted \cup FirstEntry(t) /\ UNCHANGED faults
     \/ CommandFails /\ UNCHANGED deleted
  /\ cancelled' = [cancelled EXCEPT ![t] = "xdel"]
  /\ UNCHANGED <<stream, lastDelivered, pel, idle, results, dead>>
  /\ UNCHANGED <<agents, steals>>

CancelXAck(t) ==
  /\ cancelled[t] = "xdel"
  /\ \/ /\ pel' = pel \ FirstEntry(t)
        /\ idle' = idle \ FirstEntry(t)
        /\ UNCHANGED faults
     \/ CommandFails /\ UNCHANGED <<pel, idle>>
  /\ cancelled' = [cancelled EXCEPT ![t] = "xack"]
  /\ UNCHANGED <<stream, lastDelivered, deleted, results, dead>>
  /\ UNCHANGED <<agents, steals>>

CancelHSet(t) ==
  /\ cancelled[t] = "xack"
  /\ \/ results' = [results EXCEPT ![t] = "cancelled"] /\ UNCHANGED faults
     \/ LoseWrites /\ CommandFails /\ UNCHANGED results
  /\ cancelled' = [cancelled EXCEPT ![t] = "done"]
  /\ UNCHANGED <<stream, lastDelivered, deleted, pel, idle, dead>>
  /\ UNCHANGED <<agents, steals>>

-----------------------------------------------------------------------------
(* Poll: reclaim the oldest idle entry, else read the next new one.  The   *)
(* poll loop takes an entry before it has a slot to run it in.             *)

\* XAUTOCLAIM drops an entry that XDEL removed instead of returning it.
ClaimStale(p, i) ==
  /\ held[p] = NoEntry
  /\ i \in idle
  /\ \A j \in idle : i <= j
  /\ idle' = idle \ {i}
  /\ IF i \in deleted
     THEN pel' = pel \ {i} /\ UNCHANGED held
     ELSE held' = [held EXCEPT ![p] = i] /\ UNCHANGED pel
  /\ UNCHANGED <<stream, lastDelivered, deleted, results, dead>>
  /\ UNCHANGED <<job, cancelled, budget>>

\* Mutant: the entry is read outside the group, whose position stays.
ReadNewNoGroup(p, i) ==
  /\ held[p] = NoEntry
  /\ i \in Unread
  /\ held' = [held EXCEPT ![p] = i]
  /\ UNCHANGED <<redis, job, cancelled, budget>>

ReadNew(p, i) ==
  /\ held[p] = NoEntry
  /\ i \in Unread
  /\ \A j \in Unread : i <= j
  /\ \/ idle = {} /\ UNCHANGED faults
     \/ \* XAUTOCLAIM failed: Poll goes on to XREADGROUP
        idle # {} /\ CommandFails
  /\ lastDelivered' = i
  /\ pel' = pel \cup {i}
  /\ held' = [held EXCEPT ![p] = i]
  /\ UNCHANGED <<stream, deleted, idle, results, dead, job, cancelled, steals>>

\* The semaphore has room: processTask runs in a goroutine of its own.
StartTask(w) ==
  /\ held[PodOf[w]] # NoEntry
  /\ job[w].pc = "free"
  /\ job' = [job EXCEPT ![w] = [pc |-> "run", id |-> held[PodOf[w]]]]
  /\ held' = [held EXCEPT ![PodOf[w]] = NoEntry]
  /\ UNCHANGED <<redis, cancelled, budget>>

\* How processTask ends: RunTask succeeded; it failed, or the daily budget
\* is spent; the task is stale, or the failure is permanent.
RunTask(w, outcome) ==
  /\ job[w].pc = "run"
  /\ job' = [job EXCEPT ![w].pc = outcome]
  /\ UNCHANGED <<redis, held, cancelled, budget>>

-----------------------------------------------------------------------------
(* Ack: XACK, then HSET the result under the original task ID.             *)

XAck(i) ==
  /\ pel' = pel \ {i}
  /\ idle' = idle \ {i}

Goto(w, pc) == job' = [job EXCEPT ![w].pc = pc]
Done(w)     == job' = [job EXCEPT ![w] = FreeJob]

\* Mutant: Ack stores the result without an XACK.
AckNoXAck(w) ==
  /\ job[w].pc = "ok"
  /\ Goto(w, "ackSet")
  /\ UNCHANGED <<redis, held, cancelled, budget>>

AckXAck(w) ==
  /\ job[w].pc = "ok"
  /\ XAck(job[w].id)
  /\ Goto(w, "ackSet")
  /\ UNCHANGED <<stream, lastDelivered, deleted, results, dead>>
  /\ UNCHANGED <<held, cancelled, budget>>

\* Mutant: the result is stored under the ID of the attempt, where nobody
\* looks for that of a retry.
AckHSetOwnId(w) ==
  /\ job[w].pc = "ackSet"
  /\ results' = IF AttemptOf(job[w].id) = 0
                THEN [results EXCEPT ![TaskOf(job[w].id)] = "ok"] ELSE results
  /\ Done(w)
  /\ UNCHANGED <<stream, lastDelivered, deleted, pel, idle, dead>>
  /\ UNCHANGED <<held, cancelled, budget>>

AckHSet(w) ==
  /\ job[w].pc = "ackSet"
  /\ results' = [results EXCEPT ![TaskOf(job[w].id)] = "ok"]
  /\ Done(w)
  /\ UNCHANGED <<stream, lastDelivered, deleted, pel, idle, dead>>
  /\ UNCHANGED <<held, cancelled, budget>>

-----------------------------------------------------------------------------
(* Nack: XACK; then, when the task may be retried, HGET the original's     *)
(* result and XADD a new attempt unless it was cancelled; otherwise XADD   *)
(* to the dead-letter stream and HSET the error.                           *)

\* Mutant: one retry too many.
MayRetryOnceMore(w) ==
  job[w].pc = "retriable" /\ AttemptOf(job[w].id) <= MaxRetries

MayRetry(w) ==
  job[w].pc = "retriable" /\ AttemptOf(job[w].id) < MaxRetries

\* Mutants: Nack leaves the entry pending; Nack skips the dead-letter stream.
NackNoXAck(w) ==
  /\ job[w].pc \in {"retriable", "permanent"}
  /\ Goto(w, IF MayRetry(w) THEN "nackCheck" ELSE "deadAdd")
  /\ UNCHANGED <<redis, held, cancelled, budget>>

NackNoDeadLetter(w) ==
  /\ job[w].pc \in {"retriable", "permanent"}
  /\ XAck(job[w].id)
  /\ Goto(w, IF MayRetry(w) THEN "nackCheck" ELSE "deadSet")
  /\ UNCHANGED <<stream, lastDelivered, deleted, results, dead>>
  /\ UNCHANGED <<held, cancelled, budget>>

NackXAck(w) ==
  /\ job[w].pc \in {"retriable", "permanent"}
  /\ XAck(job[w].id)
  /\ Goto(w, IF MayRetry(w) THEN "nackCheck" ELSE "deadAdd")
  /\ UNCHANGED <<stream, lastDelivered, deleted, results, dead>>
  /\ UNCHANGED <<held, cancelled, budget>>

\* Mutant: a slot whose task was cancelled is never released.
NackHGetLeak(w) ==
  /\ job[w].pc = "nackCheck"
  /\ results[TaskOf(job[w].id)] # "cancelled"
  /\ Goto(w, "nackAdd")
  /\ UNCHANGED <<redis, held, cancelled, budget>>

\* A failed HGET counts as "not cancelled".
NackHGet(w) ==
  /\ job[w].pc = "nackCheck"
  /\ \/ /\ results[TaskOf(job[w].id)] = "cancelled"
        /\ Done(w)
        /\ UNCHANGED faults
     \/ /\ results[TaskOf(job[w].id)] # "cancelled"
        /\ Goto(w, "nackAdd")
        /\ UNCHANGED faults
     \/ /\ results[TaskOf(job[w].id)] = "cancelled"
        /\ CommandFails
        /\ Goto(w, "nackAdd")
  /\ UNCHANGED <<redis, held, cancelled, steals>>

NackXAddRetry(w) ==
  /\ job[w].pc = "nackAdd"
  /\ stream' = Append(stream, [task    |-> TaskOf(job[w].id),
                               attempt |-> AttemptOf(job[w].id) + 1])
  /\ Done(w)
  /\ UNCHANGED <<lastDelivered, deleted, pel, idle, results, dead>>
  /\ UNCHANGED <<held, cancelled, budget>>

\* Mutant: Nack ends with the dead letter and stores no error result.
NackDeadOnly(w) ==
  /\ job[w].pc = "deadAdd"
  /\ dead' = dead \cup {job[w].id}
  /\ Done(w)
  /\ UNCHANGED <<stream, lastDelivered, deleted, pel, idle, results>>
  /\ UNCHANGED <<held, cancelled, budget>>

NackXAddDead(w) ==
  /\ job[w].pc = "deadAdd"
  /\ dead' = dead \cup {job[w].id}
  /\ Goto(w, "deadSet")
  /\ UNCHANGED <<stream, lastDelivered, deleted, pel, idle, results>>
  /\ UNCHANGED <<held, cancelled, budget>>

NackHSet(w) ==
  /\ job[w].pc = "deadSet"
  /\ results' = [results EXCEPT ![TaskOf(job[w].id)] = "failed"]
  /\ Done(w)
  /\ UNCHANGED <<stream, lastDelivered, deleted, pel, idle, dead>>
  /\ UNCHANGED <<held, cancelled, budget>>

-----------------------------------------------------------------------------
(* Faults and time *)

\* A Redis command of Ack or Nack fails: processTask logs the error and ends.
RedisError(w) ==
  /\ CommandFails
  /\ job[w].pc \in (Deciding \ {"run"}) \cup Writing
  /\ job[w].pc \in Writing => LoseWrites
  /\ Done(w)
  /\ UNCHANGED <<redis, held, cancelled, steals>>

\* The pod dies, or gets SIGTERM: pollLoop returns without waiting for its
\* goroutines, and main exits.  A new pod takes its place.
PodCrash(p) ==
  /\ faults < MaxFaults
  /\ \A w \in Workers :
       PodOf[w] = p /\ job[w].pc \in Writing => LoseWrites
  /\ faults' = faults + 1
  /\ held' = [held EXCEPT ![p] = NoEntry]
  /\ job' = [w \in Workers |-> IF PodOf[w] = p THEN FreeJob ELSE job[w]]
  /\ UNCHANGED <<redis, cancelled, steals>>

\* Mutant: entries are reclaimed without regard to their idle time.
BecomesIdleAtOnce(i) ==
  /\ i \in pel \ idle
  /\ idle' = idle \cup {i}
  /\ UNCHANGED <<stream, lastDelivered, deleted, pel, results, dead>>
  /\ UNCHANGED <<agents, cancelled, budget>>

\* An entry has been pending for claimIdleAfter.  When a live pod still has
\* it, the task runs or waits for its slot for that long: a steal may follow.
BecomesIdle(i) ==
  /\ i \in pel \ idle
  /\ \/ ~InHand(i) /\ UNCHANGED steals
     \/ InHand(i) /\ steals < MaxSteals /\ steals' = steals + 1
  /\ idle' = idle \cup {i}
  /\ UNCHANGED <<stream, lastDelivered, deleted, pel, results, dead>>
  /\ UNCHANGED <<agents, cancelled, faults>>

-----------------------------------------------------------------------------

Controller(t) == Submit(t) \/ CancelXDel(t) \/ CancelXAck(t) \/ CancelHSet(t)

Poll(p) == \E i \in Ids : ClaimStale(p, i) \/ ReadNew(p, i)

Outcome == {"ok", "retriable", "permanent"}

Work(w) ==
  \/ StartTask(w)
  \/ \E o \in Outcome : RunTask(w, o)
  \/ AckXAck(w) \/ AckHSet(w)
  \/ NackXAck(w) \/ NackHGet(w) \/ NackXAddRetry(w)
  \/ NackXAddDead(w) \/ NackHSet(w)

Fault ==
  \/ \E w \in Workers : RedisError(w)
  \/ \E p \in Pods : PodCrash(p)

Next ==
  \/ \E t \in Tasks : Controller(t)
  \/ \E p \in Pods : Poll(p)
  \/ \E w \in Workers : Work(w)
  \/ \E i \in Ids : BecomesIdle(i)
  \/ Fault

Spec == Init /\ [][Next]_vars

\* Pods keep polling and working, a Cancel that began goes on, and an entry
\* nobody works on becomes idle in time.  Submissions, new cancellations
\* and faults need never happen.
Fairness ==
  /\ \A t \in Tasks : WF_vars(CancelXAck(t)) /\ WF_vars(CancelHSet(t))
  /\ \A p \in Pods : WF_vars(Poll(p))
  /\ \A w \in Workers : WF_vars(Work(w))
  /\ WF_vars(\E i \in Ids : ~InHand(i) /\ BecomesIdle(i))

FairSpec == Spec /\ Fairness

-----------------------------------------------------------------------------
(* Properties *)

\* An attempt that a pod will still finish: unread, pending in the group (so
\* that claimStale finds it should its pod be dead), or in the hands of a slot
\* between its XACK and its last write.
Recoverable(i) ==
  \/ i \in Unread
  \/ i \in pel
  \/ \E w \in Workers : job[w].pc \in Writing /\ job[w].id = i

\* No task is lost: a submitted task has a result, is being cancelled, or has
\* an attempt that will be finished, whichever pods crash in the meantime.
Covered(t) ==
  \/ results[t] # "none"
  \/ cancelled[t] # "no"
  \/ \E i \in Ids : TaskOf(i) = t /\ Recoverable(i)

NoTaskLost == \A t \in Tasks : Submitted(t) => Covered(t)

\* claimStale never hands a second process an entry that a live one has.
OneHolder ==
  /\ \A w \in Workers, p \in Pods :
       job[w].pc # "free" => held[p] # job[w].id
  /\ \A p, q \in Pods : held[p] = held[q] /\ held[p] # NoEntry => p = q
  /\ \A v, w \in Workers :
       job[v].pc # "free" /\ job[w].pc # "free" /\ job[v].id = job[w].id
         => v = w

\* Of a task's attempts at most one is outstanding, and none follows it: the
\* retry chain that Nack builds is a line, one attempt after the other.
OneAttemptAtATime ==
  \A i, j \in Ids :
    TaskOf(i) = TaskOf(j) /\ Outstanding(i) => j <= i

\* Successive attempts of a task are numbered upwards, never past MaxRetries.
AttemptsIncrease ==
  /\ \A i \in Ids : AttemptOf(i) <= MaxRetries
  /\ \A i, j \in Ids :
       TaskOf(i) = TaskOf(j) /\ i < j => AttemptOf(i) < AttemptOf(j)

\* Once Ack or Nack has stored a task's answer, no attempt is left that could
\* store another.
AnswerIsLast ==
  \A i \in Ids : Outstanding(i) => results[TaskOf(i)] \notin {"ok", "failed"}

\* The retry chain is numbered by Nack and ends with the answer: attempts go up
\* to MaxRetries, and none is left that could answer a second time.
AttemptsAreOrdered == AttemptsIncrease /\ AnswerIsLast

\* A task reported failed has an entry in the dead-letter stream.
FailedIsDeadLettered ==
  \A t \in Tasks :
    results[t] = "failed" => \E i \in dead : TaskOf(i) = t

\* The queue implements the ledger the controller relies on.
LedgerOf ==
  [t \in Tasks |-> IF results[t] # "none" THEN results[t]
                   ELSE IF Submitted(t) THEN "open" ELSE "absent"]

Ledger == INSTANCE TaskLedger WITH ledger <- LedgerOf

LedgerSpec == Ledger!Spec

\* Every submitted task gets a result.
EveryTaskAnswered ==
  \A t \in Tasks : Submitted(t) ~> results[t] # "none"

\* Work on a cancelled task comes to an end: in the long run no attempt of it
\* is unread, pending or running.
CancelledTaskStops ==
  \A t \in Tasks :
    cancelled[t] = "done" ~>
      [](\A i \in Ids : TaskOf(i) = t => ~Outstanding(i))
=============================================================================
