--------------------------- MODULE TaskQueueProofs ---------------------------
EXTENDS TaskQueue, TLAPS

(* Type correctness.                                                       *)

LEMMA TypeInit == Init => TypeOK
  BY ConstAssumption DEF Init, TypeOK, Ids, FreeJob, NoEntry, PC

LEMMA AppendType ==
  ASSUME NEW S, NEW q \in Seq(S), NEW e \in S
  PROVE  /\ Append(q, e) \in Seq(S)
         /\ Len(Append(q, e)) = Len(q) + 1
         /\ \A i \in 1 .. Len(q) : Append(q, e)[i] = q[i]
         /\ Append(q, e)[Len(q) + 1] = e
         /\ Len(q) \in Nat
  OBVIOUS

LEMMA EntryType ==
  ASSUME TypeOK, NEW i \in Ids
  PROVE  stream[i] \in Entry /\ TaskOf(i) \in Tasks /\ AttemptOf(i) \in Nat
<1>1. stream[i] \in Entry
  BY DEF TypeOK, Ids
<1> QED
  BY <1>1 DEF TaskOf, AttemptOf, Entry

\* The entry a busy slot works on exists and says which attempt it is.
LEMMA JobEntry ==
  ASSUME TypeOK, NEW w \in Workers, job[w].pc # "free"
  PROVE  /\ job[w].id \in Ids /\ job[w].id \in 1 .. lastDelivered
         /\ stream[job[w].id] \in Entry
         /\ TaskOf(job[w].id) \in Tasks
         /\ AttemptOf(job[w].id) \in Nat
<1>1. job[w].id \in Ids /\ job[w].id \in 1 .. lastDelivered
  BY DEF TypeOK, Ids, NoEntry
<1> QED
  BY <1>1, EntryType

LEMMA TypeStep == TypeOK /\ [Next]_vars => TypeOK'
<1> SUFFICES ASSUME TypeOK, [Next]_vars PROVE TypeOK'
  OBVIOUS
<1> USE ConstAssumption DEF NoEntry
<1>1. ASSUME NEW t \in Tasks, Submit(t) PROVE TypeOK'
  <2> DEFINE e == [task |-> t, attempt |-> 0]
  <2>1. e \in Entry
    BY DEF Entry
  <2>2. /\ stream' \in Seq(Entry) /\ Len(stream') = Len(stream) + 1
        /\ Len(stream) \in Nat
    BY <1>1, <2>1, AppendType DEF Submit, TypeOK
  <2> QED
    BY <1>1, <2>2 DEF Submit, TypeOK, Ids, agents, budget
<1>2. ASSUME NEW t \in Tasks, CancelXDel(t) PROVE TypeOK'
  <2>1. deleted' \subseteq Ids
    BY <1>2 DEF CancelXDel, TypeOK, FirstEntry
  <2>2. faults' \in 0 .. MaxFaults
    BY <1>2 DEF CancelXDel, CommandFails, TypeOK
  <2> QED
    BY <1>2, <2>1, <2>2 DEF CancelXDel, TypeOK, Ids, agents
<1>3. ASSUME NEW t \in Tasks, CancelXAck(t) PROVE TypeOK'
  <2>1. pel' \subseteq pel /\ idle' \subseteq pel'
    BY <1>3 DEF CancelXAck, TypeOK
  <2>2. faults' \in 0 .. MaxFaults
    BY <1>3 DEF CancelXAck, CommandFails, TypeOK
  <2> QED
    BY <1>3, <2>1, <2>2 DEF CancelXAck, TypeOK, Ids, agents
<1>4. ASSUME NEW t \in Tasks, CancelHSet(t) PROVE TypeOK'
  BY <1>4 DEF CancelHSet, CommandFails, TypeOK, Ids, agents
<1>5. ASSUME NEW p \in Pods, NEW i \in Ids, ClaimStale(p, i) PROVE TypeOK'
  <2>1. i \in 1 .. lastDelivered
    BY <1>5 DEF ClaimStale, TypeOK
  <2>2. pel' \subseteq pel /\ idle' \subseteq pel'
    BY <1>5 DEF ClaimStale, TypeOK
  <2>3. held' \in [Pods -> 0 .. lastDelivered]
    <3>1. CASE i \in deleted
      BY <1>5, <3>1 DEF ClaimStale, TypeOK
    <3>2. CASE i \notin deleted
      <4>1. i \in 0 .. lastDelivered
        BY <2>1 DEF TypeOK
      <4> QED
        BY <1>5, <3>2, <4>1 DEF ClaimStale, TypeOK
    <3> QED
      BY <3>1, <3>2
  <2> QED
    BY <1>5, <2>2, <2>3 DEF ClaimStale, TypeOK, Ids, budget
<1>6. ASSUME NEW p \in Pods, NEW i \in Ids, ReadNew(p, i) PROVE TypeOK'
  BY <1>6 DEF ReadNew, CommandFails, TypeOK, Ids, Unread
<1>7. ASSUME NEW w \in Workers, StartTask(w) PROVE TypeOK'
  BY <1>7 DEF StartTask, TypeOK, Ids, PC, Deciding, Writing, redis, budget
<1>8. ASSUME NEW w \in Workers, NEW o \in Outcome, RunTask(w, o) PROVE TypeOK'
  BY <1>8 DEF RunTask, Outcome, TypeOK, Ids, PC, Deciding, Writing, redis, budget
<1>9. ASSUME NEW w \in Workers, AckXAck(w) PROVE TypeOK'
  BY <1>9 DEF AckXAck, XAck, Goto, TypeOK, Ids, PC, Deciding, Writing, budget
<1>10. ASSUME NEW w \in Workers, AckHSet(w) PROVE TypeOK'
  <2>1. TaskOf(job[w].id) \in Tasks
    BY <1>10, JobEntry DEF AckHSet
  <2>2. job' \in [Workers -> [pc : PC, id : 0 .. lastDelivered]]
    BY <1>10 DEF AckHSet, Done, FreeJob, TypeOK, PC
  <2> QED
    BY <1>10, <2>1, <2>2 DEF AckHSet, Done, FreeJob, TypeOK, Ids, budget
<1>11. ASSUME NEW w \in Workers, NackXAck(w) PROVE TypeOK'
  BY <1>11 DEF NackXAck, XAck, Goto, TypeOK, Ids, PC, Deciding, Writing, budget
<1>12. ASSUME NEW w \in Workers, NackHGet(w) PROVE TypeOK'
  <2>1. /\ job' \in [Workers -> [pc : PC, id : 0 .. lastDelivered]]
        /\ \A v \in Workers : job'[v].pc # "free" => job'[v].id # 0
    <3>1. CASE Done(w)
      BY <3>1 DEF Done, FreeJob, TypeOK, PC
    <3>2. CASE Goto(w, "nackAdd")
      BY <1>12, <3>2 DEF NackHGet, Goto, TypeOK, PC, Writing
    <3> QED
      BY <1>12, <3>1, <3>2 DEF NackHGet
  <2>2. faults' \in 0 .. MaxFaults
    BY <1>12 DEF NackHGet, CommandFails, TypeOK
  <2> QED
    BY <1>12, <2>1, <2>2 DEF NackHGet, TypeOK, Ids, redis
<1>13. ASSUME NEW w \in Workers, NackXAddRetry(w) PROVE TypeOK'
  <2> DEFINE e == [task |-> TaskOf(job[w].id),
                   attempt |-> AttemptOf(job[w].id) + 1]
  <2>1. e \in Entry
    BY <1>13, JobEntry DEF NackXAddRetry, Entry
  <2>2. /\ stream' \in Seq(Entry) /\ Len(stream') = Len(stream) + 1
        /\ Len(stream) \in Nat
    BY <1>13, <2>1, AppendType DEF NackXAddRetry, TypeOK
  <2> QED
    BY <1>13, <2>2 DEF NackXAddRetry, Done, FreeJob, TypeOK, Ids, PC, budget
<1>14. ASSUME NEW w \in Workers, NackXAddDead(w) PROVE TypeOK'
  BY <1>14 DEF NackXAddDead, Goto, TypeOK, Ids, PC, Deciding, Writing, budget
<1>15. ASSUME NEW w \in Workers, NackHSet(w) PROVE TypeOK'
  <2>1. TaskOf(job[w].id) \in Tasks
    BY <1>15, JobEntry DEF NackHSet
  <2>2. job' \in [Workers -> [pc : PC, id : 0 .. lastDelivered]]
    BY <1>15 DEF NackHSet, Done, FreeJob, TypeOK, PC
  <2> QED
    BY <1>15, <2>1, <2>2 DEF NackHSet, Done, FreeJob, TypeOK, Ids, budget
<1>16. ASSUME NEW w \in Workers, RedisError(w) PROVE TypeOK'
  BY <1>16 DEF RedisError, CommandFails, Done, FreeJob, TypeOK, Ids, PC, redis
<1>17. ASSUME NEW p \in Pods, PodCrash(p) PROVE TypeOK'
  BY <1>17 DEF PodCrash, FreeJob, TypeOK, Ids, PC, redis
<1>18. ASSUME NEW i \in Ids, BecomesIdle(i) PROVE TypeOK'
  BY <1>18 DEF BecomesIdle, TypeOK, Ids, agents
<1>19. CASE UNCHANGED vars
  BY <1>19 DEF vars, redis, agents, budget, TypeOK, Ids
<1> QED
  BY <1>1, <1>2, <1>3, <1>4, <1>5, <1>6, <1>7, <1>8, <1>9, <1>10, <1>11,
     <1>12, <1>13, <1>14, <1>15, <1>16, <1>17, <1>18, <1>19
     DEF Next, Controller, Poll, Work, Fault

\* Every variable of the queue and of its pods stays within its type.
THEOREM TypeCorrect == Spec => []TypeOK
  BY TypeInit, TypeStep, PTL DEF Spec

-----------------------------------------------------------------------------
(* No task is lost.  NoTaskLost is inductive once it is known that XDEL     *)
(* only ever removes entries of tasks being cancelled.                     *)

DeletedIsCancelled == \A i \in deleted : cancelled[TaskOf(i)] # "no"

LostInv == TypeOK /\ DeletedIsCancelled /\ NoTaskLost

\* What an action has to do for the task of every attempt that it does not
\* leave recoverable.
LEMMA CoveredStep ==
  ASSUME LostInv,
         UNCHANGED stream,
         \A t \in Tasks : results[t] # "none" => results'[t] # "none",
         \A t \in Tasks : cancelled[t] # "no" => cancelled'[t] # "no",
         \A i \in Ids : Recoverable(i) =>
            Recoverable(i)' \/ results'[TaskOf(i)] # "none"
                            \/ cancelled'[TaskOf(i)] # "no"
  PROVE  NoTaskLost'
<1> SUFFICES ASSUME NEW t \in Tasks, Submitted(t)' PROVE Covered(t)'
  BY DEF NoTaskLost
<1>1. Submitted(t)
  BY DEF Submitted, Ids, TaskOf
<1>2. Covered(t)
  BY <1>1 DEF LostInv, NoTaskLost
<1>3. CASE results[t] # "none" \/ cancelled[t] # "no"
  BY <1>3 DEF Covered
<1>4. CASE \E i \in Ids : TaskOf(i) = t /\ Recoverable(i)
  <2> PICK i \in Ids : TaskOf(i) = t /\ Recoverable(i)
    BY <1>4
  <2>1. i \in Ids' /\ TaskOf(i)' = t
    BY DEF Ids, TaskOf
  <2> QED
    BY <2>1 DEF Covered
<1> QED
  BY <1>2, <1>3, <1>4 DEF Covered

\* A new entry is unread, and the others are as they were.
LEMMA AppendedIsUnread ==
  ASSUME TypeOK, NEW e \in Entry, stream' = Append(stream, e)
  PROVE  /\ Len(stream) \in Nat /\ Len(stream') = Len(stream) + 1
         /\ \A i \in 1 .. Len(stream) : stream'[i] = stream[i]
         /\ stream'[Len(stream) + 1] = e
         /\ Len(stream) + 1 \notin deleted
         /\ Len(stream) + 1 > lastDelivered
<1>1. /\ Len(stream') = Len(stream) + 1
      /\ \A i \in 1 .. Len(stream) : stream'[i] = stream[i]
      /\ stream'[Len(stream) + 1] = e
      /\ Len(stream) \in Nat
  BY AppendType DEF TypeOK
<1> QED
  BY <1>1 DEF TypeOK, Ids

LEMMA CoveredAppend ==
  ASSUME LostInv, NEW e \in Entry, stream' = Append(stream, e),
         UNCHANGED <<lastDelivered, deleted, pel, results, cancelled>>,
         \A w \in Workers :
            job[w].pc # "free" /\ job'[w] # job[w] => TaskOf(job[w].id) = e.task
  PROVE  NoTaskLost'
<1> SUFFICES ASSUME NEW t \in Tasks, Submitted(t)' PROVE Covered(t)'
  BY DEF NoTaskLost
<1> DEFINE n == Len(stream) + 1
<1>1. /\ Len(stream) \in Nat /\ Len(stream') = n
      /\ \A i \in Ids : i \in Ids' /\ stream'[i] = stream[i]
      /\ stream'[n] = e /\ n \in Unread'
  BY AppendedIsUnread DEF LostInv, Ids, Unread
<1>2. CASE t = e.task
  BY <1>1, <1>2 DEF Covered, Recoverable, Unread, TaskOf
<1>3. CASE t # e.task
  <2>1. Submitted(t)
    BY <1>1, <1>3 DEF Submitted, Ids, TaskOf
  <2>2. CASE results[t] # "none" \/ cancelled[t] # "no"
    BY <2>2 DEF Covered
  <2>3. CASE \E i \in Ids : TaskOf(i) = t /\ Recoverable(i)
    <3> PICK i \in Ids : TaskOf(i) = t /\ Recoverable(i)
      BY <2>3
    <3>1. i \in Unread => i \in Unread'
      BY <1>1 DEF Unread
    <3>2. \A w \in Workers : job[w].pc \in Writing /\ job[w].id = i
                               => job'[w] = job[w]
      BY <1>3 DEF Writing
    <3>3. Recoverable(i)'
      BY <3>1, <3>2 DEF Recoverable
    <3>4. i \in Ids' /\ TaskOf(i)' = t
      BY <1>1 DEF TaskOf
    <3> QED
      BY <3>3, <3>4 DEF Covered
  <2> QED
    BY <2>1, <2>2, <2>3 DEF LostInv, NoTaskLost, Covered
<1> QED
  BY <1>2, <1>3

LEMMA DeletedStep ==
  ASSUME TypeOK, DeletedIsCancelled, [Next]_vars PROVE DeletedIsCancelled'
<1> USE DEF DeletedIsCancelled
<1>1. ASSUME NEW t \in Tasks, Submit(t) PROVE DeletedIsCancelled'
  <2>1. [task |-> t, attempt |-> 0] \in Entry
    BY DEF Entry
  <2>2. \A i \in deleted : stream'[i] = stream[i]
    BY <1>1, <2>1, AppendedIsUnread DEF Submit, TypeOK, Ids
  <2> QED
    BY <1>1, <2>2 DEF Submit, TaskOf
<1>2. ASSUME NEW t \in Tasks, CancelXDel(t) PROVE DeletedIsCancelled'
  <2>1. \A i \in deleted' : i \in deleted \/ TaskOf(i) = t
    BY <1>2 DEF CancelXDel, FirstEntry
  <2>2. cancelled'[t] # "no" /\ \A u \in Tasks : u # t => cancelled'[u] = cancelled[u]
    BY <1>2 DEF CancelXDel, TypeOK
  <2>3. \A i \in deleted : TaskOf(i) \in Tasks
    BY EntryType DEF TypeOK
  <2>4. stream' = stream
    BY <1>2 DEF CancelXDel
  <2> QED
    BY <2>1, <2>2, <2>3, <2>4 DEF TaskOf
<1>3. ASSUME NEW t \in Tasks, CancelXAck(t) \/ CancelHSet(t)
      PROVE  DeletedIsCancelled'
  <2>1. \A u \in Tasks : cancelled[u] # "no" => cancelled'[u] # "no"
    BY <1>3 DEF CancelXAck, CancelHSet, TypeOK
  <2>2. \A i \in deleted : TaskOf(i) \in Tasks
    BY EntryType DEF TypeOK
  <2>3. UNCHANGED <<stream, deleted>>
    BY <1>3 DEF CancelXAck, CancelHSet
  <2> QED
    BY <2>1, <2>2, <2>3 DEF TaskOf
<1>4. ASSUME NEW w \in Workers, NackXAddRetry(w) PROVE DeletedIsCancelled'
  <2> DEFINE e == [task |-> TaskOf(job[w].id),
                   attempt |-> AttemptOf(job[w].id) + 1]
  <2>1. e \in Entry
    BY <1>4, JobEntry DEF NackXAddRetry, Entry
  <2>2. \A i \in deleted : stream'[i] = stream[i]
    BY <1>4, <2>1, AppendedIsUnread DEF NackXAddRetry, TypeOK, Ids
  <2> QED
    BY <1>4, <2>2 DEF NackXAddRetry, TaskOf
<1>5. CASE UNCHANGED <<stream, deleted, cancelled>>
  BY <1>5 DEF TaskOf
<1>6. ASSUME NEW p \in Pods, NEW i \in Ids, ClaimStale(p, i) \/ ReadNew(p, i)
      PROVE  UNCHANGED <<stream, deleted, cancelled>>
  BY <1>6 DEF ClaimStale, ReadNew
<1>7. ASSUME NEW w \in Workers, Work(w), ~NackXAddRetry(w)
      PROVE  UNCHANGED <<stream, deleted, cancelled>>
  BY <1>7 DEF Work, StartTask, RunTask, AckXAck, AckHSet, NackXAck, NackHGet,
              NackXAddDead, NackHSet, redis
<1>8. ASSUME Fault PROVE UNCHANGED <<stream, deleted, cancelled>>
  BY <1>8 DEF Fault, RedisError, PodCrash, redis
<1>9. ASSUME NEW i \in Ids, BecomesIdle(i)
      PROVE  UNCHANGED <<stream, deleted, cancelled>>
  BY <1>9 DEF BecomesIdle
<1>10. CASE UNCHANGED vars
  BY <1>5, <1>10 DEF vars, redis
<1> QED
  BY <1>1, <1>2, <1>3, <1>4, <1>5, <1>6, <1>7, <1>8, <1>9, <1>10
     DEF Next, Controller, Poll

LEMMA LostStep ==
  ASSUME ~LoseWrites, LostInv, [Next]_vars PROVE NoTaskLost'
<1> USE DEF LostInv
<1>1. ASSUME NEW t \in Tasks, Submit(t) PROVE NoTaskLost'
  <2>1. [task |-> t, attempt |-> 0] \in Entry
    BY DEF Entry
  <2>2. UNCHANGED <<lastDelivered, deleted, pel, results, cancelled, job>>
    BY <1>1 DEF Submit, agents
  <2> QED
    BY <1>1, <2>1, <2>2, CoveredAppend DEF Submit
<1>2. ASSUME NEW t \in Tasks, CancelXDel(t) PROVE NoTaskLost'
  <2>1. UNCHANGED <<stream, lastDelivered, pel, results, job>>
    BY <1>2 DEF CancelXDel, agents
  <2>2. \A u \in Tasks : cancelled[u] # "no" => cancelled'[u] # "no"
    BY <1>2 DEF CancelXDel, TypeOK
  <2>3. ASSUME NEW i \in Ids, Recoverable(i)
        PROVE  Recoverable(i)' \/ cancelled'[TaskOf(i)] # "no"
    BY <1>2, <2>1, <2>3
       DEF CancelXDel, FirstEntry, Recoverable, Unread, Ids, TypeOK
  <2> QED
    BY <2>1, <2>2, <2>3, CoveredStep
<1>3. ASSUME NEW t \in Tasks, CancelXAck(t) PROVE NoTaskLost'
  <2>1. UNCHANGED <<stream, lastDelivered, deleted, results, job>>
    BY <1>3 DEF CancelXAck, agents
  <2>2. \A u \in Tasks : cancelled[u] # "no" => cancelled'[u] # "no"
    BY <1>3 DEF CancelXAck, TypeOK
  <2>3. ASSUME NEW i \in Ids, Recoverable(i)
        PROVE  Recoverable(i)' \/ cancelled'[TaskOf(i)] # "no"
    BY <1>3, <2>1, <2>3
       DEF CancelXAck, FirstEntry, Recoverable, Unread, Ids, TypeOK
  <2> QED
    BY <2>1, <2>2, <2>3, CoveredStep
<1>4. ASSUME NEW t \in Tasks, CancelHSet(t) PROVE NoTaskLost'
  <2>1. UNCHANGED <<stream, lastDelivered, deleted, pel, job>>
    BY <1>4 DEF CancelHSet, agents
  <2>2. /\ \A u \in Tasks : cancelled[u] # "no" => cancelled'[u] # "no"
        /\ \A u \in Tasks : results[u] # "none" => results'[u] # "none"
    BY <1>4 DEF CancelHSet, TypeOK
  <2>3. \A i \in Ids : Recoverable(i) => Recoverable(i)'
    BY <2>1 DEF Recoverable, Unread, Ids
  <2> QED
    BY <2>1, <2>2, <2>3, CoveredStep
<1>5. ASSUME NEW p \in Pods, NEW j \in Ids, ClaimStale(p, j) PROVE NoTaskLost'
  <2>1. UNCHANGED <<stream, lastDelivered, deleted, results, cancelled, job>>
    BY <1>5 DEF ClaimStale
  <2>2. pel' = pel \/ (j \in deleted /\ pel' = pel \ {j})
    BY <1>5 DEF ClaimStale
  <2>3. ASSUME NEW i \in Ids, Recoverable(i)
        PROVE  Recoverable(i)' \/ cancelled'[TaskOf(i)] # "no"
    BY <2>1, <2>2, <2>3 DEF DeletedIsCancelled, Recoverable, Unread, Ids
  <2> QED
    BY <2>1, <2>3, CoveredStep
<1>6. ASSUME NEW p \in Pods, NEW j \in Ids, ReadNew(p, j) PROVE NoTaskLost'
  <2>1. UNCHANGED <<stream, deleted, results, cancelled, job>>
    BY <1>6 DEF ReadNew
  <2>2. ASSUME NEW i \in Ids, Recoverable(i) PROVE Recoverable(i)'
    BY <1>6, <2>1, <2>2 DEF ReadNew, Recoverable, Unread, Ids, TypeOK
  <2> QED
    BY <2>1, <2>2, CoveredStep
<1>7. ASSUME NEW w \in Workers,
             StartTask(w) \/ (\E o \in Outcome : RunTask(w, o)) \/ NackXAddDead(w)
      PROVE  NoTaskLost'
  <2>1. UNCHANGED <<stream, lastDelivered, deleted, pel, results, cancelled>>
    BY <1>7 DEF StartTask, RunTask, NackXAddDead, redis
  <2>2. \A v \in Workers : job[v].pc \in Writing =>
          job'[v].pc \in Writing /\ job'[v].id = job[v].id
    <3>1. CASE StartTask(w)
      BY <3>1 DEF StartTask, Writing, TypeOK
    <3>2. ASSUME NEW o \in Outcome, RunTask(w, o)
          PROVE  \A v \in Workers : job[v].pc \in Writing => job'[v] = job[v]
      BY <3>2 DEF RunTask, Writing, TypeOK
    <3>3. CASE NackXAddDead(w)
      BY <3>3 DEF NackXAddDead, Goto, Writing, TypeOK
    <3> QED
      BY <1>7, <3>1, <3>2, <3>3
  <2>3. ASSUME NEW i \in Ids, Recoverable(i) PROVE Recoverable(i)'
    BY <2>1, <2>2, <2>3 DEF Recoverable, Unread, Ids
  <2> QED
    BY <2>1, <2>3, CoveredStep
<1>8. ASSUME NEW w \in Workers, AckXAck(w) \/ NackXAck(w) PROVE NoTaskLost'
  <2>1. UNCHANGED <<stream, lastDelivered, deleted, results, cancelled>>
    BY <1>8 DEF AckXAck, NackXAck
  <2>2. /\ pel' = pel \ {job[w].id}
        /\ job'[w].pc \in Writing /\ job'[w].id = job[w].id
        /\ \A v \in Workers : v # w => job'[v] = job[v]
    BY <1>8 DEF AckXAck, NackXAck, XAck, Goto, Writing, TypeOK
  <2>3. ASSUME NEW i \in Ids, Recoverable(i) PROVE Recoverable(i)'
    BY <2>1, <2>2, <2>3 DEF Recoverable, Unread, Ids
  <2> QED
    BY <2>1, <2>3, CoveredStep
<1>9. ASSUME NEW w \in Workers, AckHSet(w) \/ NackHSet(w) PROVE NoTaskLost'
  <2>1. UNCHANGED <<stream, lastDelivered, deleted, pel, cancelled>>
    BY <1>9 DEF AckHSet, NackHSet
  <2>2. TaskOf(job[w].id) \in Tasks
    BY <1>9, JobEntry DEF AckHSet, NackHSet
  <2>3. /\ results'[TaskOf(job[w].id)] # "none"
        /\ \A u \in Tasks : results[u] # "none" => results'[u] # "none"
    BY <1>9, <2>2 DEF AckHSet, NackHSet, TypeOK
  <2>4. \A v \in Workers : v # w => job'[v] = job[v]
    BY <1>9 DEF AckHSet, NackHSet, Done, TypeOK
  <2>5. ASSUME NEW i \in Ids, Recoverable(i)
        PROVE  Recoverable(i)' \/ results'[TaskOf(i)] # "none"
    BY <2>1, <2>3, <2>4, <2>5 DEF Recoverable, Unread, Ids
  <2> QED
    BY <2>1, <2>3, <2>5, CoveredStep
<1>10. ASSUME NEW w \in Workers, NackHGet(w) PROVE NoTaskLost'
  <2>1. UNCHANGED <<stream, lastDelivered, deleted, pel, results, cancelled>>
    BY <1>10 DEF NackHGet, redis
  <2>2. /\ \/ results[TaskOf(job[w].id)] # "none"
           \/ job'[w].pc \in Writing /\ job'[w].id = job[w].id
        /\ \A v \in Workers : v # w => job'[v] = job[v]
    BY <1>10 DEF NackHGet, Goto, Done, Writing, TypeOK
  <2>3. ASSUME NEW i \in Ids, Recoverable(i)
        PROVE  Recoverable(i)' \/ results'[TaskOf(i)] # "none"
    BY <2>1, <2>2, <2>3 DEF Recoverable, Unread, Ids
  <2> QED
    BY <2>1, <2>3, CoveredStep
<1>11. ASSUME NEW w \in Workers, NackXAddRetry(w) PROVE NoTaskLost'
  <2> DEFINE e == [task |-> TaskOf(job[w].id),
                   attempt |-> AttemptOf(job[w].id) + 1]
  <2>1. e \in Entry
    BY <1>11, JobEntry DEF NackXAddRetry, Entry
  <2>2. UNCHANGED <<lastDelivered, deleted, pel, results, cancelled>>
    BY <1>11 DEF NackXAddRetry
  <2>3. \A v \in Workers : job'[v] # job[v] => v = w
    BY <1>11 DEF NackXAddRetry, Done, TypeOK
  <2>4. \A v \in Workers : job[v].pc # "free" /\ job'[v] # job[v]
                              => TaskOf(job[v].id) = e.task
    BY <2>3
  <2> QED
    BY <1>11, <2>1, <2>2, <2>4, CoveredAppend DEF NackXAddRetry
<1>12. ASSUME Fault PROVE NoTaskLost'
  <2>1. UNCHANGED <<stream, lastDelivered, deleted, pel, results, cancelled>>
    BY <1>12 DEF Fault, RedisError, PodCrash, redis
  <2>2. \A v \in Workers : job[v].pc \in Writing => job'[v] = job[v]
    BY <1>12 DEF Fault, RedisError, PodCrash, Done, TypeOK
  <2>3. ASSUME NEW i \in Ids, Recoverable(i) PROVE Recoverable(i)'
    BY <2>1, <2>2, <2>3 DEF Recoverable, Unread, Ids
  <2> QED
    BY <2>1, <2>3, CoveredStep
<1>13. CASE (\E i \in Ids : BecomesIdle(i)) \/ UNCHANGED vars
  <2>1. UNCHANGED <<stream, lastDelivered, deleted, pel, results, cancelled, job>>
    BY <1>13 DEF BecomesIdle, agents, vars, redis
  <2>2. ASSUME NEW i \in Ids, Recoverable(i) PROVE Recoverable(i)'
    BY <2>1, <2>2 DEF Recoverable, Unread, Ids
  <2> QED
    BY <2>1, <2>2, CoveredStep
<1> QED
  BY <1>1, <1>2, <1>3, <1>4, <1>5, <1>6, <1>7, <1>8, <1>9, <1>10, <1>11,
     <1>12, <1>13 DEF Next, Controller, Poll, Work

\* A submitted task is never lost: as long as no fault falls between the
\* commands of an Ack or a Nack, the task has a result, is being cancelled or
\* has an attempt that Poll or claimStale will hand out, for any number of
\* tasks, pods, slots, retries, crashes and reclaimed entries.
THEOREM NeverLost ==
  ASSUME ~LoseWrites PROVE Spec => []NoTaskLost
<1>1. Init => LostInv
  <2>1. Init => TypeOK
    BY TypeInit
  <2>2. Init => DeletedIsCancelled /\ NoTaskLost
    BY DEF Init, DeletedIsCancelled, NoTaskLost, Submitted, Ids
  <2> QED
    BY <2>1, <2>2 DEF LostInv
<1>2. LostInv /\ [Next]_vars => LostInv'
  BY TypeStep, DeletedStep, LostStep DEF LostInv
<1>3. LostInv => NoTaskLost
  BY DEF LostInv
<1> QED
  BY <1>1, <1>2, <1>3, PTL DEF Spec

-----------------------------------------------------------------------------
(* Failures are dead-lettered; this needs no assumption on steals.         *)

LEMMA StreamStep ==
  ASSUME TypeOK, [Next]_vars
  PROVE  /\ \/ UNCHANGED stream
            \/ \E t \in Tasks : Submit(t)
            \/ \E w \in Workers : NackXAddRetry(w)
         /\ \A i \in Ids : i \in Ids' /\ stream'[i] = stream[i]
<1>1. CASE UNCHANGED stream
  BY <1>1 DEF Ids
<1>2. ASSUME NEW t \in Tasks, Submit(t)
      PROVE  \A i \in Ids : i \in Ids' /\ stream'[i] = stream[i]
  <2>1. [task |-> t, attempt |-> 0] \in Entry
    BY DEF Entry
  <2> QED
    BY <1>2, <2>1, AppendedIsUnread DEF Submit, Ids
<1>3. ASSUME NEW w \in Workers, NackXAddRetry(w)
      PROVE  \A i \in Ids : i \in Ids' /\ stream'[i] = stream[i]
  <2> DEFINE e == [task |-> TaskOf(job[w].id),
                   attempt |-> AttemptOf(job[w].id) + 1]
  <2>1. e \in Entry
    BY <1>3, JobEntry DEF NackXAddRetry, Entry
  <2> QED
    BY <1>3, <2>1, AppendedIsUnread DEF NackXAddRetry, Ids
<1>4. \/ UNCHANGED stream
      \/ \E t \in Tasks : Submit(t)
      \/ \E w \in Workers : NackXAddRetry(w)
  BY DEF Next, Controller, CancelXDel, CancelXAck, CancelHSet, Poll, ClaimStale,
         ReadNew, Work, StartTask, RunTask, AckXAck, AckHSet, NackXAck, NackHGet,
         NackXAddDead, NackHSet, Fault, RedisError, PodCrash, BecomesIdle,
         vars, redis
<1> QED
  BY <1>1, <1>2, <1>3, <1>4

\* Who writes a result, and what.
LEMMA ResultsStep ==
  ASSUME TypeOK, [Next]_vars
  PROVE  \/ UNCHANGED results
         \/ \E t \in Tasks : /\ CancelHSet(t)
                              /\ results' = [results EXCEPT ![t] = "cancelled"]
         \/ \E w \in Workers : AckHSet(w) \/ NackHSet(w)
  BY DEF Next, Controller, Submit, CancelXDel, CancelXAck, CancelHSet, Poll,
         ClaimStale, ReadNew, Work, StartTask, RunTask, AckXAck, NackXAck,
         NackHGet, NackXAddRetry, NackXAddDead, Fault, RedisError, PodCrash,
         BecomesIdle, vars, redis

DeadInv ==
  /\ TypeOK
  /\ \A w \in Workers : job[w].pc = "deadSet" => job[w].id \in dead
  /\ FailedIsDeadLettered

\* Only NackXAddDead leads to the HSET of an error.
LEMMA DeadSetStep ==
  ASSUME TypeOK, [Next]_vars,
         \A w \in Workers : job[w].pc = "deadSet" => job[w].id \in dead
  PROVE  /\ dead \subseteq dead'
         /\ \A w \in Workers : job'[w].pc = "deadSet" => job'[w].id \in dead'
<1> DEFINE Goal ==
      /\ dead \subseteq dead'
      /\ \A w \in Workers : job'[w].pc = "deadSet" => job'[w].id \in dead'
<1>1. ASSUME NEW v \in Workers, NackXAddDead(v) PROVE Goal
  BY <1>1 DEF NackXAddDead, Goto, TypeOK
<1>2. ASSUME UNCHANGED dead,
             \A w \in Workers : job'[w].pc = "deadSet" => job'[w] = job[w]
      PROVE  Goal
  BY <1>2
<1>3. ASSUME NEW v \in Workers, StartTask(v) PROVE Goal
  BY <1>3 DEF StartTask, TypeOK, redis
<1>4. ASSUME NEW v \in Workers, NEW o \in Outcome, RunTask(v, o) PROVE Goal
  BY <1>4 DEF RunTask, Outcome, TypeOK, redis
<1>5. ASSUME NEW v \in Workers, AckXAck(v) \/ NackXAck(v) PROVE Goal
  BY <1>5 DEF AckXAck, NackXAck, Goto, TypeOK
<1>6. ASSUME NEW v \in Workers, NackHGet(v) PROVE Goal
  <2>1. UNCHANGED dead /\ (Done(v) \/ Goto(v, "nackAdd"))
    BY <1>6 DEF NackHGet, redis
  <2>2. \A w \in Workers : job'[w].pc = "deadSet" => job'[w] = job[w]
    BY <2>1 DEF Goto, Done, FreeJob, TypeOK
  <2> QED
    BY <1>2, <2>1, <2>2
<1>7. ASSUME NEW v \in Workers, Done(v), UNCHANGED dead PROVE Goal
  BY <1>7 DEF Done, FreeJob, TypeOK
<1>8. ASSUME NEW v \in Workers, Work(v) PROVE Goal
  BY <1>1, <1>3, <1>4, <1>5, <1>6, <1>7, <1>8
     DEF Work, AckHSet, NackXAddRetry, NackHSet
<1>9. ASSUME Fault PROVE Goal
  <2>1. ASSUME NEW p \in Pods, PodCrash(p) PROVE Goal
    BY <1>2, <2>1 DEF PodCrash, FreeJob, TypeOK, redis
  <2>2. ASSUME NEW v \in Workers, RedisError(v) PROVE Goal
    BY <1>7, <2>2 DEF RedisError, redis
  <2> QED
    BY <1>9, <2>1, <2>2 DEF Fault
<1>10. ASSUME NEW t \in Tasks, Controller(t) PROVE UNCHANGED <<dead, job>>
  BY <1>10 DEF Controller, Submit, CancelXDel, CancelXAck, CancelHSet, agents
<1>11. ASSUME NEW p \in Pods, Poll(p) PROVE UNCHANGED <<dead, job>>
  BY <1>11 DEF Poll, ClaimStale, ReadNew
<1>12. ASSUME (\E i \in Ids : BecomesIdle(i)) \/ UNCHANGED vars
       PROVE  UNCHANGED <<dead, job>>
  BY <1>12 DEF BecomesIdle, vars, redis, agents
<1> QED
  BY <1>2, <1>8, <1>9, <1>10, <1>11, <1>12 DEF Next

\* A task whose stored result is a failure has an entry in the dead-letter
\* stream, whatever crashes, is reclaimed or is retried.
THEOREM FailuresAreKept == Spec => []FailedIsDeadLettered
<1>1. Init => DeadInv
  <2> SUFFICES ASSUME Init PROVE DeadInv
    OBVIOUS
  <2>1. TypeOK
    BY TypeInit
  <2> QED
    BY <2>1 DEF DeadInv, Init, FreeJob, FailedIsDeadLettered
<1>2. DeadInv /\ [Next]_vars => DeadInv'
  <2> SUFFICES ASSUME DeadInv, [Next]_vars PROVE DeadInv'
    OBVIOUS
  <2>1. TypeOK /\ TypeOK'
    BY TypeStep DEF DeadInv
  <2>2. /\ dead \subseteq dead'
        /\ \A w \in Workers : job'[w].pc = "deadSet" => job'[w].id \in dead'
    BY <2>1, DeadSetStep DEF DeadInv
  <2>3. \A i \in dead : stream'[i] = stream[i]
    BY <2>1, StreamStep DEF TypeOK
  <2>4. ASSUME NEW t \in Tasks, results'[t] = "failed"
        PROVE  \E i \in dead : TaskOf(i) = t
    <3>1. CASE results[t] = "failed"
      BY <3>1 DEF DeadInv, FailedIsDeadLettered
    <3>2. ASSUME NEW u \in Tasks, results' = [results EXCEPT ![u] = "cancelled"]
          PROVE  results[t] = "failed"
      BY <2>1, <2>4, <3>2 DEF TypeOK
    <3>3. ASSUME NEW w \in Workers, AckHSet(w) PROVE results[t] = "failed"
      BY <2>1, <2>4, <3>3 DEF AckHSet, TypeOK
    <3>4. ASSUME NEW w \in Workers, NackHSet(w), results[t] # "failed"
          PROVE  \E i \in dead : TaskOf(i) = t
      BY <2>1, <2>4, <3>4 DEF NackHSet, DeadInv, TypeOK
    <3> QED
      BY <2>1, <2>4, <3>1, <3>2, <3>3, <3>4, ResultsStep
  <2>5. FailedIsDeadLettered'
    BY <2>2, <2>3, <2>4 DEF FailedIsDeadLettered, TaskOf
  <2> QED
    BY <2>1, <2>2, <2>5 DEF DeadInv
<1>3. DeadInv => FailedIsDeadLettered
  BY DEF DeadInv
<1> QED
  BY <1>1, <1>2, <1>3, PTL DEF Spec

(***************************************************************************)
(* What the queue guarantees when no pending entry is reclaimed while a    *)
(* live pod has it (MaxSteals = 0): one holder per entry, one attempt per  *)
(* task at a time, one answer, and with that the promise of TaskLedger.    *)
(***************************************************************************)

(* Who has an entry.  OneHolder needs to know that an idle entry, which    *)
(* claimStale may hand out, is in nobody's hands.                          *)

IdleIsAbandoned == \A i \in idle : ~InHand(i)

\* After its XACK an entry is not pending any more.
WritingIsAcked ==
  \A w \in Workers : job[w].pc \in Writing => job[w].id \notin pel

HoldInv == TypeOK /\ IdleIsAbandoned /\ OneHolder /\ WritingIsAcked

LEMMA HoldInit == Init => HoldInv
<1> SUFFICES ASSUME Init PROVE HoldInv
  OBVIOUS
<1>1. TypeOK
  BY TypeInit
<1>2. IdleIsAbandoned
  BY DEF Init, IdleIsAbandoned
<1>3. OneHolder /\ WritingIsAcked
  BY DEF Init, OneHolder, WritingIsAcked, FreeJob, Writing
<1> QED
  BY <1>1, <1>2, <1>3 DEF HoldInv

\* Steps that hand out no entry: nobody holds what it did not hold before.
LEMMA HoldShrinks ==
  ASSUME HoldInv,
         \A p \in Pods : held'[p] \in {held[p], NoEntry},
         \A w \in Workers : \/ job'[w].pc = "free"
                            \/ job[w].pc # "free" /\ job'[w].id = job[w].id,
         idle' \subseteq idle
  PROVE  IdleIsAbandoned' /\ OneHolder'
<1>1. \A i \in Nat \ {0} : InHand(i)' => InHand(i)
  BY DEF InHand, NoEntry
<1>2. IdleIsAbandoned'
  BY <1>1 DEF HoldInv, TypeOK, IdleIsAbandoned
<1>3. \A w \in Workers, p \in Pods : job'[w].pc # "free" => held'[p] # job'[w].id
  BY DEF HoldInv, OneHolder, TypeOK, NoEntry
<1>4. \A p, q \in Pods : held'[p] = held'[q] /\ held'[p] # NoEntry => p = q
  BY DEF HoldInv, OneHolder, NoEntry
<1>5. \A v, w \in Workers :
        job'[v].pc # "free" /\ job'[w].pc # "free" /\ job'[v].id = job'[w].id
          => v = w
  BY DEF HoldInv, OneHolder
<1> QED
  BY <1>2, <1>3, <1>4, <1>5 DEF OneHolder, NoEntry

\* A poll loop takes an entry that nobody has.
LEMMA HoldTaken ==
  ASSUME HoldInv, NEW p \in Pods, NEW i \in Nat \ {0}, ~InHand(i),
         held' = [held EXCEPT ![p] = i], UNCHANGED job,
         \A j \in idle' : j \in idle /\ j # i
  PROVE  IdleIsAbandoned' /\ OneHolder'
<1> USE DEF HoldInv, TypeOK
<1>1. \A q \in Pods : held'[q] = IF q = p THEN i ELSE held[q]
  OBVIOUS
<1>2. IdleIsAbandoned'
  BY <1>1 DEF IdleIsAbandoned, InHand
<1>3. OneHolder'
  BY <1>1 DEF OneHolder, InHand, NoEntry
<1> QED
  BY <1>2, <1>3

LEMMA HoldStep ==
  ASSUME MaxSteals = 0, HoldInv, [Next]_vars
  PROVE  IdleIsAbandoned' /\ OneHolder' /\ WritingIsAcked'
<1> USE DEF HoldInv
<1> DEFINE Goal == IdleIsAbandoned' /\ OneHolder' /\ WritingIsAcked'
<1>1. ASSUME NEW t \in Tasks, Controller(t) PROVE Goal
  <2>1. UNCHANGED <<held, job>> /\ idle' \subseteq idle /\ pel' \subseteq pel
    BY <1>1 DEF Controller, Submit, CancelXDel, CancelXAck, CancelHSet, agents
  <2>2. IdleIsAbandoned' /\ OneHolder'
    BY <2>1, HoldShrinks
  <2> QED
    BY <2>1, <2>2 DEF WritingIsAcked
<1>2. ASSUME NEW p \in Pods, NEW i \in Ids, ClaimStale(p, i) PROVE Goal
  <2>1. UNCHANGED job /\ pel' \subseteq pel /\ idle' = idle \ {i}
    BY <1>2 DEF ClaimStale
  <2>2. CASE i \in deleted
    <3>1. IdleIsAbandoned' /\ OneHolder'
      BY <1>2, <2>1, <2>2, HoldShrinks DEF ClaimStale
    <3> QED
      BY <2>1, <3>1 DEF WritingIsAcked
  <2>3. CASE i \notin deleted
    <3>1. ~InHand(i) /\ i \in Nat \ {0}
      BY <1>2 DEF ClaimStale, IdleIsAbandoned, Ids
    <3>2. IdleIsAbandoned' /\ OneHolder'
      BY <1>2, <2>1, <2>3, <3>1, HoldTaken DEF ClaimStale
    <3> QED
      BY <2>1, <3>2 DEF WritingIsAcked
  <2> QED
    BY <2>2, <2>3
<1>3. ASSUME NEW p \in Pods, NEW i \in Ids, ReadNew(p, i) PROVE Goal
  <2>1. i > lastDelivered /\ i \in Nat \ {0}
    BY <1>3 DEF ReadNew, Unread, Ids
  <2>2. ~InHand(i) /\ i \notin idle
    BY <2>1 DEF InHand, TypeOK
  <2>3. UNCHANGED <<idle, job>> /\ pel' = pel \cup {i}
    BY <1>3 DEF ReadNew
  <2>4. IdleIsAbandoned' /\ OneHolder'
    BY <1>3, <2>1, <2>2, <2>3, HoldTaken DEF ReadNew
  <2>5. WritingIsAcked'
    BY <2>1, <2>3 DEF WritingIsAcked, TypeOK
  <2> QED
    BY <2>4, <2>5
<1>4. ASSUME NEW w \in Workers, StartTask(w) PROVE Goal
  <2> DEFINE p == PodOf[w]
  <2>1. p \in Pods /\ held[p] # NoEntry /\ job[w].pc = "free"
    BY <1>4, ConstAssumption DEF StartTask
  <2>2. /\ \A q \in Pods : held'[q] = IF q = p THEN NoEntry ELSE held[q]
        /\ \A v \in Workers :
             job'[v] = IF v = w THEN [pc |-> "run", id |-> held[p]] ELSE job[v]
    BY <1>4, <2>1 DEF StartTask, TypeOK
  <2>3. UNCHANGED <<idle, pel>>
    BY <1>4 DEF StartTask, redis
  <2>4. IdleIsAbandoned'
    BY <2>1, <2>2, <2>3 DEF IdleIsAbandoned, InHand, NoEntry, TypeOK
  <2>5. OneHolder'
    <3>1. /\ \A q \in Pods : q # p => held[q] # held[p]
          /\ \A v \in Workers : job[v].pc # "free" => job[v].id # held[p]
      BY <2>1 DEF OneHolder
    <3>2. \A v \in Workers, q \in Pods :
            job'[v].pc # "free" => held'[q] # job'[v].id
      BY <2>1, <2>2, <3>1 DEF OneHolder, NoEntry, TypeOK
    <3>3. \A q, r \in Pods : held'[q] = held'[r] /\ held'[q] # NoEntry => q = r
      BY <2>2 DEF OneHolder
    <3>4. \A v, u \in Workers :
            job'[v].pc # "free" /\ job'[u].pc # "free" /\ job'[v].id = job'[u].id
              => v = u
      BY <2>2, <3>1 DEF OneHolder
    <3> QED
      BY <3>2, <3>3, <3>4 DEF OneHolder, NoEntry
  <2>6. WritingIsAcked'
    BY <2>2, <2>3 DEF WritingIsAcked, Writing
  <2> QED
    BY <2>4, <2>5, <2>6
<1>5. ASSUME NEW w \in Workers, Work(w), ~StartTask(w) PROVE Goal
  <2> DEFINE Keeps ==
        /\ UNCHANGED held /\ pel' \subseteq pel /\ idle' \subseteq idle
        /\ \A v \in Workers : v # w => job'[v] = job[v]
        /\ \/ job'[w].pc = "free"
           \/ job[w].pc # "free" /\ job'[w].id = job[w].id
        /\ job'[w].pc \in Writing => job[w].pc \in Writing \/ job[w].id \notin pel'
  <2>1. Keeps
    <3>1. ASSUME NEW o \in Outcome, RunTask(w, o) PROVE Keeps
      BY <3>1 DEF RunTask, Outcome, Writing, TypeOK, redis
    <3>2. CASE AckXAck(w) \/ NackXAck(w)
      BY <3>2 DEF AckXAck, NackXAck, XAck, Goto, TypeOK
    <3>3. CASE AckHSet(w) \/ NackHSet(w) \/ NackXAddRetry(w)
      BY <3>3 DEF AckHSet, NackHSet, NackXAddRetry, Done, FreeJob, TypeOK, Writing
    <3>4. CASE NackXAddDead(w)
      BY <3>4 DEF NackXAddDead, Goto, TypeOK, Writing
    <3>5. CASE NackHGet(w)
      BY <3>5 DEF NackHGet, Goto, Done, FreeJob, TypeOK, Writing, redis
    <3> QED
      BY <1>5, <3>1, <3>2, <3>3, <3>4, <3>5 DEF Work
  <2>2. IdleIsAbandoned' /\ OneHolder'
    BY <2>1, HoldShrinks
  <2>3. WritingIsAcked'
    BY <2>1 DEF WritingIsAcked, Writing
  <2> QED
    BY <2>2, <2>3
<1>6. ASSUME Fault PROVE Goal
  <2>1. /\ \A p \in Pods : held'[p] \in {held[p], NoEntry}
        /\ \A w \in Workers : job'[w].pc = "free" \/ job'[w] = job[w]
    BY <1>6 DEF Fault, RedisError, PodCrash, Done, FreeJob, TypeOK
  <2>2. UNCHANGED <<pel, idle>>
    BY <1>6 DEF Fault, RedisError, PodCrash, redis
  <2>3. IdleIsAbandoned' /\ OneHolder'
    BY <2>1, <2>2, HoldShrinks
  <2> QED
    BY <2>1, <2>2, <2>3 DEF WritingIsAcked, Writing
<1>7. ASSUME NEW i \in Ids, BecomesIdle(i) PROVE Goal
  <2>1. ~InHand(i) /\ UNCHANGED <<held, job, pel>> /\ idle' = idle \cup {i}
    BY <1>7 DEF BecomesIdle, agents, TypeOK
  <2>2. \A j \in idle' : ~InHand(j)'
    BY <2>1 DEF IdleIsAbandoned, InHand
  <2> QED
    BY <2>1, <2>2 DEF IdleIsAbandoned, OneHolder, WritingIsAcked
<1>8. CASE UNCHANGED vars
  BY <1>8 DEF vars, redis, agents, IdleIsAbandoned, InHand, OneHolder, WritingIsAcked
<1> QED
  BY <1>1, <1>2, <1>3, <1>4, <1>5, <1>6, <1>7, <1>8 DEF Next, Poll

\* claimStale gives nobody an entry that a live poll loop or slot has, for any
\* number of pods, slots, crashes and retries, as long as no live pod takes
\* claimIdleAfter over an entry.
THEOREM HeldOnce ==
  ASSUME MaxSteals = 0 PROVE Spec => []OneHolder
<1>1. HoldInv /\ [Next]_vars => HoldInv'
  BY TypeStep, HoldStep DEF HoldInv
<1>2. HoldInv => OneHolder
  BY DEF HoldInv
<1> QED
  BY HoldInit, <1>1, <1>2, PTL DEF Spec

-----------------------------------------------------------------------------
(* The attempts of a task.  A step makes no old entry outstanding again,   *)
(* and the last write of a slot leaves its entry behind for good.          *)

LEMMA OutstandingStep ==
  ASSUME HoldInv, [Next]_vars, NEW i \in Ids, Outstanding(i)'
  PROVE  Outstanding(i)
<1> USE DEF HoldInv
<1>1. ASSUME NEW t \in Tasks, Controller(t) PROVE Outstanding(i)
  <2>1. UNCHANGED <<held, job, lastDelivered>> /\ pel' \subseteq pel
    BY <1>1 DEF Controller, Submit, CancelXDel, CancelXAck, CancelHSet, agents
  <2>2. deleted \subseteq deleted'
    BY <1>1 DEF Controller, Submit, CancelXDel, CancelXAck, CancelHSet
  <2> QED
    BY <2>1, <2>2 DEF Outstanding, Unread, InHand
<1>2. ASSUME NEW p \in Pods, NEW j \in Ids, ClaimStale(p, j) PROVE Outstanding(i)
  <2>1. /\ UNCHANGED <<job, lastDelivered, deleted>> /\ pel' \subseteq pel
        /\ j \in pel
        /\ \A q \in Pods : held'[q] \in {held[q], j}
    BY <1>2 DEF ClaimStale, TypeOK
  <2> QED
    BY <2>1 DEF Outstanding, Unread, InHand
<1>3. ASSUME NEW p \in Pods, NEW j \in Ids, ReadNew(p, j) PROVE Outstanding(i)
  <2>1. /\ UNCHANGED <<job, deleted>> /\ pel' = pel \cup {j}
        /\ lastDelivered' = j /\ j > lastDelivered /\ j \in Unread
        /\ \A q \in Pods : held'[q] \in {held[q], j}
    BY <1>3 DEF ReadNew, Unread, TypeOK
  <2>2. i \in Unread' => i \in Unread
    BY <2>1 DEF Unread, Ids, TypeOK
  <2> QED
    BY <2>1, <2>2 DEF Outstanding, InHand
<1>4. ASSUME NEW w \in Workers, StartTask(w) PROVE Outstanding(i)
  <2>1. /\ PodOf[w] \in Pods
        /\ \A q \in Pods : held'[q] \in {held[q], NoEntry}
        /\ \A v \in Workers : v # w => job'[v] = job[v]
        /\ job'[w].id = held[PodOf[w]]
    BY <1>4, ConstAssumption DEF StartTask, TypeOK
  <2>2. UNCHANGED <<pel, lastDelivered, deleted>> /\ i # NoEntry
    BY <1>4 DEF StartTask, redis, Ids, NoEntry
  <2> QED
    BY <2>1, <2>2 DEF Outstanding, Unread, InHand
<1>5. ASSUME NEW w \in Workers, Work(w), ~StartTask(w) PROVE Outstanding(i)
  <2> DEFINE Keeps ==
        /\ UNCHANGED <<held, lastDelivered, deleted>> /\ pel' \subseteq pel
        /\ \A v \in Workers : v # w => job'[v] = job[v]
        /\ \/ job'[w].pc = "free"
           \/ job[w].pc # "free" /\ job'[w].id = job[w].id
  <2>1. Keeps
    <3>1. ASSUME NEW o \in Outcome, RunTask(w, o) PROVE Keeps
      BY <3>1 DEF RunTask, TypeOK, redis
    <3>2. CASE AckXAck(w) \/ NackXAck(w)
      BY <3>2 DEF AckXAck, NackXAck, XAck, Goto, TypeOK
    <3>3. CASE AckHSet(w) \/ NackHSet(w) \/ NackXAddRetry(w)
      BY <3>3 DEF AckHSet, NackHSet, NackXAddRetry, Done, FreeJob, TypeOK
    <3>4. CASE NackXAddDead(w)
      BY <3>4 DEF NackXAddDead, Goto, TypeOK
    <3>5. CASE NackHGet(w)
      BY <3>5 DEF NackHGet, Goto, Done, FreeJob, TypeOK, redis
    <3> QED
      BY <1>5, <3>1, <3>2, <3>3, <3>4, <3>5 DEF Work
  <2> QED
    BY <2>1 DEF Outstanding, Unread, InHand
<1>6. ASSUME Fault PROVE Outstanding(i)
  <2>1. /\ \A p \in Pods : held'[p] \in {held[p], NoEntry}
        /\ \A w \in Workers : job'[w].pc = "free" \/ job'[w] = job[w]
    BY <1>6 DEF Fault, RedisError, PodCrash, Done, FreeJob, TypeOK
  <2>2. UNCHANGED <<pel, lastDelivered, deleted>> /\ i # NoEntry
    BY <1>6 DEF Fault, RedisError, PodCrash, redis, Ids, NoEntry
  <2> QED
    BY <2>1, <2>2 DEF Outstanding, Unread, InHand
<1>7. CASE (\E j \in Ids : BecomesIdle(j)) \/ UNCHANGED vars
  <2>1. UNCHANGED <<pel, lastDelivered, deleted, held, job>>
    BY <1>7 DEF BecomesIdle, agents, vars, redis
  <2> QED
    BY <2>1 DEF Outstanding, Unread, InHand
<1> QED
  BY <1>1, <1>2, <1>3, <1>4, <1>5, <1>6, <1>7 DEF Next, Poll

LEMMA LastWrite ==
  ASSUME HoldInv, NEW w \in Workers, NEW k, job[w].id = k,
         job[w].pc \in Writing, Done(w),
         UNCHANGED <<lastDelivered, pel, held>>
  PROVE  Outstanding(k) /\ ~Outstanding(k)'
<1> USE DEF HoldInv
<1>1. job[w].pc # "free" /\ k \in 1 .. lastDelivered
  BY JobEntry DEF Writing
<1>2. Outstanding(k)
  BY <1>1 DEF Outstanding, InHand
<1>3. k \notin Unread' /\ k \notin pel'
  BY <1>1 DEF Unread, TypeOK, WritingIsAcked
<1>4. \A v \in Workers : job'[v].pc # "free" => v # w /\ job'[v] = job[v]
  BY DEF Done, FreeJob, TypeOK
<1>5. ~InHand(k)'
  BY <1>1, <1>4 DEF InHand, OneHolder
<1> QED
  BY <1>2, <1>3, <1>5 DEF Outstanding

\* A slot that queues a retry has attempts left.
RetryAllowed ==
  \A w \in Workers :
    job[w].pc \in {"nackCheck", "nackAdd"} => AttemptOf(job[w].id) < MaxRetries

\* Only a submitted task has a result or is being cancelled.
KnownIsSubmitted ==
  \A t \in Tasks : results[t] # "none" \/ cancelled[t] # "no" => Submitted(t)

PromptInv ==
  /\ HoldInv
  /\ RetryAllowed
  /\ KnownIsSubmitted
  /\ OneAttemptAtATime
  /\ AttemptsIncrease
  /\ AnswerIsLast

LEMMA PromptInit == Init => PromptInv
<1> SUFFICES ASSUME Init PROVE PromptInv
  OBVIOUS
<1>1. HoldInv
  BY HoldInit
<1>2. Ids = {}
  BY DEF Init, Ids
<1>3. RetryAllowed /\ KnownIsSubmitted
  BY DEF Init, RetryAllowed, KnownIsSubmitted, FreeJob
<1> QED
  BY <1>1, <1>2, <1>3
     DEF PromptInv, OneAttemptAtATime, AttemptsIncrease, AnswerIsLast

\* The two steps that add an entry, seen together.
LEMMA AppendStep ==
  ASSUME MaxSteals = 0, PromptInv, [Next]_vars,
         NEW e \in Entry, stream' = Append(stream, e), UNCHANGED results,
         e.attempt <= MaxRetries,
         results[e.task] \notin {"ok", "failed"},
         \A i \in Ids : TaskOf(i) = e.task =>
           AttemptOf(i) < e.attempt /\ ~Outstanding(i)'
  PROVE  OneAttemptAtATime' /\ AttemptsIncrease' /\ AnswerIsLast'
<1> DEFINE n == Len(stream) + 1
<1>1. /\ Len(stream) \in Nat /\ n \in Nat /\ Ids' = 1 .. n
      /\ \A i \in Ids : stream'[i] = stream[i]
      /\ stream'[n] = e
  BY AppendedIsUnread DEF PromptInv, HoldInv, Ids
<1>2. \A i \in Ids' : i \in Ids \/ i = n
  BY <1>1 DEF Ids
<1>3. \A i \in Ids : i \in Nat /\ i < n
  BY <1>1 DEF Ids
<1>4. \A i \in Ids : Outstanding(i)' => Outstanding(i)
  BY OutstandingStep DEF PromptInv
<1>5. OneAttemptAtATime'
  <2> SUFFICES ASSUME NEW i \in Ids', NEW j \in Ids', TaskOf(i)' = TaskOf(j)',
                      Outstanding(i)'
               PROVE  j <= i
    BY DEF OneAttemptAtATime
  <2>1. CASE i = n
    BY <1>1, <1>2, <1>3, <2>1
  <2>2. CASE i \in Ids /\ j \in Ids
    BY <1>1, <1>4, <2>2 DEF PromptInv, OneAttemptAtATime, TaskOf
  <2>3. CASE i \in Ids /\ j = n
    BY <1>1, <2>3 DEF TaskOf
  <2> QED
    BY <1>2, <2>1, <2>2, <2>3
<1>6. AttemptsIncrease'
  <2>1. \A i \in Ids' : AttemptOf(i)' <= MaxRetries
    BY <1>1, <1>2 DEF PromptInv, AttemptsIncrease, AttemptOf
  <2>2. ASSUME NEW i \in Ids', NEW j \in Ids', TaskOf(i)' = TaskOf(j)', i < j
        PROVE  AttemptOf(i)' < AttemptOf(j)'
    <3>1. i \in Ids
      BY <1>1, <1>2, <1>3, <2>2
    <3>2. CASE j = n
      BY <1>1, <2>2, <3>1, <3>2 DEF TaskOf, AttemptOf
    <3>3. CASE j \in Ids
      BY <1>1, <2>2, <3>1, <3>3 DEF PromptInv, AttemptsIncrease, TaskOf, AttemptOf
    <3> QED
      BY <1>2, <3>2, <3>3
  <2> QED
    BY <2>1, <2>2 DEF AttemptsIncrease
<1>7. AnswerIsLast'
  <2> SUFFICES ASSUME NEW i \in Ids', Outstanding(i)'
               PROVE  results'[TaskOf(i)'] \notin {"ok", "failed"}
    BY DEF AnswerIsLast
  <2>1. CASE i = n
    BY <1>1, <2>1 DEF TaskOf
  <2>2. CASE i \in Ids
    BY <1>1, <1>4, <2>2 DEF PromptInv, AnswerIsLast, TaskOf
  <2> QED
    BY <1>2, <2>1, <2>2
<1> QED
  BY <1>5, <1>6, <1>7

\* The steps that add no entry.
LEMMA SameStream ==
  ASSUME PromptInv, [Next]_vars, UNCHANGED stream,
         \A i \in Ids : results'[TaskOf(i)] # results[TaskOf(i)] =>
            results'[TaskOf(i)] = "cancelled" \/ ~Outstanding(i)'
  PROVE  OneAttemptAtATime' /\ AttemptsIncrease' /\ AnswerIsLast'
<1> USE DEF PromptInv
<1>1. Ids' = Ids
  BY DEF Ids
<1>2. \A i \in Ids : Outstanding(i)' => Outstanding(i)
  BY OutstandingStep
<1>3. OneAttemptAtATime'
  BY <1>1, <1>2 DEF OneAttemptAtATime, TaskOf
<1>4. AttemptsIncrease'
  BY <1>1 DEF AttemptsIncrease, TaskOf, AttemptOf
<1>5. AnswerIsLast'
  BY <1>1, <1>2 DEF AnswerIsLast, TaskOf
<1> QED
  BY <1>3, <1>4, <1>5

\* Once a slot has made its last write, no attempt of its task is left.
LEMMA NoneLeft ==
  ASSUME PromptInv, [Next]_vars, NEW w \in Workers, job[w].pc \in Writing,
         Done(w), UNCHANGED <<lastDelivered, pel, held>>,
         NEW i \in Ids, TaskOf(i) = TaskOf(job[w].id)
  PROVE  ~Outstanding(i)' /\ i <= job[w].id
<1> DEFINE k == job[w].id
<1> USE DEF PromptInv, HoldInv
<1>1. k \in Ids
  BY JobEntry DEF Writing
<1> HIDE DEF k
<1>2. Outstanding(k)
  <2>1. job[w].id = k
    BY DEF k
  <2> QED
    BY <2>1, LastWrite
<1>3. i <= k
  BY <1>1, <1>2 DEF OneAttemptAtATime, k
<1>4. ~Outstanding(i)'
  <2>1. CASE i = job[w].id
    BY <2>1, LastWrite
  <2>2. CASE i # job[w].id
    <3> SUFFICES ASSUME Outstanding(i) PROVE FALSE
      BY OutstandingStep
    <3>1. k <= i
      BY <1>1 DEF OneAttemptAtATime, k
    <3> QED
      BY <1>1, <1>3, <2>2, <3>1 DEF Ids, k
  <2> QED
    BY <2>1, <2>2
<1> QED
  BY <1>3, <1>4 DEF k

LEMMA RetryAllowedStep ==
  ASSUME TypeOK, RetryAllowed, [Next]_vars PROVE RetryAllowed'
<1> SUFFICES ASSUME NEW w \in Workers, job'[w].pc \in {"nackCheck", "nackAdd"}
             PROVE  AttemptOf(job[w].id)' < MaxRetries
  BY DEF RetryAllowed
<1>1. /\ job[w].pc # "free" /\ job'[w].id = job[w].id
      /\ AttemptOf(job[w].id) < MaxRetries
  <2> DEFINE Goal == /\ job[w].pc # "free" /\ job'[w].id = job[w].id
                     /\ AttemptOf(job[w].id) < MaxRetries
  <2>1. CASE job'[w] = job[w]
    BY <2>1 DEF RetryAllowed
  <2>2. ASSUME NEW v \in Workers, StartTask(v) PROVE job'[w] = job[w]
    BY <2>2 DEF StartTask, TypeOK
  <2>3. ASSUME NEW v \in Workers, NEW o \in Outcome, RunTask(v, o)
        PROVE  job'[w] = job[w]
    BY <2>3 DEF RunTask, Outcome, TypeOK
  <2>4. ASSUME NEW v \in Workers, AckXAck(v) \/ NackXAddDead(v)
        PROVE  job'[w] = job[w]
    BY <2>4 DEF AckXAck, NackXAddDead, Goto, TypeOK
  <2>5. ASSUME NEW v \in Workers, Done(v) PROVE job'[w] = job[w]
    BY <2>5 DEF Done, FreeJob, TypeOK
  <2>6. ASSUME NEW v \in Workers, NackXAck(v), job'[w] # job[w] PROVE Goal
    BY <2>6 DEF NackXAck, MayRetry, Goto, TypeOK
  <2>7. ASSUME NEW v \in Workers, NackHGet(v), job'[w] # job[w] PROVE Goal
    BY <2>5, <2>7 DEF NackHGet, Goto, RetryAllowed, TypeOK
  <2>8. ASSUME NEW p \in Pods, PodCrash(p) PROVE job'[w] = job[w]
    BY <2>8 DEF PodCrash, FreeJob, TypeOK
  <2>9. ASSUME NEW v \in Workers, Work(v), job'[w] # job[w] PROVE Goal
    BY <2>2, <2>3, <2>4, <2>5, <2>6, <2>7, <2>9
       DEF Work, AckHSet, NackXAddRetry, NackHSet
  <2>10. ASSUME Fault PROVE job'[w] = job[w]
    BY <2>5, <2>8, <2>10 DEF Fault, RedisError
  <2>11. ASSUME NEW t \in Tasks, Controller(t) PROVE job' = job
    BY <2>11 DEF Controller, Submit, CancelXDel, CancelXAck, CancelHSet, agents
  <2>12. ASSUME NEW p \in Pods, Poll(p) PROVE job' = job
    BY <2>12 DEF Poll, ClaimStale, ReadNew
  <2>13. ASSUME (\E i \in Ids : BecomesIdle(i)) \/ UNCHANGED vars PROVE job' = job
    BY <2>13 DEF BecomesIdle, vars, agents
  <2> QED
    BY <2>1, <2>9, <2>10, <2>11, <2>12, <2>13 DEF Next
<1>2. stream'[job[w].id] = stream[job[w].id]
  BY <1>1, JobEntry, StreamStep
<1> QED
  BY <1>1, <1>2 DEF AttemptOf

LEMMA KnownStep ==
  ASSUME TypeOK, KnownIsSubmitted, [Next]_vars PROVE KnownIsSubmitted'
<1>1. \A t \in Tasks : Submitted(t) => Submitted(t)'
  BY StreamStep DEF Submitted, TaskOf
<1>2. \A t \in Tasks : results'[t] # "none" => Submitted(t)
  <2>1. CASE UNCHANGED results
    BY <2>1 DEF KnownIsSubmitted
  <2>2. ASSUME NEW u \in Tasks, CancelHSet(u),
               results' = [results EXCEPT ![u] = "cancelled"]
        PROVE  \A t \in Tasks : results'[t] # "none" => Submitted(t)
    BY <2>2 DEF KnownIsSubmitted, CancelHSet, TypeOK
  <2>3. ASSUME NEW w \in Workers, AckHSet(w) \/ NackHSet(w)
        PROVE  \A t \in Tasks : results'[t] # "none" => Submitted(t)
    <3>1. /\ Submitted(TaskOf(job[w].id))
          /\ \A t \in Tasks : t # TaskOf(job[w].id) => results'[t] = results[t]
      BY <2>3, JobEntry DEF AckHSet, NackHSet, Submitted, TypeOK
    <3> QED
      BY <3>1 DEF KnownIsSubmitted
  <2> QED
    BY <2>1, <2>2, <2>3, ResultsStep
<1>3. \A t \in Tasks : cancelled'[t] # "no" => Submitted(t)
  <2>1. CASE UNCHANGED cancelled
    BY <2>1 DEF KnownIsSubmitted
  <2>2. ASSUME NEW u \in Tasks, CancelXDel(u) \/ CancelXAck(u) \/ CancelHSet(u)
        PROVE  /\ Submitted(u)
               /\ \A t \in Tasks : t # u => cancelled'[t] = cancelled[t]
    BY <2>2 DEF CancelXDel, CancelXAck, CancelHSet, KnownIsSubmitted, TypeOK
  <2>3. ASSUME NEW u \in Tasks, CancelXDel(u) \/ CancelXAck(u) \/ CancelHSet(u)
        PROVE  \A t \in Tasks : cancelled'[t] # "no" => Submitted(t)
    BY <2>2, <2>3 DEF KnownIsSubmitted
  <2>4. \/ UNCHANGED cancelled
        \/ \E u \in Tasks : CancelXDel(u) \/ CancelXAck(u) \/ CancelHSet(u)
    BY DEF Next, Controller, Submit, Poll, ClaimStale, ReadNew, Work, StartTask,
           RunTask, AckXAck, AckHSet, NackXAck, NackHGet, NackXAddRetry,
           NackXAddDead, NackHSet, Fault, RedisError, PodCrash, BecomesIdle, vars
  <2> QED
    BY <2>1, <2>3, <2>4
<1> QED
  BY <1>1, <1>2, <1>3 DEF KnownIsSubmitted

LEMMA PromptStep ==
  ASSUME MaxSteals = 0, PromptInv, [Next]_vars PROVE PromptInv'
<1> USE DEF PromptInv, HoldInv
<1>1. HoldInv'
  BY TypeStep, HoldStep
<1>2. RetryAllowed' /\ KnownIsSubmitted'
  BY RetryAllowedStep, KnownStep
<1> DEFINE Goal == OneAttemptAtATime' /\ AttemptsIncrease' /\ AnswerIsLast'
<1>3. ASSUME NEW t \in Tasks, Submit(t) PROVE Goal
  <2> DEFINE e == [task |-> t, attempt |-> 0]
  <2>1. e \in Entry /\ e.task = t /\ e.attempt <= MaxRetries
    BY ConstAssumption DEF Entry
  <2>2. stream' = Append(stream, e) /\ UNCHANGED results
    BY <1>3 DEF Submit
  <2>3. \A i \in Ids : TaskOf(i) # t
    BY <1>3 DEF Submit, Submitted
  <2>4. results[t] = "none"
    BY <1>3 DEF Submit, KnownIsSubmitted
  <2> HIDE DEF e
  <2> QED
    BY <2>1, <2>2, <2>3, <2>4, AppendStep
<1>4. ASSUME NEW w \in Workers, NackXAddRetry(w) PROVE Goal
  <2> DEFINE k == job[w].id
             e == [task |-> TaskOf(k), attempt |-> AttemptOf(k) + 1]
  <2>1. /\ job[w].pc = "nackAdd" /\ job[w].pc \in Writing /\ job[w].pc # "free"
        /\ Done(w) /\ UNCHANGED <<lastDelivered, pel, held, results>>
        /\ stream' = Append(stream, e)
    BY <1>4 DEF NackXAddRetry, Writing
  <2>2. k \in Ids /\ TaskOf(k) \in Tasks /\ AttemptOf(k) \in Nat
    BY <2>1, JobEntry
  <2>3. /\ e \in Entry /\ e.task = TaskOf(k) /\ e.attempt = AttemptOf(k) + 1
        /\ e.attempt <= MaxRetries
    BY <2>1, <2>2, ConstAssumption DEF Entry, RetryAllowed
  <2>4. \A i \in Ids : TaskOf(i) = TaskOf(k) => ~Outstanding(i)' /\ i <= k
    BY <2>1, NoneLeft
  <2>5. results[TaskOf(k)] \notin {"ok", "failed"}
    <3>1. Outstanding(k)
      BY <2>1 DEF Outstanding, InHand
    <3> QED
      BY <2>2, <3>1 DEF AnswerIsLast
  <2>6. ASSUME NEW i \in Ids, TaskOf(i) = TaskOf(k)
        PROVE  AttemptOf(i) < AttemptOf(k) + 1
    <3>1. AttemptOf(i) \in Nat
      BY EntryType
    <3>2. i = k \/ i < k
      BY <2>2, <2>4, <2>6 DEF Ids
    <3> QED
      BY <2>2, <2>6, <3>1, <3>2 DEF AttemptsIncrease
  <2> HIDE DEF e, k
  <2> QED
    BY <2>1, <2>3, <2>4, <2>5, <2>6, AppendStep
<1>5. ASSUME UNCHANGED stream PROVE Goal
  <2>1. \A i \in Ids : TaskOf(i) \in Tasks
    BY EntryType
  <2> DEFINE Only == \A i \in Ids :
               results'[TaskOf(i)] # results[TaskOf(i)] =>
                 results'[TaskOf(i)] = "cancelled" \/ ~Outstanding(i)'
  <2>2. Only
    <3>1. ASSUME NEW t \in Tasks, results' = [results EXCEPT ![t] = "cancelled"]
          PROVE  Only
      BY <2>1, <3>1 DEF TypeOK
    <3>2. ASSUME NEW w \in Workers, AckHSet(w) \/ NackHSet(w),
                 NEW i \in Ids, results'[TaskOf(i)] # results[TaskOf(i)]
          PROVE  ~Outstanding(i)'
      <4>1. /\ job[w].pc \in Writing /\ Done(w)
            /\ UNCHANGED <<lastDelivered, pel, held>>
        BY <3>2 DEF AckHSet, NackHSet, Writing
      <4>2. TaskOf(i) = TaskOf(job[w].id)
        BY <2>1, <3>2 DEF AckHSet, NackHSet, TypeOK
      <4> QED
        BY <4>1, <4>2, NoneLeft
    <3> QED
      BY <3>1, <3>2, ResultsStep
  <2> QED
    BY <1>5, <2>2, SameStream
<1>6. Goal
  BY <1>3, <1>4, <1>5, StreamStep
<1> QED
  BY <1>1, <1>2, <1>6

\* The attempts of a task come one after the other, numbered upwards to at most
\* MaxRetries, and its answer comes last, for any number of tasks, pods, slots,
\* crashes and failed commands (LoseWrites included), as long as no live pod
\* takes claimIdleAfter over an entry.
THEOREM OneAttemptOneAnswer ==
  ASSUME MaxSteals = 0
  PROVE  Spec => [](OneAttemptAtATime /\ AttemptsIncrease /\ AnswerIsLast)
<1>1. PromptInv => OneAttemptAtATime /\ AttemptsIncrease /\ AnswerIsLast
  BY DEF PromptInv
<1> QED
  BY PromptInit, PromptStep, <1>1, PTL DEF Spec

-----------------------------------------------------------------------------
(* The queue implements the ledger. *)

LEMMA LedgerInit == Init => Ledger!Init
<1> SUFFICES ASSUME Init PROVE Ledger!Init
  OBVIOUS
<1>1. \A t \in Tasks : results[t] = "none" /\ ~Submitted(t)
  <2>1. Ids = {}
    BY DEF Init, Ids
  <2> QED
    BY <2>1 DEF Init, Submitted
<1> QED
  BY <1>1 DEF Ledger!Init, LedgerOf

\* Every step of the queue is a step of the ledger or leaves it as it is.
LEMMA LedgerStep ==
  ASSUME PromptInv, [Next]_vars
  PROVE  [Ledger!Next]_LedgerOf
<1> USE DEF PromptInv, HoldInv
<1>1. ASSUME NEW t \in Tasks, Submit(t) PROVE Ledger!Submit(t)
  <2>1. /\ ~Submitted(t) /\ results[t] = "none" /\ UNCHANGED results
    BY <1>1 DEF Submit, KnownIsSubmitted
  <2>2. \A u \in Tasks : Submitted(u)' <=> Submitted(u) \/ u = t
    <3> DEFINE e == [task |-> t, attempt |-> 0]
    <3>1. e \in Entry /\ e.task = t /\ stream' = Append(stream, e)
      BY <1>1 DEF Submit, Entry
    <3> HIDE DEF e
    <3> QED
      BY <3>1, AppendedIsUnread DEF Submitted, Ids, TaskOf
  <2> QED
    BY <2>1, <2>2 DEF Ledger!Submit, LedgerOf
<1>2. ASSUME NEW t \in Tasks, CancelHSet(t),
             results' = [results EXCEPT ![t] = "cancelled"]
      PROVE  Ledger!Cancel({t})
  <2>1. Submitted(t) /\ UNCHANGED stream
    BY <1>2 DEF CancelHSet, KnownIsSubmitted
  <2>2. \A u \in Tasks : Submitted(u)' <=> Submitted(u)
    BY <2>1 DEF Submitted, Ids, TaskOf
  <2>3. LedgerOf[t] # "absent"
    BY <2>1 DEF LedgerOf, TypeOK
  <2> QED
    BY <1>2, <2>2, <2>3 DEF Ledger!Cancel, LedgerOf, TypeOK
<1>3. ASSUME NEW w \in Workers, AckHSet(w) \/ NackHSet(w)
      PROVE  \E t \in Tasks, a \in {"ok", "failed"} : Ledger!Settle(t, a)
  <2> DEFINE k == job[w].id
             t == TaskOf(k)
  <2>1. k \in Ids /\ t \in Tasks /\ job[w].pc # "free"
    BY <1>3, JobEntry DEF AckHSet, NackHSet
  <2>2. Outstanding(k) /\ Submitted(t)
    BY <2>1 DEF Outstanding, InHand, Submitted
  <2>3. results[t] \notin {"ok", "failed"}
    BY <2>1, <2>2 DEF AnswerIsLast
  <2>4. PICK a \in {"ok", "failed"} : results' = [results EXCEPT ![t] = a]
    BY <1>3 DEF AckHSet, NackHSet
  <2>5. \A u \in Tasks : Submitted(u)' <=> Submitted(u)
    BY <1>3 DEF AckHSet, NackHSet, Submitted, Ids, TaskOf
  <2> HIDE DEF k, t
  <2>6. LedgerOf[t] \in {"open", "cancelled"}
    BY <2>1, <2>2, <2>3 DEF LedgerOf, TypeOK
  <2>7. LedgerOf' = [LedgerOf EXCEPT ![t] = a]
    BY <2>1, <2>4, <2>5 DEF LedgerOf, TypeOK
  <2> QED
    BY <2>1, <2>6, <2>7 DEF Ledger!Settle
<1>4. ASSUME UNCHANGED results, ~\E t \in Tasks : Submit(t)
      PROVE  UNCHANGED LedgerOf
  <2>1. \A u \in Tasks : Submitted(u)' <=> Submitted(u)
    <3>1. CASE UNCHANGED stream
      BY <3>1 DEF Submitted, Ids, TaskOf
    <3>2. ASSUME NEW w \in Workers, NackXAddRetry(w)
          PROVE  \A u \in Tasks : Submitted(u)' <=> Submitted(u)
      <4> DEFINE e == [task |-> TaskOf(job[w].id),
                       attempt |-> AttemptOf(job[w].id) + 1]
      <4>1. /\ e \in Entry /\ stream' = Append(stream, e)
            /\ job[w].id \in Ids /\ TaskOf(job[w].id) = e.task
        BY <3>2, JobEntry DEF NackXAddRetry, Entry
      <4> HIDE DEF e
      <4>2. Submitted(e.task)
        BY <4>1 DEF Submitted
      <4> QED
        BY <4>1, <4>2, AppendedIsUnread DEF Submitted, Ids, TaskOf
    <3> QED
      BY <1>4, <3>1, <3>2, StreamStep
  <2> QED
    BY <1>4, <2>1 DEF LedgerOf
<1> QED
  BY <1>1, <1>2, <1>3, <1>4, ResultsStep DEF Ledger!Next, Ledger!Answer

\* While no delivery is reclaimed from a pod that still works on it, the attempts
\* Nack numbers and appends to the stream go up, never past maxRetries, and
\* the entry that stored an answer was the last one of its task.
THEOREM AttemptsComeInOrder ==
  ASSUME MaxSteals = 0 PROVE Spec => []AttemptsAreOrdered
<1>1. PromptInv => AttemptsAreOrdered
  BY DEF PromptInv, AttemptsAreOrdered
<1> QED
  BY PromptInit, PromptStep, <1>1, PTL DEF Spec

\* The Redis queue, with its pods, crashes, retries and cancellations, implements
\* the ledger the SwarmRun controller is modelled against: a task is submitted
\* once and answered at most once, and a result changes only when the task is
\* cancelled or an answer comes too late for a cancellation.
THEOREM ImplementsLedger ==
  ASSUME MaxSteals = 0 PROVE Spec => LedgerSpec
<1>1. PromptInv /\ [Next]_vars => [Ledger!Next]_LedgerOf
  BY LedgerStep
<1> QED
  BY LedgerInit, PromptInit, PromptStep, <1>1, PTL DEF Spec, LedgerSpec, Ledger!Spec
=============================================================================
