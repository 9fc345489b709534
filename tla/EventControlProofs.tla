------------------------- MODULE EventControlProofs -------------------------
(***************************************************************************)
(* Proofs about module EventControl, for any triggers, requests, schedule  *)
(* and number of faults: what a caller is told is true and the SSE slots   *)
(* are all accounted for (AnswersAreTrue), the policy Forbid is kept       *)
(* (ForbidIsKept), and neither repeated passes nor stale reads give a      *)
(* target more runs than were asked for (FiresStayBounded).                *)
(***************************************************************************)
EXTENDS EventControl, FiniteSetTheorems, TLAPS

-----------------------------------------------------------------------------
(* Types *)

Target == UNION {ToSet(t.targets) : t \in Triggers}
Name == Target \X Nat
TriggerSpec == [type : TriggerTypes, suspended : BOOLEAN, forbid : BOOLEAN, targets : Seq(Target)]
Time == Nat \cup {Nil}
EventStatus == [last : Time, count : Nat]
RunPhase == {Nil, "Running", "Succeeded", "Failed"}
StepPhase == {"Pending", "Running", "Succeeded", "Failed"}
RunState == [phase : RunPhase, step : StepPhase]
Code == {"suspended", "unauthorized", "refused", "error", "accepted", "one target", "no slot",
         "timeout", "cut off", "Succeeded", "Failed"}
Request ==
  [pc : {"new", "fire", "wait", "drain", "answered"}, mode : {Nil, "async", "sync", "sse"},
   read : EventStatus \cup {Nil}, todo : Seq(Target), made : Seq(Name), now : Time,
   deadline : Time, told : StepPhase \cup {Nil}, answer : Code \cup {Nil}]
PassInput == [status : EventStatus, now : Nat, fires : BOOLEAN, todo : Seq(Target)]
Upstream == [phase : {"Running", "Succeeded"}, done : Time, pruned : BOOLEAN]

\* A request that fires has read the trigger.
Prepared(q) == q.pc = "fire" => q.read \in EventStatus /\ q.now \in Nat

TypeOK ==
  /\ trigger \in TriggerSpec
  /\ status \in EventStatus /\ before \in EventStatus /\ token \in BOOLEAN
  /\ DOMAIN runs \subseteq Name /\ IsFiniteSet(DOMAIN runs)
  /\ \A n \in DOMAIN runs : runs[n] \in RunState
  /\ upstream \in Upstream /\ clock \in Nat
  /\ pc \in {"idle", "fire"} /\ (pc = "fire" => in \in PassInput)
  /\ queued \in BOOLEAN
  /\ req \in [Requests -> Request] /\ slots \in Int
  /\ \A r \in Requests : Prepared(req[r])
  /\ completions \in Nat /\ faults \in Nat

-----------------------------------------------------------------------------
(* Invariants *)

\* A request q, given the runs rs: what it made exists, it waits for one run,
\* and what it told or answers is what the run shows.
Truthful(q, rs) ==
  /\ \A i \in DOMAIN q.made : q.made[i] \in DOMAIN rs
  /\ q.pc # "answered" => q.answer = Nil
  /\ q.pc \in {"wait", "drain"} => Len(q.made) = 1 /\ q.mode \in {"sync", "sse"}
  /\ q.pc = "drain" =>
       q.mode = "sse" /\ rs[q.made[1]].phase = "Succeeded" /\ q.told = rs[q.made[1]].step
  /\ q.answer \in {"Succeeded", "Failed"} =>
       /\ Len(q.made) = 1 /\ rs[q.made[1]].phase = q.answer
       /\ q.mode = "sse" => q.told = rs[q.made[1]].step

OpenStreams == {r \in Requests : req[r].mode = "sse" /\ req[r].pc \in {"wait", "drain"}}

WebInv ==
  /\ \A r \in Requests : Truthful(req[r], runs)
  /\ slots + Cardinality(OpenStreams) = SseSlots

\* Where runs come from.
SourceInv ==
  /\ trigger.type = "webhook" => (pc = "fire" => ~in.fires)
  /\ trigger.type # "webhook" => \A r \in Requests : req[r].pc = "new"
  /\ pc = "fire" => in.now = clock /\ (in.todo # <<>> => in.fires)
  /\ \A n \in DOMAIN runs : n[2] <= clock

Underway(n) == ~Terminal(runs[n].phase)

ForbidInv ==
  trigger.forbid /\ trigger.type # "webhook" =>
    /\ \A n, m \in DOMAIN runs : Underway(n) /\ Underway(m) /\ n[1] = m[1] => n = m
    /\ pc = "fire" /\ in.todo # <<>> => \A n \in DOMAIN runs : Underway(n) => n[2] = clock

Distinct(s) == \A i, j \in DOMAIN s : s[i] = s[j] => i = j
DistinctTargets == \A t \in Triggers : Distinct(t.targets)

\* The targets of a pass or a request are those of the trigger it still has
\* to go through; a pass goes through them in one second and in order.
TodoInv ==
  /\ Distinct(trigger.targets)
  /\ pc = "fire" =>
       /\ Distinct(in.todo) /\ Len(in.todo) <= Len(trigger.targets)
       /\ ToSet(in.todo) \subseteq ToSet(trigger.targets)
  /\ \A r \in Requests : req[r].pc = "fire" => Distinct(req[r].todo)
  /\ trigger.type # "webhook" =>
       /\ \A n \in DOMAIN runs : n[2] = clock =>
            trigger.targets # <<>> /\ <<trigger.targets[1], clock>> \in DOMAIN runs
       /\ pc = "fire" /\ in.todo # <<>> /\ in.todo # trigger.targets =>
            /\ <<trigger.targets[1], clock>> \in DOMAIN runs
            /\ \A x \in ToSet(in.todo) : <<x, clock>> \notin DOMAIN runs

\* The causes that a status written at time l knows of, given the upstream team
\* and its completions so far.
OutputDue(up, l) == up.phase = "Succeeded" /\ ~(up.done # Nil /\ l # Nil /\ up.done <= l)

Settled(type, up, c, l) ==
  IF type = "cron" THEN Cardinality({t \in Due : l # Nil /\ t <= l})
  ELSE IF OutputDue(up, l) THEN c - 1 ELSE c

Known(l) == Settled(trigger.type, upstream, completions, l)

\* The current pass has a run of target x, or will not create one.
Counted(x) == IF pc = "fire" /\ in.fires /\ x \notin ToSet(in.todo) THEN 1 ELSE 0

\* A status accounts for the runs of a target up to the faults, one that a cache
\* still shows up to one more; and what a pass goes by accounts for them too, with
\* one to spare when it fires, as the pass will write the time it is.
Accounted(x) ==
  LET n == Cardinality(RunsFor(x))
  IN  /\ n <= Known(status.last) + faults + Counted(x)
      /\ n <= Known(before.last) + faults + 1 + Counted(x)
      /\ pc = "fire" => n <= Known(in.status.last) + faults + Counted(x)
      /\ pc = "fire" /\ in.fires => n + 1 <= Known(clock) + faults + Counted(x)

\* The requests that have a run of target x, or will not create one.
Served(x) == {r \in Requests : req[r].pc # "new" /\ ~(req[r].pc = "fire" /\ x \in ToSet(req[r].todo))}

\* Statuses and completions are of the past, and a pass goes by a status that
\* is or was stored.
CauseInv ==
  trigger.type # "webhook" =>
    /\ pc = "fire" => in.status \in {status, before}
    /\ \A s \in {status, before} : s.last # Nil => s.last <= clock
    /\ upstream.phase = "Succeeded" => completions > 0
    /\ upstream.done # Nil => upstream.done <= clock
    /\ upstream.phase = "Succeeded" /\ ~upstream.pruned => upstream.done # Nil

PassAccount ==
  trigger.type # "webhook" /\ ~upstream.pruned => \A x \in ToSet(trigger.targets) : Accounted(x)

WebAccount ==
  trigger.type = "webhook" =>
    \A x \in ToSet(trigger.targets) : Cardinality(RunsFor(x)) <= Cardinality(Served(x)) + faults

-----------------------------------------------------------------------------
(* Sequences and sets *)

LEMMA SeqWider ==
  ASSUME NEW A, NEW B, A \subseteq B, NEW s \in Seq(A)
  PROVE  s \in Seq(B)
OBVIOUS

LEMMA TailFacts ==
  ASSUME NEW T, NEW s \in Seq(T), s # <<>>
  PROVE  /\ Head(s) \in T /\ Head(s) \in ToSet(s) /\ Tail(s) \in Seq(T)
         /\ ToSet(s) = {Head(s)} \cup ToSet(Tail(s))
         /\ Len(Tail(s)) = Len(s) - 1 /\ Len(s) \in Nat \ {0}
         /\ Distinct(s) => Distinct(Tail(s)) /\ Head(s) \notin ToSet(Tail(s))
<1>1. /\ Head(s) = s[1] /\ Tail(s) \in Seq(T) /\ Len(Tail(s)) = Len(s) - 1
      /\ Len(s) \in Nat \ {0} /\ \A i \in 1 .. Len(s) - 1 : Tail(s)[i] = s[i + 1]
  OBVIOUS
<1>2. DOMAIN s = 1 .. Len(s) /\ DOMAIN Tail(s) = 1 .. Len(s) - 1
  BY <1>1
<1>3. Head(s) \in ToSet(s) /\ Head(s) \in T
  BY <1>1, <1>2 DEF ToSet
<1>4. ToSet(s) = {Head(s)} \cup ToSet(Tail(s))
  <2>1. ASSUME NEW x \in ToSet(s), x # Head(s) PROVE x \in ToSet(Tail(s))
    <3>1. PICK i \in 1 .. Len(s) : x = s[i]
      BY <1>2 DEF ToSet
    <3>2. i - 1 \in 1 .. Len(s) - 1 /\ Tail(s)[i - 1] = s[i]
      <4>1. i # 1
        BY <1>1, <2>1, <3>1
      <4>2. i - 1 \in 1 .. Len(s) - 1 /\ (i - 1) + 1 = i
        BY <1>1, <4>1
      <4>3. QED
        BY <1>1, <4>2
    <3>3. QED
      BY <1>2, <3>1, <3>2 DEF ToSet
  <2>2. ASSUME NEW x \in ToSet(Tail(s)) PROVE x \in ToSet(s)
    <3>1. PICK i \in 1 .. Len(s) - 1 : x = s[i + 1]
      BY <1>1, <1>2 DEF ToSet
    <3>2. i + 1 \in 1 .. Len(s)
      BY <1>1
    <3>3. QED
      BY <1>2, <3>1, <3>2 DEF ToSet
  <2>3. QED
    BY <1>3, <2>1, <2>2
<1>5. ASSUME Distinct(s) PROVE Distinct(Tail(s)) /\ Head(s) \notin ToSet(Tail(s))
  <2>1. \A i \in 1 .. Len(s) - 1 : i + 1 \in 1 .. Len(s) /\ i + 1 # 1
    BY <1>1
  <2>2. Head(s) \notin ToSet(Tail(s))
    BY <1>1, <1>2, <1>5, <2>1 DEF Distinct, ToSet
  <2>3. \A i, j \in 1 .. Len(s) - 1 : i + 1 = j + 1 => i = j
    BY <1>1
  <2>4. Distinct(Tail(s))
    BY <1>1, <1>2, <1>5, <2>1, <2>3 DEF Distinct
  <2>5. QED
    BY <2>2, <2>4
<1>6. QED
  BY <1>1, <1>3, <1>4, <1>5

LEMMA ConstFacts ==
  /\ Start \in Nat /\ Timeout \in Nat /\ SseSlots \in Nat /\ MaxFaults \in Nat
  /\ IsFiniteSet(Requests) /\ IsFiniteSet(Due) /\ Due \subseteq Nat /\ Nil \notin Nat
  /\ Nil \notin {"async", "sync", "sse", "Pending", "Running", "Succeeded", "Failed"}
  /\ Streaming \in BOOLEAN
  /\ \A r \in Requests : Modes(r) \subseteq {"async", "sync", "sse"}
  /\ \A t \in Triggers : t \in TriggerSpec
<1>1. ASSUME NEW t \in Triggers PROVE t \in TriggerSpec
  <2>1. t \in [type : TriggerTypes, suspended : BOOLEAN, forbid : BOOLEAN,
               targets : Seq(ToSet(t.targets))]
    BY EventAssumption
  <2>2. ToSet(t.targets) \subseteq Target
    BY DEF Target
  <2>3. t.targets \in Seq(Target)
    BY <2>1, <2>2, SeqWider
  <2>4. QED
    BY <2>1, <2>3 DEF TriggerSpec
<1>2. QED
  BY <1>1, EventAssumption

-----------------------------------------------------------------------------
(* The types hold *)

LEMMA NewRequestOK == NewRequest \in Request
BY DEF NewRequest, Request, Time

LEMMA TypesInit == Init => TypeOK
<1> SUFFICES ASSUME Init PROVE TypeOK
  OBVIOUS
<1>1. trigger \in TriggerSpec
  BY ConstFacts DEF Init
<1>2. status \in EventStatus /\ before \in EventStatus /\ token \in BOOLEAN
  BY DEF Init, EventStatus, Time
<1>3. DOMAIN runs = {}
  BY DEF Init
<1>4. IsFiniteSet(DOMAIN runs)
  BY <1>3, FS_EmptySet
<1>5. upstream \in Upstream
  BY DEF Init, Upstream, Time
<1>6. req \in [Requests -> Request] /\ \A r \in Requests : Prepared(req[r])
  BY NewRequestOK DEF Init, Prepared, NewRequest
<1>7. QED
  BY <1>1, <1>2, <1>3, <1>4, <1>5, <1>6, ConstFacts DEF Init, TypeOK

NewRunState == [phase |-> Nil, step |-> "Pending"]

LEMMA CreateFacts ==
  ASSUME TypeOK, NEW x \in Target, CreateRun(x)
  PROVE  /\ RunName(x) \in Name /\ RunName(x) \notin DOMAIN runs
         /\ DOMAIN runs' = DOMAIN runs \cup {RunName(x)}
         /\ runs'[RunName(x)] = NewRunState
         /\ \A n \in DOMAIN runs : runs'[n] = runs[n]
         /\ DOMAIN runs' \subseteq Name /\ IsFiniteSet(DOMAIN runs')
         /\ \A n \in DOMAIN runs' : runs'[n] \in RunState
<1>1. RunName(x) \in Name /\ RunName(x) \notin DOMAIN runs
  BY DEF TypeOK, CreateRun, RunName, Name
<1>2. /\ DOMAIN runs' = DOMAIN runs \cup {RunName(x)}
      /\ runs'[RunName(x)] = NewRunState
      /\ \A n \in DOMAIN runs : runs'[n] = runs[n]
  BY <1>1 DEF CreateRun, NewRunState
<1>3. DOMAIN runs' \subseteq Name /\ IsFiniteSet(DOMAIN runs')
  BY <1>1, <1>2, FS_AddElement DEF TypeOK
<1>4. NewRunState \in RunState
  BY DEF NewRunState, RunState, RunPhase, StepPhase
<1>5. QED
  BY <1>1, <1>2, <1>3, <1>4 DEF TypeOK

LEMMA OverFacts ==
  ASSUME TypeOK, NEW r \in Requests, NEW code \in Code
  PROVE  /\ Over(r, code) \in Request
         /\ Over(r, code).pc = "answered" /\ Over(r, code).mode = req[r].mode
         /\ Over(r, code).made = req[r].made /\ Over(r, code).told = req[r].told
         /\ Over(r, code).answer = code /\ Over(r, code).todo = <<>>
<1>1. req[r] \in Request
  BY DEF TypeOK
<1>2. QED
  BY <1>1, NewRequestOK DEF Over, NewRequest, Request

LEMMA FaultFacts ==
  ASSUME TypeOK, Fault
  PROVE  faults' \in Nat /\ faults' = faults + 1
BY DEF TypeOK, Fault

LEMMA TargetsOK ==
  ASSUME TypeOK
  PROVE  Targets \in Seq(Target) /\ trigger.targets \in Seq(Target)
BY DEF TypeOK, TriggerSpec, Targets

LEMMA GetTypes ==
  ASSUME TypeOK, NEW s \in EventStatus, Get(s), faults' \in Nat
  PROVE  TypeOK'
<1>1. CASE trigger.suspended
  BY <1>1 DEF Get, TypeOK, webVars, world
<1>2. CASE ~trigger.suspended
  <2> DEFINE f == CASE trigger.type = "cron" -> ShouldFireCron(s, clock)
                    [] trigger.type = "team-output" -> ShouldFireOutput(s)
                    [] OTHER -> FALSE
  <2>1. f \in BOOLEAN
    BY DEF ShouldFireCron, ShouldFireOutput
  <2> HIDE DEF f
  <2>2. /\ in' = [status |-> s, now |-> clock, fires |-> f, todo |-> IF f THEN Targets ELSE <<>>]
        /\ pc' = "fire" /\ token' = (token \/ trigger.type = "webhook")
    BY <1>2 DEF Get, f
  <2>3. in' \in PassInput
    BY <2>1, <2>2, TargetsOK DEF PassInput, TypeOK
  <2>4. QED
    BY <2>2, <2>3 DEF Get, TypeOK, webVars, world
<1>3. QED
  BY <1>1, <1>2

LEMMA PassFailsTypes ==
  ASSUME TypeOK, PassFails, faults' \in Nat
  PROVE  TypeOK'
BY DEF PassFails, TypeOK, storeVars, webVars, world

LEMMA FireTypes ==
  ASSUME TypeOK, FireTarget
  PROVE  TypeOK'
<1>1. CASE PassFails
  BY <1>1, PassFailsTypes DEF FireTarget, TypeOK
<1>2. CASE ~PassFails
  <2>1. /\ CreateRun(Head(in.todo)) /\ in' = [in EXCEPT !.todo = Tail(@)] /\ queued' = TRUE
        /\ UNCHANGED <<pc, wakeAt, storeVars, webVars, world, faults>>
        /\ pc = "fire" /\ in.todo # <<>>
    BY <1>2 DEF FireTarget
  <2>2. in \in PassInput /\ in.todo \in Seq(Target)
    BY <2>1 DEF TypeOK, PassInput
  <2>3. Head(in.todo) \in Target /\ Tail(in.todo) \in Seq(Target)
    BY <2>1, <2>2, TailFacts
  <2>4. in' \in PassInput
    BY <2>1, <2>2, <2>3 DEF PassInput
  <2>5. QED
    BY <2>1, <2>3, <2>4, CreateFacts DEF TypeOK, storeVars, webVars, world
<1>3. QED
  BY <1>1, <1>2

LEMMA StoredTypes ==
  ASSUME TypeOK, NEW s \in EventStatus, Stored(s)
  PROVE  status' \in EventStatus /\ before' \in EventStatus
BY DEF TypeOK, Stored

LEMMA FiredStatus ==
  ASSUME NEW s \in EventStatus, NEW now \in Nat
  PROVE  /\ [s EXCEPT !.last = now, !.count = @ + 1] \in EventStatus
         /\ [s EXCEPT !.last = now, !.count = @ + 1].last = now
         /\ [s EXCEPT !.last = now, !.count = @ + 1] # s
<1>1. s.count \in Nat /\ s.count + 1 \in Nat /\ s.count + 1 # s.count
  BY DEF EventStatus
<1>2. now \in Time
  BY DEF Time
<1>3. QED
  BY <1>1, <1>2 DEF EventStatus

LEMMA StatusAfterOK ==
  ASSUME TypeOK, pc = "fire"
  PROVE  StatusAfter \in EventStatus
<1>1. in.status \in EventStatus /\ in.now \in Nat
  BY DEF TypeOK, PassInput
<1>2. QED
  BY <1>1, FiredStatus DEF StatusAfter

LEMMA UpdateTypes ==
  ASSUME TypeOK, UpdateStatus
  PROVE  TypeOK'
<1>1. status' \in EventStatus /\ before' \in EventStatus
  BY StatusAfterOK, StoredTypes DEF UpdateStatus
<1>2. queued' \in BOOLEAN
  BY DEF UpdateStatus, TypeOK
<1>3. QED
  BY <1>1, <1>2 DEF UpdateStatus, TypeOK, webVars, world

\* The steps of the webhook server leave everything else alone.
Aside == UNCHANGED <<pc, in, token, trigger, upstream, clock, completions>>

LEMMA AnswerTypes ==
  ASSUME TypeOK, NEW r \in Requests, NEW code \in Code, Answer(r, code)
  PROVE  req' \in [Requests -> Request] /\ \A q \in Requests : Prepared(req'[q])
<1>1. req' = [req EXCEPT ![r] = Over(r, code)]
  BY DEF Answer
<1>2. Over(r, code) \in Request /\ Over(r, code).pc = "answered"
  BY OverFacts
<1>3. req' \in [Requests -> Request] /\ req'[r] = Over(r, code)
      /\ \A q \in Requests : q # r => req'[q] = req[q]
  BY <1>1, <1>2 DEF TypeOK
<1>4. QED
  BY <1>2, <1>3 DEF TypeOK, Prepared

LEMMA PostTypes ==
  ASSUME TypeOK, NEW r \in Requests, Post(r) \/ PostRefused(r) \/ PostFireFails(r)
  PROVE  TypeOK'
<1>1. req' \in [Requests -> Request] /\ \A q \in Requests : Prepared(req'[q])
  <2>1. CASE \E code \in Code : Answer(r, code)
    BY <2>1, AnswerTypes
  <2>2. CASE \E m \in Modes(r) :
               req' = [req EXCEPT ![r].pc = "fire", ![r].mode = m, ![r].read = status,
                                  ![r].todo = Targets, ![r].now = clock]
    <3>1. PICK m \in Modes(r) :
            req' = [req EXCEPT ![r].pc = "fire", ![r].mode = m, ![r].read = status,
                               ![r].todo = Targets, ![r].now = clock]
      BY <2>2
    <3>2. m \in {Nil, "async", "sync", "sse"}
      BY ConstFacts
    <3>3. req[r] \in Request /\ req \in [Requests -> Request] /\ status \in EventStatus /\ clock \in Time
      BY DEF TypeOK, Time
    <3>4. req' \in [Requests -> Request]
      BY <3>1, <3>2, <3>3, TargetsOK DEF Request
    <3>5. req'[r].read = status /\ req'[r].now = clock /\ clock \in Nat
      BY <3>1, <3>3 DEF TypeOK, Request
    <3>6. \A q \in Requests : q # r => req'[q] = req[q]
      BY <3>1, <3>3
    <3>7. QED
      BY <3>3, <3>4, <3>5, <3>6 DEF TypeOK, Prepared
  <2>3. QED
    BY <2>1, <2>2 DEF Post, PostRefused, PostFireFails, Code
<1>2. faults' \in Nat
  BY FaultFacts DEF Post, PostRefused, PostFireFails, TypeOK
<1>3. UNCHANGED <<passVars, storeVars, slots, world, runs>>
  BY DEF Post, PostRefused, PostFireFails
<1>4. QED
  BY <1>1, <1>2, <1>3 DEF TypeOK, passVars, storeVars, world

LEMMA PostFireTypes ==
  ASSUME TypeOK, NEW r \in Requests, PostFire(r)
  PROVE  TypeOK'
<1>0. /\ req[r].pc = "fire" /\ req[r].todo # <<>>
      /\ UNCHANGED <<pc, in, wakeAt, storeVars, slots, world, faults>>
  BY DEF PostFire
<1>1. CASE Answer(r, "error") /\ UNCHANGED <<runs, queued>>
  BY <1>0, <1>1, AnswerTypes DEF Code, TypeOK, storeVars, world
<1>2. CASE ~(Answer(r, "error") /\ UNCHANGED <<runs, queued>>)
  <2> DEFINE h == Head(req[r].todo)
  <2>1. /\ CreateRun(h) /\ queued' = TRUE
        /\ req' = [req EXCEPT ![r].todo = Tail(@), ![r].made = Append(@, RunName(h))]
    BY <1>2 DEF PostFire
  <2>2. req[r] \in Request /\ req[r].todo \in Seq(Target) /\ req[r].made \in Seq(Name)
    BY DEF TypeOK, Request
  <2>3. h \in Target /\ Tail(req[r].todo) \in Seq(Target)
    BY <1>0, <2>2, TailFacts
  <2> HIDE DEF h
  <2>4. RunName(h) \in Name
    BY <2>1, <2>3, CreateFacts
  <2>5. Append(req[r].made, RunName(h)) \in Seq(Name)
    BY <2>2, <2>4
  <2>6. req' \in [Requests -> Request] /\ \A q \in Requests : Prepared(req'[q])
    <3>1. req' \in [Requests -> Request]
      BY <2>1, <2>2, <2>3, <2>5 DEF TypeOK, Request
    <3>2. \A q \in Requests : /\ req'[q].pc = req[q].pc /\ req'[q].read = req[q].read
                               /\ req'[q].now = req[q].now
      BY <2>1, <2>2 DEF TypeOK, Request
    <3>3. QED
      BY <3>1, <3>2 DEF TypeOK, Prepared
  <2>7. QED
    BY <1>0, <2>1, <2>3, <2>6, CreateFacts DEF TypeOK, storeVars, world
<1>3. QED
  BY <1>1, <1>2

LEMMA PostStatusTypes ==
  ASSUME TypeOK, NEW r \in Requests, PostStatus(r)
  PROVE  TypeOK'
<1>1. req[r] \in Request /\ req[r].read \in EventStatus /\ req[r].now \in Nat
  BY DEF TypeOK, Prepared, PostStatus
<1>2. [req[r].read EXCEPT !.last = req[r].now, !.count = @ + 1] \in EventStatus
  BY <1>1, FiredStatus
<1>3. status' \in EventStatus /\ before' \in EventStatus /\ queued' \in BOOLEAN
  BY <1>2, StoredTypes DEF PostStatus, TypeOK
<1>4. req' \in [Requests -> Request] /\ slots' \in Int /\ \A q \in Requests : Prepared(req'[q])
  <2>1. CASE \E code \in Code : Answer(r, code) /\ UNCHANGED slots
    BY <2>1, AnswerTypes DEF TypeOK
  <2>2. CASE /\ req' = [req EXCEPT ![r].pc = "wait", ![r].deadline = clock + Timeout]
             /\ slots' = slots \/ slots' = slots - 1
    <3>1. clock + Timeout \in Time
      BY ConstFacts DEF TypeOK, Time
    <3>2. slots' \in Int
      BY <2>2 DEF TypeOK
    <3>3. req' \in [Requests -> Request]
      BY <1>1, <2>2, <3>1 DEF Request, TypeOK
    <3>4. /\ req'[r].pc = "wait"
          /\ \A q \in Requests : q # r => req'[q] = req[q]
      BY <1>1, <2>2 DEF TypeOK, Request
    <3>5. QED
      BY <3>2, <3>3, <3>4 DEF TypeOK, Prepared
  <2>3. QED
    BY <2>1, <2>2 DEF PostStatus, Proceeds, Code
<1>5. QED
  BY <1>3, <1>4 DEF PostStatus, TypeOK, world

LEMMA RunOfOK ==
  ASSUME TypeOK, NEW r \in Requests, req[r].made[1] \in DOMAIN runs
  PROVE  RunOf(r) \in RunState
BY DEF TypeOK, RunOf

\* The steps in which a request that waits is told something or ends.
Told(r) ==
  \/ /\ req' = [req EXCEPT ![r].told = RunOf(r).step] /\ UNCHANGED slots
     /\ req[r].pc = "wait"
  \/ /\ req' = [req EXCEPT ![r].told = RunOf(r).step, ![r].pc = "drain"] /\ UNCHANGED slots
     /\ req[r].pc = "wait" /\ req[r].mode = "sse" /\ RunOf(r).phase = "Succeeded"
  \/ /\ req' = [req EXCEPT ![r] = [Over(r, RunOf(r).phase) EXCEPT !.told = RunOf(r).step]]
     /\ slots' = slots + 1
     /\ req[r].pc = "wait" /\ req[r].mode = "sse" /\ Terminal(RunOf(r).phase)

EndsWith(r, code) ==
  /\ Ends(r, code)
  /\ \/ req[r].pc = "wait" /\ code \in {"timeout", "error"}
     \/ req[r].pc = "wait" /\ req[r].mode = "sync" /\ Terminal(code) /\ code = RunOf(r).phase
     \/ req[r].pc = "drain" /\ code = "Succeeded"

WaitStep(r) ==
  /\ Told(r) \/ \E code \in Code : EndsWith(r, code)
  /\ UNCHANGED <<passVars, storeVars, world, runs>>
  /\ faults' = faults \/ Fault

LEMMA WaitSteps ==
  ASSUME NEW r \in Requests, Observe(r) \/ DeadlinePasses(r) \/ WatchCloses(r)
  PROVE  WaitStep(r)
<1>1. CASE Observe(r)
  <2>1. CASE req[r].mode = "sync"
    <3>1. Terminal(RunOf(r).phase) /\ Ends(r, RunOf(r).phase) /\ req[r].pc = "wait"
      BY <1>1, <2>1 DEF Observe
    <3>2. RunOf(r).phase \in Code
      BY <3>1 DEF Code, Terminal
    <3>3. EndsWith(r, RunOf(r).phase)
      BY <2>1, <3>1 DEF EndsWith
    <3>4. QED
      BY <1>1, <3>2, <3>3 DEF WaitStep, Observe
  <2>2. CASE req[r].mode # "sync"
    <3>1. Told(r)
      BY <1>1, <2>2 DEF Observe, Told
    <3>2. QED
      BY <1>1, <3>1 DEF WaitStep, Observe
  <2>3. QED
    BY <2>1, <2>2
<1>2. CASE DeadlinePasses(r)
  <2>1. \E code \in Code : EndsWith(r, code)
    BY <1>2 DEF DeadlinePasses, EndsWith, Code
  <2>2. QED
    BY <1>2, <2>1 DEF WaitStep, DeadlinePasses
<1>3. CASE WatchCloses(r)
  <2>1. \E code \in Code : EndsWith(r, code)
    BY <1>3 DEF WatchCloses, EndsWith, Code
  <2>2. QED
    BY <1>3, <2>1 DEF WaitStep, WatchCloses
<1>4. QED
  BY <1>1, <1>2, <1>3

-----------------------------------------------------------------------------
(* What a step does to one request *)

Open(q) == q.mode = "sse" /\ q.pc \in {"wait", "drain"}
Taken(q) == IF Open(q) THEN 1 ELSE 0

\* Request r becomes q, and takes or gives back its slot.
Becomes(r, q) ==
  /\ req' = [req EXCEPT ![r] = q] /\ q \in Request
  /\ Truthful(q, runs')
  /\ slots' = slots + Taken(req[r]) - Taken(q)

\* Runs are never deleted, and one that has ended stays as it is.
Kept(rs, later) ==
  /\ DOMAIN rs \subseteq DOMAIN later
  /\ \A n \in DOMAIN rs : Terminal(rs[n].phase) => later[n] = rs[n]

LEMMA TruthfulKept ==
  ASSUME NEW q \in Request, NEW rs, NEW later, Kept(rs, later), Truthful(q, rs)
  PROVE  Truthful(q, later)
<1>1. q.made \in Seq(Name)
  BY DEF Request
<1>2. Len(q.made) = 1 => 1 \in DOMAIN q.made
  BY <1>1
<1>3. QED
  BY <1>2 DEF Truthful, Kept, Terminal

\* A request that is over with anything but the end of its run.
LEMMA OverIsTruthful ==
  ASSUME TypeOK, NEW r \in Requests, Truthful(req[r], runs), NEW code \in Code,
         code \notin {"Succeeded", "Failed"}
  PROVE  Truthful(Over(r, code), runs) /\ Taken(Over(r, code)) = 0
BY OverFacts DEF Truthful, Taken, Open

LEMMA AnswerBecomes ==
  ASSUME TypeOK, NEW r \in Requests, Truthful(req[r], runs), NEW code \in Code,
         code \notin {"Succeeded", "Failed"}, Answer(r, code), runs' = runs,
         slots' = slots + Taken(req[r])
  PROVE  Becomes(r, Over(r, code))
<1>1. Taken(req[r]) \in {0, 1} /\ slots \in Int
  BY DEF Taken, TypeOK
<1>2. slots' = slots + Taken(req[r]) - 0
  BY <1>1
<1>3. QED
  BY <1>2, OverFacts, OverIsTruthful DEF Becomes, Answer

LEMMA PostBecomes ==
  ASSUME TypeOK, NEW r \in Requests, Truthful(req[r], runs),
         Post(r) \/ PostRefused(r) \/ PostFireFails(r)
  PROVE  \E q : /\ Becomes(r, q) /\ q.pc # "new"
                /\ q.pc = "fire" => trigger.type = "webhook" /\ q.todo = Targets
<1>1. /\ runs' = runs /\ slots' = slots /\ req[r].pc \in {"new", "fire"}
      /\ Taken(req[r]) = 0 /\ slots \in Int
  BY DEF Post, PostRefused, PostFireFails, Taken, Open, TypeOK
<1>2. slots' = slots + Taken(req[r]) /\ slots' = slots + Taken(req[r]) - 0
  BY <1>1
<1>3. ASSUME NEW code \in Code, code \notin {"Succeeded", "Failed"}, Answer(r, code)
      PROVE  \E q : /\ Becomes(r, q) /\ q.pc # "new"
                    /\ q.pc = "fire" => trigger.type = "webhook" /\ q.todo = Targets
  <2>1. Becomes(r, Over(r, code)) /\ Over(r, code).pc = "answered"
    BY <1>1, <1>2, <1>3, AnswerBecomes, OverFacts
  <2>2. QED
    BY <2>1
<1>4. ASSUME NEW m \in Modes(r),
             req' = [req EXCEPT ![r].pc = "fire", ![r].mode = m, ![r].read = status,
                                ![r].todo = Targets, ![r].now = clock],
             trigger.type = "webhook", req[r].pc = "new"
      PROVE  \E q : /\ Becomes(r, q) /\ q.pc # "new"
                    /\ q.pc = "fire" => trigger.type = "webhook" /\ q.todo = Targets
  <2> DEFINE q == [req[r] EXCEPT !.pc = "fire", !.mode = m, !.read = status,
                                 !.todo = Targets, !.now = clock]
  <2>1. /\ req[r] \in Request /\ status \in EventStatus /\ clock \in Time
        /\ m \in {Nil, "async", "sync", "sse"} /\ Targets \in Seq(Target)
    BY ConstFacts, TargetsOK DEF TypeOK, Time
  <2>2. q \in Request
    BY <2>1 DEF Request
  <2>3. /\ q.pc = "fire" /\ q.made = req[r].made /\ q.answer = req[r].answer /\ q.todo = Targets
    BY <2>1 DEF Request
  <2>4. req' = [req EXCEPT ![r] = q]
    BY <1>4
  <2> HIDE DEF q
  <2>5. req[r].answer = Nil
    BY <1>4 DEF Truthful
  <2>6. Truthful(q, runs') /\ Taken(q) = 0
    BY <1>1, <2>3, <2>5, ConstFacts DEF Truthful, Taken, Open
  <2>7. Becomes(r, q)
    BY <1>2, <2>2, <2>4, <2>6 DEF Becomes
  <2>8. QED
    BY <1>4, <2>3, <2>7
<1>5. QED
  BY <1>3, <1>4 DEF Post, PostRefused, PostFireFails, Code

LEMMA PostFireBecomes ==
  ASSUME TypeOK, NEW r \in Requests, Truthful(req[r], runs), PostFire(r)
  PROVE  \/ /\ Becomes(r, Over(r, "error")) /\ runs' = runs
         \/ \E q : /\ Becomes(r, q) /\ q.pc = "fire" /\ q.todo = Tail(req[r].todo)
                   /\ CreateRun(Head(req[r].todo))
<1>0. /\ req[r].pc = "fire" /\ req[r].todo # <<>> /\ slots' = slots /\ slots \in Int
      /\ Taken(req[r]) = 0
  BY DEF PostFire, Taken, Open, TypeOK
<1>1. slots' = slots + Taken(req[r]) /\ slots' = slots + Taken(req[r]) - 0
  BY <1>0
<1>2. CASE Answer(r, "error") /\ UNCHANGED <<runs, queued>>
  BY <1>1, <1>2, AnswerBecomes DEF Code
<1>3. CASE ~(Answer(r, "error") /\ UNCHANGED <<runs, queued>>)
  <2> DEFINE h == Head(req[r].todo)
             q == [req[r] EXCEPT !.todo = Tail(req[r].todo), !.made = Append(req[r].made, RunName(h))]
  <2>1. /\ CreateRun(h)
        /\ req' = [req EXCEPT ![r].todo = Tail(@), ![r].made = Append(@, RunName(h))]
    BY <1>3 DEF PostFire
  <2>2. req[r] \in Request /\ req[r].todo \in Seq(Target) /\ req[r].made \in Seq(Name)
    BY DEF TypeOK, Request
  <2>3. h \in Target /\ Tail(req[r].todo) \in Seq(Target)
    BY <1>0, <2>2, TailFacts
  <2>4. req' = [req EXCEPT ![r] = q]
    BY <2>1
  <2> HIDE DEF h
  <2>5. RunName(h) \in Name /\ DOMAIN runs' = DOMAIN runs \cup {RunName(h)}
    BY <2>1, <2>3, CreateFacts
  <2>6. Append(req[r].made, RunName(h)) \in Seq(Name)
    BY <2>2, <2>5
  <2>7. /\ q \in Request /\ q.pc = "fire" /\ q.answer = req[r].answer /\ q.todo = Tail(req[r].todo)
        /\ q.made = Append(req[r].made, RunName(h))
    BY <1>0, <2>2, <2>3, <2>6 DEF Request
  <2> HIDE DEF q
  <2>8. \A i \in DOMAIN q.made : q.made[i] \in DOMAIN runs'
    <3>1. ASSUME NEW i \in DOMAIN q.made
          PROVE  q.made[i] = RunName(h) \/ (i \in DOMAIN req[r].made /\ q.made[i] = req[r].made[i])
      BY <2>2, <2>5, <2>7
    <3>2. QED
      BY <2>5, <3>1 DEF Truthful
  <2>9. Truthful(q, runs') /\ Taken(q) = 0
    <3>1. q.answer = Nil
      BY <1>0, <2>7 DEF Truthful
    <3>2. QED
      BY <2>7, <2>8, <3>1, ConstFacts DEF Truthful, Taken, Open
  <2>10. Becomes(r, q)
    BY <1>1, <2>4, <2>7, <2>9 DEF Becomes
  <2>11. QED
    BY <2>1, <2>7, <2>10 DEF h
<1>4. QED
  BY <1>2, <1>3

LEMMA PostStatusBecomes ==
  ASSUME TypeOK, NEW r \in Requests, Truthful(req[r], runs), PostStatus(r)
  PROVE  \E q : Becomes(r, q) /\ q.pc \in {"wait", "answered"}
<1>0. /\ req[r].pc = "fire" /\ req[r].answer = Nil /\ runs' = runs /\ slots \in Int
      /\ Taken(req[r]) = 0
  BY DEF PostStatus, Taken, Open, TypeOK, Truthful
<1>1. CASE \E code \in Code : /\ code \notin {"Succeeded", "Failed"}
                              /\ Answer(r, code) /\ UNCHANGED slots
  <2>1. PICK code \in Code : /\ code \notin {"Succeeded", "Failed"}
                             /\ Answer(r, code) /\ UNCHANGED slots
    BY <1>1
  <2>2. slots' = slots + Taken(req[r])
    BY <1>0, <2>1
  <2>3. Becomes(r, Over(r, code)) /\ Over(r, code).pc = "answered"
    BY <1>0, <2>1, <2>2, AnswerBecomes, OverFacts
  <2>4. QED
    BY <2>3
<1>2. CASE /\ req' = [req EXCEPT ![r].pc = "wait", ![r].deadline = clock + Timeout]
           /\ Len(req[r].made) = 1
           /\ \/ req[r].mode = "sync" /\ slots' = slots
              \/ req[r].mode = "sse" /\ slots' = slots - 1
  <2> DEFINE q == [req[r] EXCEPT !.pc = "wait", !.deadline = clock + Timeout]
  <2>1. clock + Timeout \in Time /\ req[r] \in Request
    BY ConstFacts DEF TypeOK, Time
  <2>2. /\ q \in Request /\ q.pc = "wait" /\ q.made = req[r].made /\ q.mode = req[r].mode
        /\ q.answer = req[r].answer
    BY <2>1 DEF Request
  <2>3. req' = [req EXCEPT ![r] = q]
    BY <1>2
  <2> HIDE DEF q
  <2>4. Truthful(q, runs')
    BY <1>0, <1>2, <2>2, ConstFacts DEF Truthful
  <2>5. slots' = slots + Taken(req[r]) - Taken(q)
    BY <1>0, <1>2, <2>2 DEF Taken, Open
  <2>6. QED
    BY <2>2, <2>3, <2>4, <2>5 DEF Becomes
<1>3. QED
  <2>1. Proceeds(r)
    BY DEF PostStatus
  <2>2. QED
    BY <1>1, <1>2, <2>1 DEF Proceeds, Code

LEMMA WaitBecomes ==
  ASSUME TypeOK, NEW r \in Requests, Truthful(req[r], runs), WaitStep(r)
  PROVE  /\ \E q : Becomes(r, q) /\ q.pc \in {"wait", "drain", "answered"}
         /\ req[r].pc \in {"wait", "drain"}
<1>0. /\ runs' = runs /\ slots \in Int /\ req[r] \in Request
      /\ req[r].pc \in {"wait", "drain"}
  BY DEF WaitStep, Told, EndsWith, TypeOK
<1>1. /\ Len(req[r].made) = 1 /\ req[r].made[1] \in DOMAIN runs
      /\ req[r].mode \in {"sync", "sse"}
      /\ req[r].answer = Nil
  <2>1. req[r].made \in Seq(Name)
    BY <1>0 DEF Request
  <2>2. Len(req[r].made) = 1 => 1 \in DOMAIN req[r].made
    BY <2>1
  <2>3. QED
    BY <1>0, <2>2 DEF Truthful
<1>2. RunOf(r) \in RunState /\ RunOf(r).step \in StepPhase
  BY <1>1, RunOfOK DEF RunState
<1>3. ASSUME NEW p \in {"wait", "drain"},
             req' = [req EXCEPT ![r].told = RunOf(r).step, ![r].pc = p], slots' = slots,
             p = "drain" => RunOf(r).phase = "Succeeded" /\ req[r].mode = "sse"
      PROVE  \E q : Becomes(r, q) /\ q.pc \in {"wait", "drain", "answered"}
  <2> DEFINE q == [req[r] EXCEPT !.told = RunOf(r).step, !.pc = p]
  <2>1. /\ q \in Request /\ q.pc = p /\ q.made = req[r].made /\ q.mode = req[r].mode
        /\ q.answer = req[r].answer /\ q.told = RunOf(r).step
    BY <1>0, <1>2 DEF Request
  <2>2. req' = [req EXCEPT ![r] = q]
    BY <1>3
  <2> HIDE DEF q
  <2>3. Truthful(q, runs')
    BY <1>0, <1>1, <1>3, <2>1, ConstFacts DEF Truthful, RunOf
  <2>4. Taken(q) = Taken(req[r]) /\ Taken(q) \in {0, 1}
    BY <1>0, <2>1 DEF Taken, Open
  <2>5. slots' = slots + Taken(req[r]) - Taken(q)
    BY <1>0, <1>3, <2>4
  <2>6. QED
    BY <2>1, <2>2, <2>3, <2>5 DEF Becomes
<1>4. CASE Told(r)
  <2>1. CASE req' = [req EXCEPT ![r].told = RunOf(r).step] /\ UNCHANGED slots /\ req[r].pc = "wait"
    <3>1. req' = [req EXCEPT ![r].told = RunOf(r).step, ![r].pc = "wait"]
      BY <1>0, <2>1 DEF TypeOK, Request
    <3>2. QED
      BY <1>0, <1>3, <2>1, <3>1
  <2>2. CASE /\ req' = [req EXCEPT ![r].told = RunOf(r).step, ![r].pc = "drain"] /\ UNCHANGED slots
             /\ req[r].pc = "wait" /\ req[r].mode = "sse" /\ RunOf(r).phase = "Succeeded"
    BY <1>0, <1>3, <2>2
  <2>3. CASE /\ req' = [req EXCEPT ![r] = [Over(r, RunOf(r).phase) EXCEPT !.told = RunOf(r).step]]
             /\ slots' = slots + 1
             /\ req[r].pc = "wait" /\ req[r].mode = "sse" /\ Terminal(RunOf(r).phase)
    <3> DEFINE code == RunOf(r).phase
               q == [Over(r, code) EXCEPT !.told = RunOf(r).step]
    <3>1. code \in Code /\ code \in {"Succeeded", "Failed"}
      BY <2>3 DEF Code, Terminal
    <3>2. /\ Over(r, code) \in Request /\ Over(r, code).pc = "answered"
          /\ Over(r, code).mode = req[r].mode
          /\ Over(r, code).made = req[r].made /\ Over(r, code).answer = code
      BY <3>1, OverFacts
    <3> HIDE DEF code
    <3>3. /\ q \in Request /\ q.pc = "answered" /\ q.made = req[r].made /\ q.mode = req[r].mode
          /\ q.answer = code /\ q.told = RunOf(r).step
      BY <1>2, <3>2 DEF Request
    <3>4. req' = [req EXCEPT ![r] = q]
      BY <2>3 DEF code
    <3> HIDE DEF q
    <3>5. Truthful(q, runs')
      <4>1. runs'[q.made[1]].phase = code /\ q.told = runs'[q.made[1]].step
        BY <1>0, <3>3 DEF RunOf, code
      <4>2. \A k \in DOMAIN q.made : q.made[k] \in DOMAIN runs'
        BY <1>0, <3>3 DEF Truthful
      <4>3. QED
        BY <1>1, <3>3, <4>1, <4>2 DEF Truthful
    <3>6. Taken(q) = 0 /\ Taken(req[r]) = 1
      BY <1>0, <2>3, <3>3 DEF Taken, Open
    <3>7. slots' = slots + Taken(req[r]) - Taken(q)
      BY <1>0, <2>3, <3>6
    <3>8. Becomes(r, q)
      BY <3>3, <3>4, <3>5, <3>7 DEF Becomes
    <3>9. QED
      BY <1>0, <3>3, <3>8
  <2>4. QED
    BY <1>4, <2>1, <2>2, <2>3 DEF Told
<1>5. ASSUME NEW code \in Code, EndsWith(r, code)
      PROVE  \E q : Becomes(r, q) /\ q.pc \in {"wait", "drain", "answered"}
  <2>1. /\ Answer(r, code)
        /\ slots' = IF req[r].mode = "sse" THEN slots + 1 ELSE slots
    BY <1>5 DEF EndsWith, Ends
  <2>2. slots' = slots + Taken(req[r])
    BY <1>0, <2>1 DEF Taken, Open
  <2>3. CASE code \in {"timeout", "error"}
    <3>1. Becomes(r, Over(r, code)) /\ Over(r, code).pc = "answered"
      BY <1>0, <2>1, <2>2, <2>3, AnswerBecomes, OverFacts
    <3>2. QED
      BY <3>1
  <2>4. CASE code \notin {"timeout", "error"}
    <3> DEFINE q == Over(r, code)
    <3>1. /\ q \in Request /\ q.pc = "answered" /\ q.made = req[r].made /\ q.mode = req[r].mode
          /\ q.answer = code /\ q.told = req[r].told
      BY OverFacts
    <3>2. req' = [req EXCEPT ![r] = q]
      BY <2>1 DEF Answer
    <3> HIDE DEF q
    <3>3. /\ RunOf(r).phase = code
          /\ req[r].mode = "sse" => req[r].told = RunOf(r).step
      BY <1>5, <2>4, ConstFacts DEF EndsWith, Truthful, RunOf
    <3>4. Truthful(q, runs')
      BY <1>0, <1>1, <3>1, <3>3 DEF Truthful, RunOf
    <3>5. Taken(q) = 0 /\ Taken(req[r]) \in {0, 1}
      BY <3>1 DEF Taken, Open
    <3>6. slots' = slots + Taken(req[r]) - Taken(q)
      BY <1>0, <2>2, <3>5
    <3>7. QED
      BY <3>1, <3>2, <3>4, <3>6 DEF Becomes
  <2>5. QED
    BY <2>3, <2>4
<1>6. QED
  BY <1>0, <1>4, <1>5 DEF WaitStep

\* A new process has no requests under way.
LEMMA RestartTypes ==
  ASSUME TypeOK, \A r \in Requests : Truthful(req[r], runs), Restart
  PROVE  /\ TypeOK' /\ \A r \in Requests : Truthful(req'[r], runs')
         /\ OpenStreams' = {} /\ slots' = SseSlots
         /\ \A r \in Requests : \/ req'[r] = req[r] /\ req[r].pc \in {"new", "answered"}
                                \/ req'[r].pc = "answered" /\ req'[r].todo = <<>> /\ req[r].pc # "new"
<1>1. req' = [r \in Requests |-> IF req[r].pc \in {"new", "answered"} THEN req[r]
                                 ELSE Over(r, "cut off")]
  BY DEF Restart
<1>2. /\ runs' = runs /\ slots' = SseSlots /\ UNCHANGED <<storeVars, world>>
      /\ pc' = "idle" /\ queued' = TRUE /\ faults' \in Nat
  BY FaultFacts DEF Restart
<1>3. ASSUME NEW r \in Requests
      PROVE  /\ req'[r] \in Request /\ Prepared(req'[r]) /\ Truthful(req'[r], runs')
             /\ ~Open(req'[r])
             /\ \/ req'[r] = req[r] /\ req[r].pc \in {"new", "answered"}
                \/ req'[r].pc = "answered" /\ req'[r].todo = <<>> /\ req[r].pc # "new"
  <2>1. CASE req[r].pc \in {"new", "answered"}
    BY <1>1, <1>2, <2>1 DEF TypeOK, Open
  <2>2. CASE req[r].pc \notin {"new", "answered"}
    <3>1. "cut off" \in Code /\ req'[r] = Over(r, "cut off")
      BY <1>1, <2>2 DEF Code
    <3>2. /\ Over(r, "cut off") \in Request /\ Over(r, "cut off").pc = "answered"
          /\ Over(r, "cut off").todo = <<>>
      BY <3>1, OverFacts
    <3>3. Truthful(Over(r, "cut off"), runs)
      BY <3>1, OverIsTruthful
    <3>4. QED
      BY <1>2, <2>2, <3>1, <3>2, <3>3 DEF Prepared, Open
  <2>3. QED
    BY <2>1, <2>2
<1>4. req' \in [Requests -> Request]
  BY <1>1, <1>3
<1>5. OpenStreams' = {}
  BY <1>3 DEF OpenStreams, Open
<1>6. TypeOK'
  BY <1>2, <1>3, <1>4, ConstFacts DEF TypeOK, storeVars, world
<1>7. QED
  BY <1>2, <1>3, <1>5, <1>6

LEMMA WaitTypes ==
  ASSUME TypeOK, NEW r \in Requests, Truthful(req[r], runs), WaitStep(r)
  PROVE  TypeOK'
<1>1. PICK q : Becomes(r, q) /\ q.pc \in {"wait", "drain", "answered"}
  BY WaitBecomes
<1>2. /\ req' \in [Requests -> Request] /\ req'[r] = q
      /\ \A o \in Requests : o # r => req'[o] = req[o]
  BY <1>1 DEF Becomes, TypeOK
<1>3. \A o \in Requests : Prepared(req'[o])
  BY <1>1, <1>2 DEF TypeOK, Prepared
<1>4. slots' \in Int
  <2>1. slots \in Int /\ Taken(req[r]) \in {0, 1} /\ Taken(q) \in {0, 1}
    BY DEF TypeOK, Taken
  <2>2. QED
    BY <1>1, <2>1 DEF Becomes
<1>5. faults' \in Nat
  BY FaultFacts DEF WaitStep, TypeOK
<1>6. QED
  BY <1>2, <1>3, <1>4, <1>5 DEF WaitStep, TypeOK, passVars, storeVars, world

LEMMA RunMovesFacts ==
  ASSUME TypeOK, NEW n \in DOMAIN runs, RunMoves(n)
  PROVE  /\ DOMAIN runs' = DOMAIN runs /\ runs'[n] \in RunState
         /\ runs[n].phase \in {Nil, "Running"}
         /\ \A m \in DOMAIN runs : m # n => runs'[m] = runs[m]
<1>1. PICK to \in IF runs[n].phase = Nil THEN {[phase |-> "Running", step |-> "Running"]}
                  ELSE {[phase |-> p, step |-> p] : p \in {"Succeeded", "Failed"}} :
        runs' = [runs EXCEPT ![n] = to]
  BY DEF RunMoves
<1>2. to \in RunState
  BY <1>1 DEF RunState, RunPhase, StepPhase
<1>3. runs[n].phase \in {Nil, "Running"}
  BY DEF RunMoves, TypeOK, RunState, RunPhase, Terminal
<1>4. QED
  BY <1>1, <1>2, <1>3

LEMMA WorldTypes ==
  ASSUME TypeOK,
         UpstreamMoves \/ UpstreamPruned \/ EditTrigger \/ Tick \/ WakeUp
           \/ \E n \in DOMAIN runs : RunMoves(n)
  PROVE  TypeOK'
<1>1. CASE UpstreamMoves
  <2>1. upstream' \in Upstream /\ completions' \in Nat /\ queued' \in BOOLEAN
    <3>1. upstream \in Upstream /\ completions \in Nat /\ queued \in BOOLEAN /\ clock \in Time
          /\ Nil \in Time
      BY DEF TypeOK, Time
    <3>2. CASE upstream.phase = "Running"
      <4>1. /\ upstream' = [upstream EXCEPT !.phase = "Succeeded", !.done = clock]
            /\ completions' = completions + 1 /\ queued' = TRUE
        BY <1>1, <3>2 DEF UpstreamMoves
      <4>2. upstream' \in Upstream
        BY <3>1, <4>1 DEF Upstream
      <4>3. completions' \in Nat
        BY <3>1, <4>1
      <4>4. QED
        BY <4>1, <4>2, <4>3
    <3>3. CASE upstream.phase # "Running"
      BY <1>1, <3>1, <3>3 DEF UpstreamMoves, Upstream
    <3>4. QED
      BY <3>2, <3>3
  <2>2. QED
    BY <1>1, <2>1 DEF UpstreamMoves, TypeOK, storeVars, webVars
<1>2. CASE UpstreamPruned
  <2>1. upstream' \in Upstream /\ faults' \in Nat
    BY <1>2, FaultFacts DEF UpstreamPruned, TypeOK, Upstream, Time
  <2>2. QED
    BY <1>2, <2>1 DEF UpstreamPruned, TypeOK, passVars, storeVars, webVars
<1>3. CASE EditTrigger
  <2>1. trigger' \in TriggerSpec
    BY <1>3 DEF EditTrigger, TypeOK, TriggerSpec
  <2>2. QED
    BY <1>3, <2>1 DEF EditTrigger, TypeOK, storeVars, webVars
<1>4. CASE Tick
  BY <1>4 DEF Tick, TypeOK, passVars, storeVars, webVars
<1>5. CASE WakeUp
  BY <1>5 DEF WakeUp, TypeOK, world, storeVars, webVars
<1>6. ASSUME NEW n \in DOMAIN runs, RunMoves(n)
      PROVE  TypeOK'
  <2>1. /\ DOMAIN runs' = DOMAIN runs /\ \A m \in DOMAIN runs' : runs'[m] \in RunState
    BY <1>6, RunMovesFacts DEF TypeOK
  <2>2. QED
    BY <1>6, <2>1 DEF RunMoves, TypeOK, world, storeVars, webVars
<1>7. QED
  BY <1>1, <1>2, <1>3, <1>4, <1>5, <1>6

-----------------------------------------------------------------------------
(* What a step may be, by what it does to runs and requests *)

\* The pass of the controller, failing or not.
PassStep == Reconcile \/ ReconcileStale \/ FireTarget \/ UpdateStatus \/ CallFails

ServerStep(r) ==
  \/ Post(r) \/ PostRefused(r) \/ PostFireFails(r)
  \/ PostFire(r) \/ PostStatus(r) \/ WaitStep(r)

WorldStep ==
  \/ UpstreamMoves \/ UpstreamPruned \/ EditTrigger \/ Tick \/ WakeUp
  \/ \E n \in DOMAIN runs : RunMoves(n)

EventStep == PassStep \/ (\E r \in Requests : ServerStep(r)) \/ WorldStep \/ Restart

LEMMA Steps == Next => EventStep
<1>1. \A r \in Requests : Serve(r) \/ ServeFails(r) => ServerStep(r)
  BY WaitSteps DEF Serve, ServeFails, ServerStep
<1>2. QED
  BY <1>1 DEF Next, EventStep, Pass, PassStep, WorldStep, ServerStep

LEMMA TypesStep ==
  ASSUME TypeOK, WebInv, EventStep
  PROVE  TypeOK'
<1>1. CASE PassStep
  <2>1. CASE Reconcile
    BY <2>1, GetTypes DEF Reconcile, TypeOK
  <2>2. CASE ReconcileStale
    BY <2>2, GetTypes, FaultFacts DEF ReconcileStale, TypeOK
  <2>3. CASE CallFails
    BY <2>3, PassFailsTypes, FaultFacts DEF CallFails
  <2>4. QED
    BY <1>1, <2>1, <2>2, <2>3, FireTypes, UpdateTypes DEF PassStep
<1>2. CASE \E r \in Requests : ServerStep(r)
  BY <1>2, PostTypes, PostFireTypes, PostStatusTypes, WaitTypes DEF ServerStep, WebInv
<1>3. CASE WorldStep
  BY <1>3, WorldTypes DEF WorldStep
<1>4. CASE Restart
  BY <1>4, RestartTypes DEF WebInv
<1>5. QED
  BY <1>1, <1>2, <1>3, <1>4 DEF EventStep

\* A pass never touches the requests, and the server never the trigger.
LEMMA PassFlow ==
  ASSUME TypeOK, PassStep
  PROVE  /\ UNCHANGED <<req, slots, trigger, upstream, clock, completions>>
         /\ \/ runs' = runs
            \/ /\ FireTarget /\ CreateRun(Head(in.todo)) /\ pc = "fire" /\ in.todo # <<>>
               /\ pc' = "fire" /\ in' = [in EXCEPT !.todo = Tail(@)]
BY DEF PassStep, Reconcile, ReconcileStale, Get, FireTarget, UpdateStatus, CallFails, PassFails,
       webVars, world, storeVars

LEMMA ServerFlow ==
  ASSUME TypeOK, NEW r \in Requests, ServerStep(r)
  PROVE  UNCHANGED <<pc, in, trigger, upstream, clock, completions>>
BY DEF ServerStep, Post, PostRefused, PostFireFails, PostFire, PostStatus, WaitStep, passVars, world

LEMMA RunsKept ==
  ASSUME TypeOK, EventStep
  PROVE  Kept(runs, runs')
<1>1. CASE runs' = runs
  BY <1>1 DEF Kept
<1>2. ASSUME NEW x \in Target, CreateRun(x) PROVE Kept(runs, runs')
  BY <1>2, CreateFacts DEF Kept
<1>3. ASSUME NEW n \in DOMAIN runs, RunMoves(n) PROVE Kept(runs, runs')
  BY <1>3, RunMovesFacts, ConstFacts DEF Kept, Terminal
<1>4. CASE PassStep
  <2>1. in.todo # <<>> /\ pc = "fire" => Head(in.todo) \in Target
    BY TailFacts DEF TypeOK, PassInput
  <2>2. QED
    BY <1>1, <1>2, <1>4, <2>1, PassFlow
<1>5. ASSUME NEW r \in Requests, ServerStep(r) PROVE Kept(runs, runs')
  <2>1. req[r].todo # <<>> => Head(req[r].todo) \in Target
    BY TailFacts DEF TypeOK, Request
  <2>2. \/ runs' = runs
        \/ (CreateRun(Head(req[r].todo)) /\ req[r].todo # <<>>)
    BY <1>5 DEF ServerStep, Post, PostRefused, PostFireFails, PostFire, PostStatus, WaitStep
  <2>3. QED
    BY <1>1, <1>2, <2>1, <2>2
<1>6. CASE WorldStep
  BY <1>1, <1>3, <1>6 DEF WorldStep, UpstreamMoves, UpstreamPruned, EditTrigger, Tick, WakeUp
<1>7. CASE Restart
  BY <1>1, <1>7 DEF Restart
<1>8. QED
  BY <1>4, <1>5, <1>6, <1>7 DEF EventStep

-----------------------------------------------------------------------------
(* Answers and slots *)

LEMMA SlotsBalance ==
  ASSUME NEW a \in Int, NEW k \in Int, NEW z \in Int, a + k = z
  PROVE  /\ a - 1 + (k + 1) = z /\ a + 1 + (k - 1) = z
OBVIOUS

LEMMA StreamsStep ==
  ASSUME TypeOK, NEW r \in Requests, NEW q, req' = [req EXCEPT ![r] = q],
         slots' = slots + Taken(req[r]) - Taken(q),
         slots + Cardinality(OpenStreams) = SseSlots
  PROVE  slots' + Cardinality(OpenStreams)' = SseSlots
<1>1. /\ IsFiniteSet(OpenStreams) /\ Cardinality(OpenStreams) \in Nat
  <2>1. OpenStreams \subseteq Requests
    BY DEF OpenStreams
  <2>2. IsFiniteSet(OpenStreams)
    BY <2>1, ConstFacts, FS_Subset
  <2>3. QED
    BY <2>2, FS_CardinalityType
<1>2. /\ \A o \in Requests : o \in OpenStreams <=> Open(req[o])
      /\ \A o \in Requests : o \in OpenStreams' <=> Open(req'[o])
      /\ OpenStreams \subseteq Requests /\ OpenStreams' \subseteq Requests
  BY DEF OpenStreams, Open
<1>3. req'[r] = q /\ \A o \in Requests : o # r => req'[o] = req[o]
  BY DEF TypeOK
<1>4. slots \in Int /\ SseSlots \in Int
  BY ConstFacts DEF TypeOK
<1>5. CASE Open(req[r]) <=> Open(q)
  <2>1. OpenStreams' = OpenStreams
    BY <1>2, <1>3, <1>5
  <2>2. slots' = slots
    BY <1>4, <1>5 DEF Taken
  <2>3. QED
    BY <2>1, <2>2
<1>6. CASE Open(req[r]) /\ ~Open(q)
  <2>1. OpenStreams' = OpenStreams \ {r} /\ r \in OpenStreams
    BY <1>2, <1>3, <1>6
  <2>2. Cardinality(OpenStreams') = Cardinality(OpenStreams) - 1
    BY <1>1, <2>1, FS_RemoveElement
  <2>3. slots' = slots + 1
    BY <1>4, <1>6 DEF Taken
  <2>4. QED
    BY <1>1, <1>4, <2>2, <2>3, SlotsBalance
<1>7. CASE ~Open(req[r]) /\ Open(q)
  <2>1. OpenStreams' = OpenStreams \cup {r} /\ r \notin OpenStreams
    BY <1>2, <1>3, <1>7
  <2>2. Cardinality(OpenStreams') = Cardinality(OpenStreams) + 1
    BY <1>1, <2>1, FS_AddElement
  <2>3. slots' = slots - 1
    BY <1>4, <1>7 DEF Taken
  <2>4. QED
    BY <1>1, <1>4, <2>2, <2>3, SlotsBalance
<1>8. QED
  BY <1>5, <1>6, <1>7

LEMMA ServerBecomes ==
  ASSUME TypeOK, NEW r \in Requests, Truthful(req[r], runs), ServerStep(r)
  PROVE  \E q : Becomes(r, q) /\ q.pc # "new"
<1>1. CASE PostFire(r)
  <2>1. Over(r, "error").pc = "answered"
    BY OverFacts DEF Code
  <2>2. QED
    BY <1>1, <2>1, PostFireBecomes
<1>2. QED
  BY <1>1, PostBecomes, PostStatusBecomes, WaitBecomes DEF ServerStep

LEMMA WebStep ==
  ASSUME TypeOK, WebInv, EventStep
  PROVE  WebInv'
<1>1. ASSUME UNCHANGED <<req, slots>> PROVE WebInv'
  <2>1. \A r \in Requests : req[r] \in Request /\ Truthful(req[r], runs)
    BY DEF TypeOK, WebInv
  <2>2. \A r \in Requests : Truthful(req[r], runs')
    BY <2>1, RunsKept, TruthfulKept
  <2>3. OpenStreams' = OpenStreams
    BY <1>1 DEF OpenStreams
  <2>4. QED
    BY <1>1, <2>2, <2>3 DEF WebInv
<1>2. CASE PassStep
  BY <1>1, <1>2, PassFlow
<1>3. CASE WorldStep
  BY <1>1, <1>3 DEF WorldStep, UpstreamMoves, UpstreamPruned, EditTrigger, Tick, WakeUp, RunMoves, webVars
<1>4. CASE Restart
  <2>1. /\ OpenStreams' = {} /\ slots' = SseSlots /\ \A r \in Requests : Truthful(req'[r], runs')
    BY <1>4, RestartTypes DEF WebInv
  <2>2. Cardinality(OpenStreams') = 0
    BY <2>1, FS_EmptySet
  <2>3. slots' + Cardinality(OpenStreams') = SseSlots
    BY <2>1, <2>2, ConstFacts
  <2>4. QED
    BY <2>1, <2>3 DEF WebInv
<1>5. ASSUME NEW r \in Requests, ServerStep(r) PROVE WebInv'
  <2>1. PICK q : Becomes(r, q)
    BY <1>5, ServerBecomes DEF WebInv
  <2>2. req'[r] = q /\ \A o \in Requests : o # r => req'[o] = req[o]
    BY <2>1 DEF Becomes, TypeOK
  <2>3. \A o \in Requests : Truthful(req'[o], runs')
    <3>1. ASSUME NEW o \in Requests PROVE Truthful(req[o], runs')
      BY RunsKept, TruthfulKept DEF TypeOK, WebInv
    <3>2. QED
      BY <2>1, <2>2, <3>1 DEF Becomes
  <2>4. slots' + Cardinality(OpenStreams)' = SseSlots
    BY <2>1, StreamsStep DEF Becomes, WebInv
  <2>5. QED
    BY <2>3, <2>4 DEF WebInv
<1>6. QED
  BY <1>2, <1>3, <1>4, <1>5 DEF EventStep

LEMMA WebInitially == Init => WebInv
<1> SUFFICES ASSUME Init PROVE WebInv
  OBVIOUS
<1>1. \A r \in Requests : req[r] = NewRequest
  BY DEF Init
<1>2. OpenStreams = {}
  BY <1>1 DEF OpenStreams, NewRequest
<1>3. Cardinality(OpenStreams) = 0 /\ slots = SseSlots
  BY <1>2, FS_EmptySet DEF Init
<1>4. Truthful(NewRequest, runs)
  BY ConstFacts DEF Truthful, NewRequest
<1>5. QED
  BY <1>1, <1>3, <1>4, ConstFacts DEF WebInv

LEMMA Stuttering ==
  ASSUME UNCHANGED vars
  PROVE  /\ UNCHANGED <<trigger, status, before, token, runs, upstream, clock, pc, in, queued>>
         /\ UNCHANGED <<req, slots, completions, faults>>
BY DEF vars, passVars, storeVars, webVars, world

LEMMA TypedStep ==
  ASSUME TypeOK, WebInv, [Next]_vars
  PROVE  TypeOK' /\ WebInv'
<1>1. CASE UNCHANGED vars
  <2>1. TypeOK'
    BY <1>1, Stuttering DEF TypeOK
  <2>2. WebInv'
    BY <1>1, Stuttering DEF WebInv, OpenStreams
  <2>3. QED
    BY <2>1, <2>2
<1>2. QED
  BY <1>1, Steps, TypesStep, WebStep

\* What the webhook server tells a caller is what became of the one run its POST
\* started, a run that has ended never changes under an answer, and every SSE
\* slot is either free or held by one open response, however requests and the
\* operator process end (waitForRun, handleSSE).
THEOREM AnswersAreTrue == Spec => []AnswerIsTrue
<1>1. TypeOK /\ WebInv => AnswerIsTrue
  BY DEF WebInv, AnswerIsTrue, Truthful, RunOf, OpenStreams
<1>2. TypeOK /\ WebInv /\ [Next]_vars => (TypeOK /\ WebInv)'
  BY TypedStep
<1>3. QED
  BY TypesInit, WebInitially, <1>1, <1>2, PTL DEF Spec

-----------------------------------------------------------------------------
(* The pass, step by step *)

Fires(s) ==
  CASE trigger.type = "cron" -> ShouldFireCron(s, clock)
    [] trigger.type = "team-output" -> ShouldFireOutput(s)
    [] OTHER -> FALSE

\* The pass begins with status s, fresh or from a cache that is behind.
Begins(s) ==
  /\ pc = "idle" /\ pc' = "fire"
  /\ in' = [status |-> s, now |-> clock, fires |-> Fires(s), todo |-> IF Fires(s) THEN Targets ELSE <<>>]
  /\ UNCHANGED <<status, before, runs>>
  /\ \/ s = status /\ faults' = faults
     \/ s = before /\ faults' = faults + 1

\* It creates the next run.
Creates ==
  /\ pc = "fire" /\ in.todo # <<>> /\ pc' = "fire"
  /\ CreateRun(Head(in.todo)) /\ in' = [in EXCEPT !.todo = Tail(in.todo)]
  /\ UNCHANGED <<status, before, faults>>

\* It is over: cut off, on a name that is taken, or with its status stored.
Breaks ==
  /\ pc' = "idle" /\ UNCHANGED <<runs, status, before>>
  /\ \/ pc = "idle" /\ (faults' = faults \/ faults' = faults + 1)
     \/ faults' = faults + 1
     \/ /\ pc = "fire" /\ in.todo # <<>> /\ faults' = faults
        /\ RunName(Head(in.todo)) \in DOMAIN runs

Stores ==
  /\ pc = "fire" /\ in.todo = <<>> /\ pc' = "idle"
  /\ Stored(StatusAfter) /\ UNCHANGED <<runs, faults>>

LEMMA GetSteps ==
  ASSUME TypeOK, NEW s \in {status, before}, Get(s),
         (s = status /\ faults' = faults) \/ (s = before /\ faults' = faults + 1)
  PROVE  Begins(s) \/ Breaks
<1>1. pc = "idle" /\ UNCHANGED <<status, before, runs>>
  BY DEF Get
<1>2. CASE trigger.suspended
  <2>1. pc' = "idle"
    BY <1>1, <1>2 DEF Get
  <2>2. QED
    BY <1>1, <2>1 DEF Breaks
<1>3. CASE ~trigger.suspended
  <2>1. /\ in' = [status |-> s, now |-> clock, fires |-> Fires(s), todo |-> IF Fires(s) THEN Targets ELSE <<>>]
        /\ pc' = "fire"
    BY <1>3 DEF Get, Fires
  <2>2. QED
    BY <1>1, <2>1 DEF Begins
<1>4. QED
  BY <1>2, <1>3

LEMMA PassSteps ==
  ASSUME TypeOK, PassStep
  PROVE  /\ (\E s \in {status, before} : Begins(s)) \/ Creates \/ Breaks \/ Stores
         /\ UNCHANGED <<req, slots, trigger, upstream, clock, completions>>
<1>1. UNCHANGED <<req, slots, trigger, upstream, clock, completions>>
  BY PassFlow
<1>2. CASE Reconcile
  BY <1>1, <1>2, GetSteps DEF Reconcile
<1>3. CASE ReconcileStale
  BY <1>1, <1>3, GetSteps, FaultFacts DEF ReconcileStale
<1>4. CASE FireTarget
  <2>1. CASE PassFails
    <3>1. RunName(Head(in.todo)) \in DOMAIN runs
      BY <1>4, <2>1 DEF FireTarget, PassFails, CreateRun
    <3>2. QED
      BY <1>1, <1>4, <2>1, <3>1 DEF FireTarget, PassFails, Breaks, storeVars
  <2>2. CASE ~PassFails
    BY <1>1, <1>4, <2>2 DEF FireTarget, Creates, storeVars
  <2>3. QED
    BY <2>1, <2>2
<1>5. CASE CallFails
  BY <1>1, <1>5, FaultFacts DEF CallFails, PassFails, Breaks, storeVars
<1>6. CASE UpdateStatus
  BY <1>1, <1>6 DEF UpdateStatus, Stores
<1>7. QED
  BY <1>2, <1>3, <1>4, <1>5, <1>6 DEF PassStep

LEMMA BeginsFacts ==
  ASSUME TypeOK, NEW s, Begins(s)
  PROVE  /\ in'.status = s /\ in'.now = clock /\ in'.fires = Fires(s)
         /\ in'.todo = (IF Fires(s) THEN Targets ELSE <<>>)
BY DEF Begins

LEMMA CreatesFacts ==
  ASSUME TypeOK, Creates
  PROVE  /\ in'.status = in.status /\ in'.now = in.now /\ in'.fires = in.fires
         /\ in'.todo = Tail(in.todo) /\ in.todo \in Seq(Target) /\ Head(in.todo) \in Target
         /\ RunName(Head(in.todo)) = <<Head(in.todo), clock>>
<1>1. in \in PassInput /\ in.todo \in Seq(Target) /\ in.todo # <<>>
  BY DEF Creates, TypeOK, PassInput
<1>2. Head(in.todo) \in Target
  BY <1>1, TailFacts
<1>3. QED
  BY <1>1, <1>2 DEF Creates, PassInput, RunName

\* Nothing changes the type, the policy or the targets of a trigger.
LEMMA TriggerKept ==
  ASSUME TypeOK, EventStep
  PROVE  /\ trigger'.type = trigger.type /\ trigger'.forbid = trigger.forbid
         /\ trigger'.targets = trigger.targets
<1>1. CASE UNCHANGED trigger
  BY <1>1
<1>2. CASE EditTrigger
  BY <1>2 DEF EditTrigger, TypeOK, TriggerSpec
<1>3. CASE PassStep
  BY <1>1, <1>3, PassFlow
<1>4. CASE \E r \in Requests : ServerStep(r)
  BY <1>1, <1>4, ServerFlow
<1>5. CASE WorldStep \/ Restart
  BY <1>1, <1>2, <1>5 DEF WorldStep, Restart, UpstreamMoves, UpstreamPruned, Tick, WakeUp, RunMoves, world
<1>6. QED
  BY <1>3, <1>4, <1>5 DEF EventStep

LEMMA ServerIsWeb ==
  ASSUME SourceInv, NEW r \in Requests, ServerStep(r)
  PROVE  trigger.type = "webhook"
<1>1. CASE req[r].pc = "new"
  BY <1>1 DEF ServerStep, Post, PostRefused, PostFireFails, PostFire, PostStatus, WaitStep, Told, EndsWith
<1>2. QED
  BY <1>1 DEF SourceInv

LEMMA SourceStep ==
  ASSUME TypeOK, WebInv, SourceInv, EventStep
  PROVE  SourceInv'
<1>0. trigger'.type = trigger.type /\ clock \in Nat /\ \A n \in DOMAIN runs : n \in Name
  BY TriggerKept DEF TypeOK
<1>1. CASE PassStep
  <2>0. UNCHANGED <<req, trigger, clock>>
    BY <1>1, PassSteps
  <2>1. ASSUME NEW s, Begins(s) PROVE SourceInv'
    <3>1. trigger.type = "webhook" => ~Fires(s)
      BY DEF Fires
    <3>2. pc' = "fire" /\ runs' = runs
      BY <2>1 DEF Begins
    <3>3. QED
      BY <2>0, <2>1, <3>1, <3>2, BeginsFacts DEF SourceInv
  <2>2. CASE Creates
    <3>1. /\ pc' = "fire" /\ pc = "fire" /\ in.todo # <<>>
      BY <2>2 DEF Creates
    <3>2. DOMAIN runs' = DOMAIN runs \cup {<<Head(in.todo), clock>>}
      BY <2>2, CreatesFacts, CreateFacts DEF Creates
    <3>3. <<Head(in.todo), clock>>[2] = clock /\ clock <= clock
      BY <1>0
    <3>4. QED
      BY <2>0, <2>2, <3>1, <3>2, <3>3, CreatesFacts DEF SourceInv
  <2>3. CASE pc' = "idle" /\ runs' = runs
    BY <2>0, <2>3 DEF SourceInv
  <2>4. QED
    BY <1>1, <2>1, <2>2, <2>3, PassSteps DEF Breaks, Stores
<1>2. ASSUME NEW r \in Requests, ServerStep(r) PROVE SourceInv'
  <2>1. trigger.type = "webhook" /\ UNCHANGED <<pc, in, trigger, clock>>
    BY <1>2, ServerIsWeb, ServerFlow
  <2>2. \A n \in DOMAIN runs' : n[2] <= clock
    <3>1. CASE runs' = runs
      BY <3>1 DEF SourceInv
    <3>2. CASE CreateRun(Head(req[r].todo)) /\ req[r].todo # <<>>
      <4>1. Head(req[r].todo) \in Target
        BY <3>2, TailFacts DEF TypeOK, Request
      <4>2. DOMAIN runs' = DOMAIN runs \cup {<<Head(req[r].todo), clock>>}
        BY <3>2, <4>1, CreateFacts DEF RunName
      <4>3. <<Head(req[r].todo), clock>>[2] = clock /\ clock <= clock
        BY <1>0
      <4>4. QED
        BY <4>2, <4>3 DEF SourceInv
    <3>3. QED
      BY <1>2, <3>1, <3>2 DEF ServerStep, Post, PostRefused, PostFireFails, PostFire, PostStatus, WaitStep
  <2>3. QED
    BY <2>1, <2>2 DEF SourceInv
<1>3. CASE WorldStep
  <2>1. /\ UNCHANGED <<pc, in, req>> /\ DOMAIN runs' = DOMAIN runs
        /\ clock' = clock \/ (clock' = clock + 1 /\ pc = "idle")
    BY <1>3, RunMovesFacts DEF WorldStep, UpstreamMoves, UpstreamPruned, EditTrigger, Tick, WakeUp, RunMoves,
       passVars, webVars, world
  <2>2. \A n \in DOMAIN runs : n[2] <= clock'
    BY <1>0, <2>1 DEF SourceInv, Name
  <2>3. QED
    BY <1>0, <2>1, <2>2 DEF SourceInv
<1>4. CASE Restart
  <2>1. pc' = "idle" /\ UNCHANGED <<runs, clock>>
    BY <1>4 DEF Restart, world
  <2>2. \A r \in Requests : req[r].pc = "new" => req'[r].pc = "new"
    BY <1>4, RestartTypes DEF WebInv
  <2>3. QED
    BY <1>0, <2>1, <2>2 DEF SourceInv
<1>5. QED
  BY <1>1, <1>2, <1>3, <1>4 DEF EventStep

-----------------------------------------------------------------------------
(* The policy Forbid *)

LEMMA ForbidStep ==
  ASSUME TypeOK, SourceInv, ForbidInv, EventStep
  PROVE  ForbidInv'
<1>0. /\ trigger'.type = trigger.type /\ trigger'.forbid = trigger.forbid
      /\ \A n \in DOMAIN runs : n \in Name
  BY TriggerKept DEF TypeOK
<1> SUFFICES ASSUME trigger.forbid, trigger.type # "webhook"
             PROVE  /\ \A n, m \in DOMAIN runs' : Underway(n)' /\ Underway(m)' /\ n[1] = m[1] => n = m
                    /\ pc' = "fire" /\ in'.todo # <<>> =>
                         \A n \in DOMAIN runs' : Underway(n)' => n[2] = clock'
  BY <1>0 DEF ForbidInv
<1>1. /\ \A n, m \in DOMAIN runs : Underway(n) /\ Underway(m) /\ n[1] = m[1] => n = m
      /\ pc = "fire" /\ in.todo # <<>> => \A n \in DOMAIN runs : Underway(n) => n[2] = clock
  BY DEF ForbidInv
<1>2. CASE runs' = runs /\ pc' = "idle"
  BY <1>1, <1>2 DEF Underway
<1>3. CASE PassStep
  <2>0. UNCHANGED <<trigger, clock>>
    BY <1>3, PassSteps
  <2>1. ASSUME NEW s, Begins(s) PROVE ForbidInv'
    <3>1. runs' = runs /\ pc' = "fire"
      BY <2>1 DEF Begins
    <3>2. in'.todo # <<>> => ~hasRunningRun
      BY <2>1, BeginsFacts DEF Targets
    <3>3. ~hasRunningRun => \A n \in DOMAIN runs : ~Underway(n)
      BY DEF hasRunningRun, Underway, Terminal, TypeOK, RunState, RunPhase
    <3>4. QED
      BY <1>0, <1>1, <3>1, <3>2, <3>3 DEF ForbidInv, Underway
  <2>2. CASE Creates
    <3> DEFINE new == <<Head(in.todo), clock>>
    <3>1. /\ new \notin DOMAIN runs /\ DOMAIN runs' = DOMAIN runs \cup {new}
          /\ \A n \in DOMAIN runs : runs'[n] = runs[n]
      BY <2>2, CreatesFacts, CreateFacts DEF Creates
    <3>2. \A n \in DOMAIN runs : Underway(n) => n[2] = clock
      BY <1>1, <2>2 DEF Creates
    <3>3. ASSUME NEW n \in DOMAIN runs, Underway(n), n[1] = new[1] PROVE FALSE
      <4>1. n = <<n[1], n[2]>>
        BY <1>0 DEF Name
      <4>2. n[2] = clock /\ n[1] = Head(in.todo)
        BY <3>2, <3>3
      <4>3. QED
        BY <3>1, <4>1, <4>2
    <3>4. new[1] = Head(in.todo) /\ new[2] = clock
      OBVIOUS
    <3> HIDE DEF new
    <3>5. \A n \in DOMAIN runs : Underway(n)' <=> Underway(n)
      BY <3>1 DEF Underway
    <3>6. QED
      BY <1>1, <2>0, <3>1, <3>2, <3>3, <3>4, <3>5
  <2>3. QED
    BY <1>0, <1>2, <1>3, <2>1, <2>2, PassSteps DEF Breaks, Stores, ForbidInv
<1>4. CASE WorldStep
  <2>1. /\ UNCHANGED <<pc, in>> /\ DOMAIN runs' = DOMAIN runs
        /\ clock' = clock \/ pc = "idle"
    BY <1>4, RunMovesFacts DEF WorldStep, UpstreamMoves, UpstreamPruned, EditTrigger, Tick, WakeUp, RunMoves,
       passVars, webVars, world
  <2>2. \A n \in DOMAIN runs : Underway(n)' => Underway(n)
    <3>1. CASE runs' = runs
      BY <3>1 DEF Underway
    <3>2. ASSUME NEW m \in DOMAIN runs, RunMoves(m) PROVE \A n \in DOMAIN runs : Underway(n)' => Underway(n)
      BY <3>2, RunMovesFacts, ConstFacts DEF Underway, Terminal
    <3>3. QED
      BY <1>4, <3>1, <3>2 DEF WorldStep, UpstreamMoves, UpstreamPruned, EditTrigger, Tick, WakeUp, world
  <2>3. QED
    BY <1>1, <2>1, <2>2
<1>5. CASE \E r \in Requests : ServerStep(r)
  BY <1>5, ServerIsWeb
<1>6. CASE Restart
  BY <1>2, <1>6 DEF Restart
<1>7. QED
  BY <1>3, <1>4, <1>5, <1>6 DEF EventStep, ForbidInv

\* With the policy Forbid a trigger that fires by itself never has two runs of a
\* target under way, whichever pass is repeated, stale or cut off in between: a
\* pass creates runs only where it saw none under way, within one second, and
\* the second is part of the name (fire, hasRunningRun).
THEOREM ForbidIsKept == Spec => []ForbidHolds
<1>1. TypeOK /\ ForbidInv => ForbidHolds
  <2> SUFFICES ASSUME TypeOK, ForbidInv, trigger.forbid, trigger.type # "webhook", NEW x
               PROVE  Cardinality({n \in RunsFor(x) : ~Terminal(runs[n].phase)}) <= 1
    BY DEF ForbidHolds
  <2> DEFINE U == {n \in RunsFor(x) : ~Terminal(runs[n].phase)}
  <2>1. \A n, m \in U : n = m
    BY DEF ForbidInv, Underway, RunsFor
  <2>2. CASE U = {}
    BY <2>2, FS_EmptySet
  <2>3. CASE U # {}
    <3>1. PICK n \in U : TRUE
      BY <2>3
    <3>2. U = {n}
      BY <2>1, <3>1
    <3>3. Cardinality(U) = 1
      BY <3>2, FS_Singleton
    <3>4. QED
      BY <3>3
  <2>4. QED
    BY <2>2, <2>3
<1>2. TypeOK /\ WebInv /\ SourceInv /\ ForbidInv /\ [Next]_vars => (SourceInv /\ ForbidInv)'
  <2> SUFFICES ASSUME TypeOK, WebInv, SourceInv, ForbidInv, [Next]_vars
               PROVE  SourceInv' /\ ForbidInv'
    OBVIOUS
  <2>1. CASE UNCHANGED vars
    BY <2>1, Stuttering DEF SourceInv, ForbidInv, Underway
  <2>2. CASE Next
    BY <2>2, Steps, SourceStep, ForbidStep
  <2>3. QED
    BY <2>1, <2>2
<1>3. Init => SourceInv /\ ForbidInv
  BY DEF Init, SourceInv, ForbidInv, NewRequest
<1>4. QED
  BY TypesInit, WebInitially, TypedStep, <1>1, <1>2, <1>3, PTL DEF Spec

-----------------------------------------------------------------------------
(* The targets that are left *)

\* What a step of the server makes of its request, and whether it creates a run.
Takes(r, q) ==
  /\ runs' = runs /\ q.pc # "new"
  /\ q.pc = "fire" => req[r].pc = "new" /\ q.todo = Targets

Makes(r, q) ==
  /\ req[r].pc = "fire" /\ req[r].todo # <<>> /\ CreateRun(Head(req[r].todo))
  /\ q.pc = "fire" /\ q.todo = Tail(req[r].todo)

LEMMA ServerMoves ==
  ASSUME TypeOK, NEW r \in Requests, Truthful(req[r], runs), ServerStep(r)
  PROVE  \E q : req' = [req EXCEPT ![r] = q] /\ (Takes(r, q) \/ Makes(r, q))
<1>1. CASE Post(r)
  <2>1. PICK q : /\ Becomes(r, q) /\ q.pc # "new"
                 /\ q.pc = "fire" => trigger.type = "webhook" /\ q.todo = Targets
    BY <1>1, PostBecomes
  <2>2. runs' = runs /\ req[r].pc = "new"
    BY <1>1 DEF Post
  <2>3. QED
    BY <2>1, <2>2 DEF Becomes, Takes
<1>2. CASE PostRefused(r) \/ PostFireFails(r)
  <2>1. \E code \in Code : Answer(r, code) /\ runs' = runs
    BY <1>2 DEF PostRefused, PostFireFails, Code
  <2>2. PICK code \in Code : Answer(r, code) /\ runs' = runs
    BY <2>1
  <2>3. Over(r, code).pc = "answered"
    BY OverFacts
  <2>4. QED
    BY <2>2, <2>3 DEF Answer, Takes
<1>3. CASE PostFire(r)
  <2>1. CASE Becomes(r, Over(r, "error")) /\ runs' = runs
    <3>1. Over(r, "error").pc = "answered"
      BY OverFacts DEF Code
    <3>2. QED
      BY <2>1, <3>1 DEF Becomes, Takes
  <2>2. CASE \E q : /\ Becomes(r, q) /\ q.pc = "fire" /\ q.todo = Tail(req[r].todo)
                    /\ CreateRun(Head(req[r].todo))
    BY <1>3, <2>2 DEF PostFire, Becomes, Makes
  <2>3. QED
    BY <1>3, <2>1, <2>2, PostFireBecomes
<1>4. CASE PostStatus(r)
  <2>1. PICK q : Becomes(r, q) /\ q.pc \in {"wait", "answered"}
    BY <1>4, PostStatusBecomes
  <2>2. runs' = runs
    BY <1>4 DEF PostStatus
  <2>3. QED
    BY <2>1, <2>2 DEF Becomes, Takes
<1>5. CASE WaitStep(r)
  <2>1. PICK q : Becomes(r, q) /\ q.pc \in {"wait", "drain", "answered"}
    BY <1>5, WaitBecomes
  <2>2. runs' = runs
    BY <1>5 DEF WaitStep
  <2>3. QED
    BY <2>1, <2>2 DEF Becomes, Takes
<1>6. QED
  BY <1>1, <1>2, <1>3, <1>4, <1>5 DEF ServerStep

\* Targets that are skipped or all there.
LEMMA TargetsFacts ==
  ASSUME TypeOK, Distinct(trigger.targets)
  PROVE  /\ Targets \in {<<>>, trigger.targets} /\ Distinct(Targets)
         /\ Len(Targets) <= Len(trigger.targets) /\ ToSet(Targets) \subseteq ToSet(trigger.targets)
<1>1. trigger.targets \in Seq(Target)
  BY TargetsOK
<1>2. Len(<<>>) = 0 /\ DOMAIN <<>> = {} /\ Len(trigger.targets) \in Nat
  BY <1>1
<1>3. ToSet(<<>>) = {} /\ Distinct(<<>>)
  BY <1>2 DEF ToSet, Distinct
<1>4. Targets = <<>> \/ Targets = trigger.targets
  BY DEF Targets
<1>5. CASE Targets = <<>>
  BY <1>2, <1>3, <1>5
<1>6. CASE Targets = trigger.targets
  BY <1>2, <1>6
<1>7. QED
  BY <1>4, <1>5, <1>6

PassTodo ==
  pc = "fire" =>
    /\ Distinct(in.todo) /\ Len(in.todo) <= Len(trigger.targets)
    /\ ToSet(in.todo) \subseteq ToSet(trigger.targets)

\* The first run of a second is that of the first target.
FirstFirst ==
  \A n \in DOMAIN runs : n[2] = clock =>
    trigger.targets # <<>> /\ <<trigger.targets[1], clock>> \in DOMAIN runs

Onwards ==
  pc = "fire" /\ in.todo # <<>> /\ in.todo # trigger.targets =>
    /\ <<trigger.targets[1], clock>> \in DOMAIN runs
    /\ \A x \in ToSet(in.todo) : <<x, clock>> \notin DOMAIN runs

LEMMA TodoParts ==
  TodoInv <=> /\ Distinct(trigger.targets) /\ PassTodo
              /\ \A r \in Requests : req[r].pc = "fire" => Distinct(req[r].todo)
              /\ trigger.type # "webhook" => FirstFirst /\ Onwards
BY DEF TodoInv, PassTodo, FirstFirst, Onwards

LEMMA CreatesTodo ==
  ASSUME TypeOK, SourceInv, TodoInv, Creates, UNCHANGED <<trigger, clock>>
  PROVE  PassTodo' /\ (trigger.type # "webhook" => FirstFirst' /\ Onwards')
<1> DEFINE h == Head(in.todo)
           new == <<h, clock>>
<1>1. /\ pc = "fire" /\ in.todo # <<>> /\ pc' = "fire" /\ in'.todo = Tail(in.todo)
      /\ in.todo \in Seq(Target) /\ h \in Target /\ trigger.targets \in Seq(Target)
  BY CreatesFacts, TargetsOK DEF Creates
<1>2. new \notin DOMAIN runs /\ DOMAIN runs' = DOMAIN runs \cup {new}
  BY <1>1, CreatesFacts, CreateFacts DEF Creates
<1>3. /\ ToSet(in.todo) = {h} \cup ToSet(Tail(in.todo)) /\ Len(Tail(in.todo)) = Len(in.todo) - 1
      /\ Len(in.todo) \in Nat \ {0} /\ Distinct(Tail(in.todo)) /\ h \notin ToSet(Tail(in.todo))
  BY <1>1, TailFacts, TodoParts DEF PassTodo
<1>4. /\ Len(in.todo) <= Len(trigger.targets) /\ ToSet(in.todo) \subseteq ToSet(trigger.targets)
      /\ Len(trigger.targets) \in Nat
  BY <1>1, TodoParts DEF PassTodo
<1>5. PassTodo'
  <2>1. Len(in.todo) - 1 <= Len(trigger.targets)
    BY <1>3, <1>4
  <2>2. QED
    BY <1>1, <1>3, <1>4, <2>1 DEF PassTodo
<1>6. ASSUME trigger.type # "webhook" PROVE FirstFirst' /\ Onwards'
  <2>1. FirstFirst /\ Onwards
    BY <1>6, TodoParts
  <2>2. trigger.targets # <<>>
    BY <1>3, <1>4
  <2>3. CASE in.todo = trigger.targets
    <3>1. h = trigger.targets[1]
      BY <1>1, <2>3
    <3>2. \A n \in DOMAIN runs : n[2] # clock
      BY <1>2, <2>1, <3>1 DEF FirstFirst
    <3>3. \A x : <<x, clock>>[2] = clock /\ <<x, clock>>[1] = x
      OBVIOUS
    <3>4. \A x \in ToSet(Tail(in.todo)) : <<x, clock>> \notin DOMAIN runs'
      BY <1>2, <1>3, <3>2, <3>3
    <3>5. QED
      BY <1>1, <1>2, <2>2, <3>1, <3>4 DEF FirstFirst, Onwards
  <2>4. CASE in.todo # trigger.targets
    <3>1. /\ <<trigger.targets[1], clock>> \in DOMAIN runs
          /\ \A x \in ToSet(in.todo) : <<x, clock>> \notin DOMAIN runs
      BY <1>1, <2>1, <2>4 DEF Onwards
    <3>2. \A x : <<x, clock>>[1] = x
      OBVIOUS
    <3>3. \A x \in ToSet(Tail(in.todo)) : <<x, clock>> \notin DOMAIN runs'
      BY <1>2, <1>3, <3>1, <3>2
    <3>4. QED
      BY <1>1, <1>2, <2>2, <3>1, <3>3 DEF FirstFirst, Onwards
  <2>5. QED
    BY <2>3, <2>4
<1>7. QED
  BY <1>5, <1>6

LEMMA TodoStep ==
  ASSUME TypeOK, WebInv, SourceInv, TodoInv, EventStep
  PROVE  TodoInv'
<1>0. /\ trigger'.type = trigger.type /\ trigger'.targets = trigger.targets
      /\ Distinct(trigger.targets) /\ clock \in Nat
      /\ \A n \in DOMAIN runs : n \in Name /\ n[2] <= clock
  BY TriggerKept, TodoParts DEF TypeOK, SourceInv
<1>1. CASE PassStep
  <2>0. UNCHANGED <<req, trigger, clock>>
    BY <1>1, PassSteps
  <2>1. ASSUME NEW s, Begins(s) PROVE TodoInv'
    <3>1. runs' = runs /\ pc' = "fire" /\ in'.todo \in {<<>>, Targets}
      BY <2>1, BeginsFacts DEF Begins
    <3>2. DOMAIN <<>> = {} /\ Len(<<>>) = 0 /\ Len(trigger.targets) \in Nat
      BY TargetsOK
    <3>3. Distinct(<<>>) /\ ToSet(<<>>) = {} /\ Len(<<>>) <= Len(trigger.targets)
      BY <3>2 DEF Distinct, ToSet
    <3>4. PassTodo'
      BY <1>0, <2>0, <3>1, <3>3, TargetsFacts DEF PassTodo
    <3>5. FirstFirst' <=> FirstFirst
      BY <2>0, <3>1 DEF FirstFirst
    <3>6. Onwards'
      BY <1>0, <2>0, <3>1, TargetsFacts DEF Onwards
    <3>7. QED
      BY <1>0, <2>0, <3>4, <3>5, <3>6, TodoParts DEF TodoInv, PassTodo, FirstFirst, Onwards
  <2>2. CASE Creates
    <3>1. PassTodo' /\ (trigger.type # "webhook" => FirstFirst' /\ Onwards')
      BY <2>0, <2>2, CreatesTodo
    <3>2. QED
      BY <1>0, <2>0, <3>1, TodoParts DEF TodoInv, PassTodo, FirstFirst, Onwards
  <2>3. CASE pc' = "idle" /\ runs' = runs
    BY <1>0, <2>0, <2>3 DEF TodoInv
  <2>4. QED
    BY <1>1, <2>1, <2>2, <2>3, PassSteps DEF Breaks, Stores
<1>2. ASSUME NEW r \in Requests, ServerStep(r) PROVE TodoInv'
  <2>1. trigger.type = "webhook" /\ UNCHANGED <<pc, in, trigger, clock>>
    BY <1>2, ServerIsWeb, ServerFlow
  <2>2. PICK q : req' = [req EXCEPT ![r] = q] /\ (Takes(r, q) \/ Makes(r, q))
    BY <1>2, ServerMoves DEF WebInv
  <2>3. q.pc = "fire" => Distinct(q.todo)
    <3>1. CASE Takes(r, q)
      BY <1>0, <3>1, TargetsFacts DEF Takes
    <3>2. CASE Makes(r, q)
      <4>1. /\ req[r].todo \in Seq(Target) /\ req[r].todo # <<>> /\ Distinct(req[r].todo)
            /\ q.todo = Tail(req[r].todo)
        BY <3>2 DEF Makes, TypeOK, Request, TodoInv
      <4>2. QED
        BY <4>1, TailFacts
    <3>3. QED
      BY <2>2, <3>1, <3>2
  <2>4. req'[r] = q /\ \A o \in Requests : o # r => req'[o] = req[o]
    BY <2>2 DEF TypeOK
  <2>5. QED
    BY <1>0, <2>1, <2>3, <2>4 DEF TodoInv
<1>3. CASE WorldStep
  <2>1. /\ UNCHANGED <<pc, in, req>> /\ DOMAIN runs' = DOMAIN runs
        /\ clock' = clock \/ (clock' = clock + 1 /\ pc = "idle")
    BY <1>3, RunMovesFacts DEF WorldStep, UpstreamMoves, UpstreamPruned, EditTrigger, Tick, WakeUp, RunMoves,
       passVars, webVars, world
  <2>2. CASE clock' = clock
    BY <1>0, <2>1, <2>2 DEF TodoInv
  <2>3. CASE clock' = clock + 1 /\ pc = "idle"
    <3>1. \A n \in DOMAIN runs : n[2] # clock'
      BY <1>0, <2>3 DEF Name
    <3>2. QED
      BY <1>0, <2>1, <2>3, <3>1 DEF TodoInv
  <2>4. QED
    BY <2>1, <2>2, <2>3
<1>4. CASE Restart
  <2>1. pc' = "idle" /\ UNCHANGED <<runs, clock>>
    BY <1>4 DEF Restart, world
  <2>2. \A r \in Requests : req'[r].pc = "fire" => FALSE
    BY <1>4, RestartTypes DEF WebInv
  <2>3. QED
    BY <1>0, <2>1, <2>2 DEF TodoInv
<1>5. QED
  BY <1>1, <1>2, <1>3, <1>4 DEF EventStep

-----------------------------------------------------------------------------
(* What a status knows of *)

PastDue(l) == {t \in Due : l # Nil /\ t <= l}

LEMMA PastDueFacts ==
  ASSUME NEW l \in Time
  PROVE  IsFiniteSet(PastDue(l)) /\ Cardinality(PastDue(l)) \in Nat
<1>1. PastDue(l) \subseteq Due
  BY DEF PastDue
<1>2. IsFiniteSet(PastDue(l))
  BY <1>1, ConstFacts, FS_Subset
<1>3. QED
  BY <1>2, FS_CardinalityType

LEMMA LaterKnowsMore ==
  ASSUME NEW l \in Time, NEW now \in Nat, l # Nil => l <= now
  PROVE  Cardinality(PastDue(l)) <= Cardinality(PastDue(now))
<1>1. \A t \in Due : t \in Nat
  BY ConstFacts
<1>2. PastDue(l) \subseteq PastDue(now)
  <2>1. \A t \in Due : l # Nil /\ t <= l => t <= now
    BY <1>1 DEF Time
  <2>2. now # Nil
    BY ConstFacts
  <2>3. QED
    BY <2>1, <2>2 DEF PastDue
<1>3. now \in Time
  BY DEF Time
<1>4. QED
  BY <1>2, <1>3, PastDueFacts, FS_Subset

\* A schedule that is due is not yet known of.
LEMMA DueIsNews ==
  ASSUME NEW s \in EventStatus, NEW now \in Nat, ShouldFireCron(s, now), s.last # Nil => s.last <= now
  PROVE  Cardinality(PastDue(s.last)) + 1 <= Cardinality(PastDue(now))
<1> DEFINE l == s.last
           lookback == IF l # Nil /\ l > now - Day THEN l ELSE now - Day
           past == {t \in Due : t > lookback /\ t <= now}
<1>1. l \in Time /\ now \in Time /\ now # Nil /\ Day \in Nat
  BY ConstFacts, EventAssumption DEF EventStatus, Time
<1>2. past # {}
  BY DEF ShouldFireCron, mostRecentSchedule
<1>3. PICK t \in Due : t > lookback /\ t <= now
  BY <1>2
<1>4. t \in Nat
  BY ConstFacts
<1>5. t \in PastDue(now) /\ t \notin PastDue(l)
  <2>1. t \in PastDue(now)
    BY <1>1, <1>3 DEF PastDue
  <2>2. ASSUME l # Nil PROVE ~(t <= l)
    <3>1. l \in Nat
      BY <1>1, <2>2 DEF Time
    <3>2. CASE l > now - Day
      BY <1>3, <1>4, <2>2, <3>1, <3>2
    <3>3. CASE ~(l > now - Day)
      BY <1>1, <1>3, <1>4, <2>2, <3>1, <3>3
    <3>4. QED
      BY <3>2, <3>3
  <2>3. QED
    BY <2>1, <2>2 DEF PastDue
<1> HIDE DEF l
<1>6. PastDue(l) \subseteq PastDue(now)
  <2>1. ASSUME NEW u \in Due, l # Nil, u <= l PROVE u <= now
    <3>1. u \in Nat /\ l \in Nat /\ l <= now
      BY <1>1, <2>1, ConstFacts DEF Time, l
    <3>2. QED
      BY <2>1, <3>1
  <2>2. QED
    BY <1>1, <2>1 DEF PastDue
<1>7. /\ IsFiniteSet(PastDue(now)) /\ Cardinality(PastDue(now)) \in Nat
      /\ IsFiniteSet(PastDue(l)) /\ Cardinality(PastDue(l)) \in Nat
  BY <1>1, PastDueFacts
<1>8. PastDue(l) \cup {t} \subseteq PastDue(now)
  BY <1>5, <1>6
<1>9. /\ IsFiniteSet(PastDue(l) \cup {t})
      /\ Cardinality(PastDue(l) \cup {t}) = Cardinality(PastDue(l)) + 1
  BY <1>5, <1>7, FS_AddElement
<1>10. Cardinality(PastDue(l) \cup {t}) <= Cardinality(PastDue(now))
  BY <1>7, <1>8, FS_Subset
<1>11. QED
  BY <1>7, <1>9, <1>10 DEF l

LEMMA SettledType ==
  ASSUME NEW type, NEW up \in Upstream, NEW c \in Nat, NEW l \in Time,
         up.phase = "Succeeded" => c > 0
  PROVE  Settled(type, up, c, l) \in Nat
<1>1. CASE type = "cron"
  BY <1>1, PastDueFacts DEF Settled, PastDue
<1>2. CASE type # "cron"
  BY <1>2 DEF Settled, OutputDue
<1>3. QED
  BY <1>1, <1>2

\* What the trigger knows of has happened.
LEMMA SettledIsPast ==
  ASSUME NEW up \in Upstream, NEW c \in Nat, NEW l \in Time, NEW now \in Nat,
         up.phase = "Succeeded" => c > 0, l # Nil => l <= now
  PROVE  /\ Settled("cron", up, c, l) <= Cardinality({t \in Due : t <= now})
         /\ Settled("team-output", up, c, l) <= c
<1>1. {t \in Due : t <= now} = PastDue(now)
  BY ConstFacts DEF PastDue
<1>2. Settled("cron", up, c, l) = Cardinality(PastDue(l))
  BY DEF Settled, PastDue
<1>3. Settled("team-output", up, c, l) \in {c, c - 1}
  BY DEF Settled
<1>4. Settled("team-output", up, c, l) <= c
  BY <1>3
<1>5. QED
  BY <1>1, <1>2, <1>4, LaterKnowsMore

\* A pass that fires learns of a cause.
LEMMA FiringIsNews ==
  ASSUME TypeOK, NEW s \in EventStatus, Fires(s), s.last # Nil => s.last <= clock,
         upstream.phase = "Succeeded" => upstream.done # Nil,
         upstream.done # Nil => upstream.done <= clock
  PROVE  Known(s.last) + 1 <= Known(clock)
<1>0. clock \in Nat /\ clock # Nil /\ completions \in Nat
  BY ConstFacts DEF TypeOK
<1>1. CASE trigger.type = "cron"
  <2>1. ShouldFireCron(s, clock)
    BY <1>1 DEF Fires
  <2>2. Cardinality(PastDue(s.last)) + 1 <= Cardinality(PastDue(clock))
    BY <1>0, <2>1, DueIsNews
  <2>3. QED
    BY <1>1, <2>2 DEF Known, Settled, PastDue
<1>2. CASE trigger.type # "cron"
  <2>1. trigger.type = "team-output" /\ ShouldFireOutput(s)
    BY <1>2 DEF Fires
  <2>2. OutputDue(upstream, s.last) /\ ~OutputDue(upstream, clock)
    BY <1>0, <2>1 DEF ShouldFireOutput, OutputDue
  <2>3. Known(s.last) = completions - 1 /\ Known(clock) = completions
    BY <1>2, <2>2 DEF Known, Settled
  <2>4. QED
    BY <1>0, <2>3
<1>3. QED
  BY <1>1, <1>2

\* What is known stays known, whatever the upstream team does.
LEMMA SettledGrows ==
  ASSUME TypeOK, TypeOK', EventStep, ~upstream'.pruned, NEW l \in Time,
         upstream.phase = "Succeeded" => completions > 0
  PROVE  Known(l) <= Settled(trigger'.type, upstream', completions', l)
<1>0. trigger'.type = trigger.type
  BY TriggerKept
<1>1. Known(l) \in Nat
  BY SettledType DEF Known, TypeOK
<1>2. CASE UNCHANGED <<upstream, completions>>
  BY <1>0, <1>1, <1>2 DEF Known
<1>3. CASE UpstreamMoves
  <2>1. trigger.type = "team-output" /\ completions \in Nat /\ upstream \in Upstream
    BY <1>3 DEF UpstreamMoves, TypeOK
  <2>2. CASE upstream.phase = "Running"
    <3>1. completions' = completions + 1
      BY <1>3, <2>2 DEF UpstreamMoves
    <3>2. Known(l) = completions
      BY <2>1, <2>2 DEF Known, Settled, OutputDue
    <3>3. Settled(trigger'.type, upstream', completions', l) \in {completions + 1, (completions + 1) - 1}
      BY <1>0, <2>1, <3>1 DEF Settled
    <3>4. QED
      BY <2>1, <3>2, <3>3
  <2>3. CASE upstream.phase # "Running"
    <3>1. completions' = completions /\ upstream'.phase = "Running"
      BY <1>3, <2>1, <2>3 DEF UpstreamMoves, Upstream
    <3>2. Settled(trigger'.type, upstream', completions', l) = completions
      BY <1>0, <2>1, <3>1 DEF Settled, OutputDue
    <3>3. Known(l) \in {completions, completions - 1}
      BY <2>1 DEF Known, Settled
    <3>4. QED
      BY <2>1, <3>2, <3>3
  <2>4. QED
    BY <2>2, <2>3
<1>4. CASE UpstreamPruned
  <2>1. upstream'.pruned = TRUE
    BY <1>4 DEF UpstreamPruned, TypeOK, Upstream
  <2>2. QED
    BY <2>1
<1>5. CASE PassStep
  BY <1>2, <1>5, PassFlow
<1>6. CASE \E r \in Requests : ServerStep(r)
  BY <1>2, <1>6, ServerFlow
<1>7. CASE WorldStep \/ Restart
  BY <1>2, <1>3, <1>4, <1>7 DEF WorldStep, Restart, EditTrigger, Tick, WakeUp, RunMoves, world
<1>8. QED
  BY <1>5, <1>6, <1>7 DEF EventStep

-----------------------------------------------------------------------------
(* The runs of a target *)

LEMMA RunsForType ==
  ASSUME TypeOK, NEW x
  PROVE  IsFiniteSet(RunsFor(x)) /\ Cardinality(RunsFor(x)) \in Nat
<1>1. RunsFor(x) \subseteq DOMAIN runs
  BY DEF RunsFor
<1>2. IsFiniteSet(RunsFor(x))
  BY <1>1, FS_Subset DEF TypeOK
<1>3. QED
  BY <1>2, FS_CardinalityType

LEMMA RunsForCreated ==
  ASSUME TypeOK, NEW x, NEW h \in Target, CreateRun(h)
  PROVE  /\ x = h => Cardinality(RunsFor(x)') = Cardinality(RunsFor(x)) + 1
         /\ x # h => RunsFor(x)' = RunsFor(x)
<1>1. /\ <<h, clock>> \notin DOMAIN runs /\ DOMAIN runs' = DOMAIN runs \cup {<<h, clock>>}
  BY CreateFacts DEF RunName
<1>2. <<h, clock>>[1] = h
  OBVIOUS
<1>3. x # h => RunsFor(x)' = RunsFor(x)
  BY <1>1, <1>2 DEF RunsFor
<1>4. ASSUME x = h PROVE Cardinality(RunsFor(x)') = Cardinality(RunsFor(x)) + 1
  <2>1. RunsFor(x)' = RunsFor(x) \cup {<<h, clock>>} /\ <<h, clock>> \notin RunsFor(x)
    BY <1>1, <1>2, <1>4 DEF RunsFor
  <2>2. QED
    BY <2>1, RunsForType, FS_AddElement
<1>5. QED
  BY <1>3, <1>4

-----------------------------------------------------------------------------
(* The runs of a webhook trigger *)

LEMMA ServedType ==
  ASSUME NEW x
  PROVE  IsFiniteSet(Served(x)) /\ Cardinality(Served(x)) \in Nat
<1>1. Served(x) \subseteq Requests
  BY DEF Served
<1>2. IsFiniteSet(Served(x))
  BY <1>1, ConstFacts, FS_Subset
<1>3. QED
  BY <1>2, FS_CardinalityType

LEMMA ServedTypeNext ==
  ASSUME NEW x
  PROVE  IsFiniteSet(Served(x)') /\ Cardinality(Served(x)') \in Nat
<1>1. Served(x)' \subseteq Requests
  BY DEF Served
<1>2. IsFiniteSet(Served(x)')
  BY <1>1, ConstFacts, FS_Subset
<1>3. QED
  BY <1>2, FS_CardinalityType

LEMMA FaultsGrow ==
  ASSUME TypeOK, EventStep
  PROVE  faults' \in Nat /\ faults <= faults'
<1>1. faults \in Nat
  BY DEF TypeOK
<1>2. CASE faults' = faults \/ Fault
  BY <1>1, <1>2, FaultFacts
<1>3. CASE PassStep
  BY <1>2, <1>3 DEF PassStep, Reconcile, ReconcileStale, FireTarget, UpdateStatus, CallFails
<1>4. CASE \E r \in Requests : ServerStep(r)
  BY <1>2, <1>4 DEF ServerStep, Post, PostRefused, PostFireFails, PostFire, PostStatus, WaitStep
<1>5. CASE WorldStep \/ Restart
  BY <1>2, <1>5 DEF WorldStep, Restart, UpstreamMoves, UpstreamPruned, EditTrigger, Tick, WakeUp, RunMoves
<1>6. QED
  BY <1>3, <1>4, <1>5 DEF EventStep

LEMMA OneMoreServed ==
  ASSUME NEW n \in Nat, NEW k \in Nat, NEW f \in Nat, NEW k2 \in Nat, NEW f2 \in Nat,
         n <= k + f, f <= f2
  PROVE  /\ k <= k2 => n <= k2 + f2
         /\ k2 = k + 1 => n + 1 <= k2 + f2
OBVIOUS

LEMMA WebAccountStep ==
  ASSUME TypeOK, WebInv, SourceInv, TodoInv, WebAccount, EventStep
  PROVE  WebAccount'
<1>0. /\ trigger'.type = trigger.type /\ trigger'.targets = trigger.targets
  BY TriggerKept
<1> SUFFICES ASSUME trigger.type = "webhook", NEW x \in ToSet(trigger.targets)
             PROVE  Cardinality(RunsFor(x)') <= Cardinality(Served(x)') + faults'
  BY <1>0 DEF WebAccount
<1> DEFINE n == Cardinality(RunsFor(x))
           k == Cardinality(Served(x))
           k2 == Cardinality(Served(x)')
<1>1. /\ n <= k + faults /\ n \in Nat /\ k \in Nat /\ k2 \in Nat
      /\ faults \in Nat /\ faults' \in Nat /\ faults <= faults'
      /\ IsFiniteSet(Served(x)) /\ IsFiniteSet(Served(x)')
  BY RunsForType, ServedType, ServedTypeNext, FaultsGrow DEF WebAccount, TypeOK
<1> HIDE DEF n, k, k2
<1>2. ASSUME RunsFor(x)' = RunsFor(x), Served(x) \subseteq Served(x)'
      PROVE  Cardinality(RunsFor(x)') <= Cardinality(Served(x)') + faults'
  <2>1. k <= k2
    BY <1>1, <1>2, FS_Subset DEF k, k2
  <2>2. n <= k2 + faults'
    BY <1>1, <2>1, OneMoreServed
  <2>3. QED
    BY <1>2, <2>2 DEF n, k2
<1>3. CASE PassStep
  <2>1. ~Creates
    BY DEF Creates, SourceInv
  <2>2. UNCHANGED <<req, runs>>
    BY <1>3, <2>1, PassSteps DEF Begins, Breaks, Stores
  <2>3. QED
    BY <1>2, <2>2 DEF RunsFor, Served
<1>4. ASSUME NEW r \in Requests, ServerStep(r)
      PROVE  Cardinality(RunsFor(x)') <= Cardinality(Served(x)') + faults'
  <2>1. PICK q : req' = [req EXCEPT ![r] = q] /\ (Takes(r, q) \/ Makes(r, q))
    BY <1>4, ServerMoves DEF WebInv
  <2>2. req'[r] = q /\ \A o \in Requests : o # r => req'[o] = req[o]
    BY <2>1 DEF TypeOK
  <2>3. CASE Takes(r, q)
    <3>1. Served(x) \subseteq Served(x)'
      BY <2>2, <2>3 DEF Served, Takes
    <3>2. RunsFor(x)' = RunsFor(x)
      BY <2>3 DEF Takes, RunsFor
    <3>3. QED
      BY <1>2, <3>1, <3>2
  <2>4. CASE Makes(r, q)
    <3> DEFINE h == Head(req[r].todo)
    <3>1. /\ req[r].todo \in Seq(Target) /\ req[r].todo # <<>> /\ Distinct(req[r].todo)
          /\ req[r].pc = "fire" /\ q.pc = "fire" /\ q.todo = Tail(req[r].todo) /\ CreateRun(h)
      BY <2>4 DEF Makes, TypeOK, Request, TodoInv
    <3>2. /\ h \in Target /\ h \notin ToSet(Tail(req[r].todo))
          /\ ToSet(req[r].todo) = {h} \cup ToSet(Tail(req[r].todo))
      BY <3>1, TailFacts
    <3> HIDE DEF h
    <3>3. CASE x = h
      <4>1. Served(x)' = Served(x) \cup {r} /\ r \notin Served(x)
        BY <2>2, <3>1, <3>2, <3>3 DEF Served
      <4>2. k2 = k + 1
        BY <1>1, <4>1, FS_AddElement DEF k, k2
      <4>3. Cardinality(RunsFor(x)') = n + 1
        BY <3>1, <3>2, <3>3, RunsForCreated DEF n
      <4>4. n + 1 <= k2 + faults'
        BY <1>1, <4>2, OneMoreServed
      <4>5. QED
        BY <4>3, <4>4 DEF k2
    <3>4. CASE x # h
      <4>1. Served(x) \subseteq Served(x)'
        BY <2>2, <3>1, <3>2, <3>4 DEF Served
      <4>2. RunsFor(x)' = RunsFor(x)
        BY <3>1, <3>2, <3>4, RunsForCreated
      <4>3. QED
        BY <1>2, <4>1, <4>2
    <3>5. QED
      BY <3>3, <3>4
  <2>5. QED
    BY <2>1, <2>3, <2>4
<1>5. CASE WorldStep
  <2>1. UNCHANGED req /\ DOMAIN runs' = DOMAIN runs
    BY <1>5, RunMovesFacts DEF WorldStep, UpstreamMoves, UpstreamPruned, EditTrigger, Tick, WakeUp, RunMoves,
       webVars
  <2>2. QED
    BY <1>2, <2>1 DEF RunsFor, Served
<1>6. CASE Restart
  <2>1. \A r \in Requests : \/ req'[r] = req[r]
                            \/ req'[r].pc = "answered"
    BY <1>6, RestartTypes DEF WebInv
  <2>2. Served(x) \subseteq Served(x)' /\ RunsFor(x)' = RunsFor(x)
    BY <1>6, <2>1 DEF Served, RunsFor, Restart
  <2>3. QED
    BY <1>2, <2>2
<1>7. QED
  BY <1>3, <1>4, <1>5, <1>6 DEF EventStep

-----------------------------------------------------------------------------
(* The runs of a trigger that fires by itself *)

LEMMA StoresFacts ==
  ASSUME TypeOK, SourceInv, Stores
  PROVE  /\ in.status \in EventStatus /\ StatusAfter \in EventStatus
         /\ in.fires \in BOOLEAN /\ in.now = clock
         /\ in.fires => StatusAfter.last = clock /\ StatusAfter # in.status
         /\ ~in.fires => StatusAfter = in.status
         /\ status' = StatusAfter /\ before' = IF StatusAfter = status THEN before ELSE status
<1>1. pc = "fire" /\ in \in PassInput /\ in.now = clock
  BY DEF Stores, TypeOK, SourceInv
<1>2. in.status \in EventStatus /\ in.fires \in BOOLEAN /\ clock \in Nat
  BY <1>1 DEF PassInput, TypeOK
<1>3. StatusAfter \in EventStatus
  BY <1>1, StatusAfterOK
<1>4. in.fires => StatusAfter.last = clock /\ StatusAfter # in.status
  BY <1>1, <1>2, FiredStatus DEF StatusAfter
<1>5. ~in.fires => StatusAfter = in.status
  BY DEF StatusAfter
<1>6. QED
  BY <1>1, <1>2, <1>3, <1>4, <1>5 DEF Stores, Stored

LEMMA CauseStep ==
  ASSUME TypeOK, SourceInv, CauseInv, EventStep
  PROVE  CauseInv'
<1>0. trigger'.type = trigger.type /\ clock \in Nat
  BY TriggerKept DEF TypeOK
<1> SUFFICES ASSUME trigger.type # "webhook" PROVE CauseInv'
  BY <1>0 DEF CauseInv
<1>1. /\ pc = "fire" => in.status \in {status, before}
      /\ \A s \in {status, before} : s.last # Nil => s.last <= clock
      /\ upstream.phase = "Succeeded" => completions > 0
      /\ upstream.done # Nil => upstream.done <= clock
      /\ upstream.phase = "Succeeded" /\ ~upstream.pruned => upstream.done # Nil
  BY DEF CauseInv
<1>2. CASE PassStep
  <2>0. UNCHANGED <<trigger, clock, upstream, completions>>
    BY <1>2, PassSteps
  <2>1. ASSUME NEW s \in {status, before}, Begins(s) PROVE CauseInv'
    <3>1. in'.status = s /\ UNCHANGED <<status, before>>
      BY <2>1, BeginsFacts DEF Begins
    <3>2. QED
      BY <1>1, <2>0, <2>1, <3>1 DEF CauseInv
  <2>2. CASE Creates
    <3>1. in'.status = in.status /\ pc = "fire" /\ UNCHANGED <<status, before>>
      BY <2>2, CreatesFacts DEF Creates
    <3>2. QED
      BY <1>1, <2>0, <3>1 DEF CauseInv
  <2>3. CASE Breaks
    BY <1>1, <2>0, <2>3 DEF CauseInv, Breaks
  <2>4. CASE Stores
    <3>1. pc' = "idle" /\ pc = "fire"
      BY <2>4 DEF Stores
    <3>2. StatusAfter.last # Nil => StatusAfter.last <= clock
      <4>1. CASE in.fires
        BY <1>0, <2>4, <4>1, StoresFacts
      <4>2. CASE ~in.fires
        BY <1>1, <2>4, <3>1, <4>2, StoresFacts
      <4>3. QED
        BY <4>1, <4>2
    <3>3. status' = StatusAfter /\ before' \in {status, before}
      BY <2>4, StoresFacts
    <3>4. QED
      BY <1>1, <2>0, <3>1, <3>2, <3>3 DEF CauseInv
  <2>5. QED
    BY <1>2, <2>1, <2>2, <2>3, <2>4, PassSteps
<1>3. CASE \E r \in Requests : ServerStep(r)
  BY <1>3, ServerIsWeb
<1>4. CASE UpstreamMoves
  <2>0. /\ UNCHANGED <<pc, in, status, before, trigger, clock>> /\ upstream \in Upstream /\ completions \in Nat
    BY <1>4 DEF UpstreamMoves, storeVars, TypeOK
  <2>1. CASE upstream.phase = "Running"
    <3>1. /\ completions' = completions + 1 /\ upstream'.phase = "Succeeded" /\ upstream'.done = clock
      BY <1>4, <2>0, <2>1 DEF UpstreamMoves, Upstream
    <3>2. completions' > 0 /\ clock # Nil /\ clock <= clock
      BY <1>0, <2>0, <3>1, ConstFacts
    <3>3. QED
      BY <1>1, <2>0, <3>1, <3>2 DEF CauseInv
  <2>2. CASE upstream.phase # "Running"
    <3>1. upstream'.phase = "Running" /\ upstream'.done = Nil
      BY <1>4, <2>0, <2>2 DEF UpstreamMoves, Upstream
    <3>2. QED
      BY <1>1, <2>0, <3>1 DEF CauseInv
  <2>3. QED
    BY <2>1, <2>2
<1>5. CASE UpstreamPruned
  <2>1. /\ UNCHANGED <<pc, in, status, before, trigger, clock, completions>>
        /\ upstream'.phase = upstream.phase /\ upstream'.done = Nil /\ upstream'.pruned
    BY <1>5 DEF UpstreamPruned, passVars, storeVars, TypeOK, Upstream
  <2>2. QED
    BY <1>1, <2>1 DEF CauseInv
<1>6. CASE Tick
  <2>1. /\ UNCHANGED <<pc, in, status, before, trigger, upstream, completions>> /\ clock' = clock + 1
    BY <1>6 DEF Tick, passVars, storeVars
  <2>2. status.last \in Time /\ before.last \in Time /\ upstream.done \in Time
    BY DEF TypeOK, EventStatus, Upstream
  <2>3. \A l \in Time : l # Nil /\ l <= clock => l <= clock + 1
    BY <1>0 DEF Time
  <2>4. QED
    BY <1>1, <2>1, <2>2, <2>3 DEF CauseInv
<1>7. CASE \/ EditTrigger \/ WakeUp \/ Restart
           \/ \E n \in DOMAIN runs : RunMoves(n)
  <2>1. /\ UNCHANGED <<status, before, upstream, clock, completions>>
        /\ pc' = "idle" \/ UNCHANGED <<pc, in>>
    BY <1>7 DEF EditTrigger, WakeUp, Restart, RunMoves, storeVars, world
  <2>2. QED
    BY <1>1, <2>1 DEF CauseInv
<1>8. QED
  BY <1>2, <1>3, <1>4, <1>5, <1>6, <1>7 DEF EventStep, WorldStep

LEMMA Margins ==
  ASSUME NEW n \in Nat, NEW k \in Nat, NEW f \in Nat, NEW c \in Nat,
         NEW k2 \in Nat, NEW f2 \in Nat, NEW c2 \in Nat, k <= k2
  PROVE  /\ f + c <= f2 + c2 /\ n <= k + f + c => n <= k2 + f2 + c2
         /\ f + c <= f2 + c2 /\ n <= k + f + 1 + c => n <= k2 + f2 + 1 + c2
         /\ f + c <= f2 + c2 /\ n + 1 <= k + f + c => n + 1 <= k2 + f2 + c2
         /\ f + 1 <= f2 /\ n <= k + f + 1 + 0 => n <= k2 + f2 + c2
         /\ f <= f2 /\ n <= k + f + 1 => n <= k2 + f2 + 1 + 0
OBVIOUS

LEMMA OneMoreRun ==
  ASSUME NEW n \in Nat, NEW k \in Nat, NEW f \in Nat
  PROVE  /\ n <= k + f + 0 => n + 1 <= k + f + 1
         /\ n <= k + f + 1 + 0 => n + 1 <= k + f + 1 + 1
         /\ n + 1 <= k + f + 0 => (n + 1) + 1 <= k + f + 1
         /\ n + 1 <= k + f + 1 => n <= k + f + 0
OBVIOUS

LEMMA FiringPays ==
  ASSUME NEW n \in Nat, NEW k \in Nat, NEW f \in Nat, NEW k2 \in Nat, NEW f2 \in Nat, NEW c2 \in Nat,
         k + 1 <= k2
  PROVE  /\ f <= f2 /\ n <= k + f + 0 => n + 1 <= k2 + f2 + c2
         /\ f + 1 <= f2 /\ n <= k + f + 1 + 0 => n + 1 <= k2 + f2 + c2
OBVIOUS

\* The account of a target, spelled out.
Books(n, f, c, ks, kb, ki, kc, p, fires) ==
  /\ n <= ks + f + c
  /\ n <= kb + f + 1 + c
  /\ p = "fire" => n <= ki + f + c
  /\ p = "fire" /\ fires => n + 1 <= kc + f + c

LEMMA BooksOf ==
  ASSUME NEW x
  PROVE  Accounted(x) <=>
           Books(Cardinality(RunsFor(x)), faults, Counted(x), Known(status.last), Known(before.last),
                 Known(in.status.last), Known(clock), pc, in.fires)
BY DEF Accounted, Books

LEMMA BooksNext ==
  ASSUME NEW x, UNCHANGED <<trigger, upstream, completions, clock>>
  PROVE  Accounted(x)' <=>
           Books(Cardinality(RunsFor(x)'), faults', Counted(x)', Known(status'.last), Known(before'.last),
                 Known(in'.status.last), Known(clock), pc', in'.fires)
BY DEF Accounted, Books, Known

LEMMA CountedType ==
  ASSUME NEW x
  PROVE  Counted(x) \in {0, 1} /\ Counted(x)' \in {0, 1}
BY DEF Counted

LEMMA KnownType ==
  ASSUME TypeOK, CauseInv, trigger.type # "webhook", NEW l \in Time
  PROVE  Known(l) \in Nat
BY SettledType DEF Known, CauseInv, TypeOK

LEMMA TimesOK ==
  ASSUME TypeOK
  PROVE  /\ clock \in Nat /\ clock \in Time /\ status.last \in Time /\ before.last \in Time
         /\ pc = "fire" => in.status \in EventStatus /\ in.status.last \in Time
BY DEF TypeOK, EventStatus, Time, PassInput

LEMMA BeginsAccount ==
  ASSUME TypeOK, CauseInv, trigger.type # "webhook", ~upstream.pruned,
         UNCHANGED <<trigger, upstream, completions, clock>>, faults' \in Nat,
         NEW s \in {status, before}, Begins(s), NEW x, Accounted(x)
  PROVE  Accounted(x)'
<1> DEFINE n == Cardinality(RunsFor(x))
           f == faults
           f2 == faults'
           c2 == Counted(x)'
           ks == Known(status.last)
           kb == Known(before.last)
           ki == Known(s.last)
           kc == Known(clock)
<1>1. /\ n \in Nat /\ f \in Nat /\ f2 \in Nat /\ c2 \in Nat
      /\ ks \in Nat /\ kb \in Nat /\ ki \in Nat /\ kc \in Nat
  BY RunsForType, CountedType, KnownType, TimesOK DEF TypeOK
<1>2. Counted(x) = 0
  BY DEF Counted, Begins
<1>3. n <= ks + f + 0 /\ n <= kb + f + 1 + 0
  BY <1>2 DEF Accounted
<1>4. in'.status = s /\ in'.fires = Fires(s) /\ UNCHANGED <<status, before, runs>>
  BY BeginsFacts DEF Begins
<1>5. Cardinality(RunsFor(x)') = n
  BY <1>4 DEF RunsFor
<1>6. Fires(s) => ki + 1 <= kc
  <2>1. /\ s \in EventStatus /\ (s.last # Nil => s.last <= clock)
        /\ upstream.phase = "Succeeded" => upstream.done # Nil
        /\ upstream.done # Nil => upstream.done <= clock
    BY DEF CauseInv, TypeOK
  <2>2. QED
    BY <2>1, FiringIsNews
<1>7. CASE s = status /\ faults' = faults
  <2>0. ki = ks /\ f2 = f
    BY <1>7
  <2> HIDE DEF n, f, f2, c2, ks, kb, ki, kc
  <2>1. n <= ks + f2 + c2 /\ n <= kb + f2 + 1 + c2 /\ n <= ki + f2 + c2
    <3>1. ks <= ks /\ kb <= kb /\ f + 0 <= f2 + c2
      BY <1>1, <2>0
    <3>2. QED
      BY <1>1, <1>3, <2>0, <3>1, Margins
  <2>2. Fires(s) => n + 1 <= kc + f2 + c2
    <3>1. f <= f2
      BY <1>1, <2>0
    <3>2. QED
      BY <1>1, <1>3, <1>6, <2>0, <3>1, FiringPays
  <2>3. Books(n, f2, c2, ks, kb, ki, kc, pc', in'.fires)
    BY <1>4, <2>1, <2>2 DEF Books
  <2>4. QED
    BY <1>4, <1>5, <2>3, BooksNext DEF f, f2, c2, ks, kb, ki, kc
<1>8. CASE s = before /\ faults' = faults + 1
  <2>0. ki = kb /\ f2 = f + 1
    BY <1>8
  <2> HIDE DEF n, f, f2, c2, ks, kb, ki, kc
  <2>1. n <= ks + f2 + c2 /\ n <= kb + f2 + 1 + c2 /\ n <= ki + f2 + c2
    <3>1. ks <= ks /\ kb <= kb /\ f + 0 <= f2 + c2 /\ f + 1 <= f2
      BY <1>1, <2>0
    <3>2. QED
      BY <1>1, <1>3, <2>0, <3>1, Margins
  <2>2. Fires(s) => n + 1 <= kc + f2 + c2
    <3>1. f + 1 <= f2
      BY <1>1, <2>0
    <3>2. QED
      BY <1>1, <1>3, <1>6, <2>0, <3>1, FiringPays
  <2>3. Books(n, f2, c2, ks, kb, ki, kc, pc', in'.fires)
    BY <1>4, <2>1, <2>2 DEF Books
  <2>4. QED
    BY <1>4, <1>5, <2>3, BooksNext DEF f, f2, c2, ks, kb, ki, kc
<1>9. QED
  BY <1>7, <1>8 DEF Begins

LEMMA CreatesAccount ==
  ASSUME TypeOK, SourceInv, TodoInv, CauseInv, trigger.type # "webhook",
         UNCHANGED <<trigger, upstream, completions, clock>>,
         Creates, NEW x, Accounted(x)
  PROVE  Accounted(x)'
<1> DEFINE n == Cardinality(RunsFor(x))
           f == faults
           ks == Known(status.last)
           kb == Known(before.last)
           ki == Known(in.status.last)
           kc == Known(clock)
           h == Head(in.todo)
<1>0. /\ pc = "fire" /\ pc' = "fire" /\ in.todo # <<>> /\ in.fires /\ UNCHANGED <<status, before, faults>>
      /\ CreateRun(h)
  BY DEF Creates, SourceInv
<1>1. /\ n \in Nat /\ f \in Nat /\ ks \in Nat /\ kb \in Nat /\ ki \in Nat /\ kc \in Nat
  BY <1>0, RunsForType, KnownType, TimesOK DEF TypeOK
<1>2. /\ in'.status = in.status /\ in'.fires /\ in'.todo = Tail(in.todo)
      /\ in.todo \in Seq(Target) /\ h \in Target
  BY <1>0, CreatesFacts
<1>3. ToSet(in.todo) = {h} \cup ToSet(Tail(in.todo)) /\ h \notin ToSet(Tail(in.todo))
  BY <1>0, <1>2, TailFacts DEF TodoInv
<1>4. Books(n, f, Counted(x), ks, kb, ki, kc, pc, in.fires)
  BY BooksOf
<1>5. CASE x = h
  <2>1. Cardinality(RunsFor(x)') = n + 1
    BY <1>0, <1>2, <1>5, RunsForCreated
  <2>2. Counted(x) = 0 /\ Counted(x)' = 1
    BY <1>0, <1>2, <1>3, <1>5 DEF Counted
  <2> HIDE DEF n, f, ks, kb, ki, kc, h
  <2>3. n <= ks + f + 0 /\ n <= kb + f + 1 + 0 /\ n <= ki + f + 0 /\ n + 1 <= kc + f + 0
    BY <1>0, <1>4, <2>2 DEF Books
  <2>4. /\ n + 1 <= ks + f + 1 /\ n + 1 <= kb + f + 1 + 1 /\ n + 1 <= ki + f + 1
        /\ (n + 1) + 1 <= kc + f + 1
    BY <1>1, <2>3, OneMoreRun
  <2>5. Books(n + 1, f, 1, ks, kb, ki, kc, pc', in'.fires)
    BY <2>4 DEF Books
  <2>6. QED
    BY <1>0, <1>2, <2>1, <2>2, <2>5, BooksNext DEF f, ks, kb, ki, kc
<1>6. CASE x # h
  <2>1. RunsFor(x)' = RunsFor(x)
    BY <1>0, <1>2, <1>6, RunsForCreated
  <2>2. Counted(x)' = Counted(x)
    BY <1>0, <1>2, <1>3, <1>6 DEF Counted
  <2>3. QED
    BY <1>0, <1>2, <1>4, <2>1, <2>2, BooksNext DEF Books
<1>7. QED
  BY <1>5, <1>6

\* The pass is over without a new status.
LEMMA BreaksAccount ==
  ASSUME TypeOK, TodoInv, CauseInv, trigger.type # "webhook", faults' \in Nat,
         UNCHANGED <<trigger, upstream, completions, clock>>,
         Breaks, NEW x \in ToSet(trigger.targets), Accounted(x)
  PROVE  Accounted(x)'
<1> DEFINE n == Cardinality(RunsFor(x))
           f == faults
           f2 == faults'
           c == Counted(x)
           ks == Known(status.last)
           kb == Known(before.last)
<1>1. /\ n \in Nat /\ f \in Nat /\ f2 \in Nat /\ c \in {0, 1} /\ ks \in Nat /\ kb \in Nat
  BY RunsForType, CountedType, KnownType, TimesOK DEF TypeOK
<1>2. pc' = "idle" /\ UNCHANGED <<status, before, runs>>
  BY DEF Breaks
<1>3. Counted(x)' = 0 /\ Cardinality(RunsFor(x)') = n
  BY <1>2 DEF Counted, RunsFor
<1>4. \/ c = 0 /\ (f2 = f \/ f2 = f + 1)
      \/ f2 = f + 1
  <2>1. CASE pc = "idle"
    BY <2>1 DEF Counted, Breaks
  <2>2. CASE pc # "idle" /\ faults' # faults + 1
    <3>1. /\ pc = "fire" /\ in.todo # <<>> /\ faults' = faults
          /\ <<Head(in.todo), clock>> \in DOMAIN runs
      BY <2>2 DEF Breaks, RunName
    <3>2. Head(in.todo) \in ToSet(in.todo)
      BY <3>1, TailFacts DEF TypeOK, PassInput
    <3>3. in.todo = trigger.targets
      BY <3>1, <3>2 DEF TodoInv
    <3>4. QED
      BY <3>1, <3>3 DEF Counted
  <2>3. QED
    BY <2>1, <2>2
<1>5. n <= ks + f + c /\ n <= kb + f + 1 + c
  BY DEF Accounted
<1> HIDE DEF n, f, f2, c, ks, kb
<1>6. f + c <= f2 + 0 /\ ks <= ks /\ kb <= kb /\ c \in Nat
  BY <1>1, <1>4
<1>7. n <= ks + f2 + 0 /\ n <= kb + f2 + 1 + 0
  BY <1>1, <1>5, <1>6, Margins
<1>8. Books(n, f2, 0, ks, kb, Known(in'.status.last), Known(clock), pc', in'.fires)
  BY <1>2, <1>7 DEF Books
<1>9. QED
  BY <1>2, <1>3, <1>8, BooksNext DEF f2, ks, kb

LEMMA StoresAccount ==
  ASSUME TypeOK, SourceInv, CauseInv, trigger.type # "webhook",
         UNCHANGED <<trigger, upstream, completions, clock>>,
         Stores, NEW x, Accounted(x)
  PROVE  Accounted(x)'
<1> DEFINE n == Cardinality(RunsFor(x))
           f == faults
           ks == Known(status.last)
           kb == Known(before.last)
           ki == Known(in.status.last)
           kc == Known(clock)
           ks2 == Known(status'.last)
           kb2 == Known(before'.last)
<1>0. pc = "fire" /\ in.todo = <<>> /\ pc' = "idle" /\ UNCHANGED <<runs, faults>>
  BY DEF Stores
<1>1. /\ n \in Nat /\ f \in Nat /\ ks \in Nat /\ kb \in Nat /\ ki \in Nat /\ kc \in Nat
  BY <1>0, RunsForType, KnownType, TimesOK DEF TypeOK
<1>2. Counted(x)' = 0 /\ Cardinality(RunsFor(x)') = n
  BY <1>0 DEF Counted, RunsFor
<1>3. x \notin ToSet(in.todo)
  BY <1>0 DEF ToSet
<1>4. Books(n, f, Counted(x), ks, kb, ki, kc, pc, in.fires)
  BY BooksOf
<1>5. in.status \in {status, before}
  BY <1>0 DEF CauseInv
<1>6. CASE in.fires
  <2>1. Counted(x) = 1
    BY <1>0, <1>3, <1>6 DEF Counted
  <2>2. ks2 = kc
    BY <1>6, StoresFacts
  <2>3. kb2 = ks \/ (kb2 = kb /\ ki = kb)
    BY <1>5, <1>6, StoresFacts
  <2> HIDE DEF n, f, ks, kb, ki, kc, ks2, kb2
  <2>4. n <= ks + f + 1 /\ n <= ki + f + 1 /\ n + 1 <= kc + f + 1
    BY <1>0, <1>4, <1>6, <2>1 DEF Books
  <2>5. n <= kc + f + 0
    BY <1>1, <2>4, OneMoreRun
  <2>6. n <= kb2 + f + 1 + 0
    <3>1. f <= f /\ ks <= ks /\ ki <= ki /\ 0 \in Nat
      BY <1>1
    <3>2. n <= ks + f + 1 + 0 /\ n <= ki + f + 1 + 0
      BY <1>1, <2>4, <3>1, Margins
    <3>3. QED
      BY <2>3, <3>2
  <2>7. Books(n, f, 0, ks2, kb2, Known(in'.status.last), kc, pc', in'.fires)
    BY <1>0, <2>2, <2>5, <2>6 DEF Books
  <2>8. QED
    BY <1>0, <1>2, <2>7, BooksNext DEF f, ks2, kb2, kc
<1>7. CASE ~in.fires
  <2>1. Counted(x) = 0
    BY <1>7 DEF Counted
  <2>2. ks2 = ki /\ (kb2 = kb \/ kb2 = ks)
    BY <1>7, StoresFacts
  <2> HIDE DEF n, f, ks, kb, ki, kc, ks2, kb2
  <2>3. n <= ks + f + 0 /\ n <= kb + f + 1 + 0 /\ n <= ki + f + 0
    BY <1>0, <1>4, <2>1 DEF Books
  <2>4. n <= ks + f + 1 + 0
    BY <1>1, <2>3
  <2>5. n <= kb2 + f + 1 + 0
    BY <2>2, <2>3, <2>4
  <2>6. Books(n, f, 0, ks2, kb2, Known(in'.status.last), kc, pc', in'.fires)
    BY <1>0, <2>2, <2>3, <2>5 DEF Books
  <2>7. QED
    BY <1>0, <1>2, <2>6, BooksNext DEF f, ks2, kb2, kc
<1>8. QED
  BY <1>6, <1>7

\* Everything outside the pass, and a restart that cuts it off.
LEMMA WorldAccount ==
  ASSUME TypeOK, TypeOK', CauseInv, CauseInv', trigger.type # "webhook", ~upstream'.pruned,
         WorldStep, NEW x, Accounted(x)
  PROVE  Accounted(x)'
<1> DEFINE n == Cardinality(RunsFor(x))
           f == faults
           f2 == faults'
           c == Counted(x)
           K(l) == Known(l)
           K2(l) == Settled(trigger'.type, upstream', completions', l)
<1>0. EventStep /\ trigger'.type = trigger.type
  BY TriggerKept DEF EventStep
<1>1. /\ UNCHANGED <<pc, in, status, before>> /\ DOMAIN runs' = DOMAIN runs
      /\ clock' = clock \/ pc = "idle"
  BY RunMovesFacts DEF WorldStep, UpstreamMoves, UpstreamPruned, EditTrigger, Tick, WakeUp, RunMoves,
     passVars, storeVars, world
<1>2. /\ n \in Nat /\ f \in Nat /\ f2 \in Nat /\ c \in Nat /\ f <= f2
  BY <1>0, RunsForType, CountedType, FaultsGrow DEF TypeOK
<1>3. Counted(x)' = c /\ Cardinality(RunsFor(x)') = n
  BY <1>1 DEF Counted, RunsFor
<1>4. \A l \in Time : K(l) \in Nat /\ K2(l) \in Nat /\ K(l) <= K2(l)
  <2> SUFFICES ASSUME NEW l \in Time PROVE K(l) \in Nat /\ K2(l) \in Nat /\ K(l) <= K2(l)
    OBVIOUS
  <2>1. K(l) \in Nat
    BY KnownType
  <2>2. K2(l) \in Nat
    <3>1. upstream' \in Upstream /\ completions' \in Nat /\ (upstream'.phase = "Succeeded" => completions' > 0)
      BY <1>0 DEF CauseInv, TypeOK
    <3>2. QED
      BY <3>1, SettledType
  <2>3. K(l) <= K2(l)
    BY <1>0, SettledGrows DEF CauseInv
  <2>4. QED
    BY <2>1, <2>2, <2>3
<1>5. Books(n, f, c, K(status.last), K(before.last), K(in.status.last), K(clock), pc, in.fires)
  BY BooksOf
<1>6. Accounted(x)' <=> Books(Cardinality(RunsFor(x)'), f2, Counted(x)', K2(status'.last), K2(before'.last),
                              K2(in'.status.last), K2(clock'), pc', in'.fires)
  BY DEF Accounted, Books, Known
<1>7. /\ clock \in Time /\ status.last \in Time /\ before.last \in Time
      /\ pc = "fire" => in.status.last \in Time
  BY TimesOK
<1> HIDE DEF n, f, f2, c, K, K2
<1>8. f + c <= f2 + c
  BY <1>2
<1>9. ASSUME NEW l \in Time
      PROVE  /\ n <= K(l) + f + c => n <= K2(l) + f2 + c
             /\ n <= K(l) + f + 1 + c => n <= K2(l) + f2 + 1 + c
             /\ n + 1 <= K(l) + f + c => n + 1 <= K2(l) + f2 + c
  BY <1>2, <1>4, <1>8, Margins
<1>10. /\ n <= K2(status.last) + f2 + c /\ n <= K2(before.last) + f2 + 1 + c
       /\ pc = "fire" => n <= K2(in.status.last) + f2 + c
       /\ pc = "fire" /\ in.fires => n + 1 <= K2(clock) + f2 + c
  BY <1>5, <1>7, <1>9 DEF Books
<1>11. Books(n, f2, c, K2(status'.last), K2(before'.last), K2(in'.status.last), K2(clock'), pc', in'.fires)
  BY <1>1, <1>10 DEF Books
<1>12. QED
  BY <1>3, <1>6, <1>11

LEMMA PassAccountStep ==
  ASSUME TypeOK, TypeOK', SourceInv, TodoInv, CauseInv, CauseInv', PassAccount, EventStep
  PROVE  PassAccount'
<1>0. trigger'.type = trigger.type /\ trigger'.targets = trigger.targets /\ faults' \in Nat
  BY TriggerKept, FaultsGrow
<1> SUFFICES ASSUME trigger.type # "webhook", ~upstream'.pruned, NEW x \in ToSet(trigger.targets)
             PROVE  Accounted(x)'
  BY <1>0 DEF PassAccount
<1>1. ~upstream.pruned
  <2>1. CASE upstream' = upstream
    BY <2>1
  <2>2. CASE UpstreamMoves \/ UpstreamPruned
    BY <2>2 DEF UpstreamMoves, UpstreamPruned, TypeOK, Upstream
  <2>3. QED
    BY <2>1, <2>2, PassFlow, ServerFlow
       DEF EventStep, WorldStep, EditTrigger, Tick, WakeUp, RunMoves, Restart, world
<1>2. Accounted(x)
  BY <1>1 DEF PassAccount
<1>3. CASE PassStep
  <2>1. UNCHANGED <<trigger, upstream, completions, clock>>
    BY <1>3, PassFlow
  <2>2. ASSUME NEW s \in {status, before}, Begins(s) PROVE Accounted(x)'
    BY <1>0, <1>1, <1>2, <2>1, <2>2, BeginsAccount
  <2>3. CASE Creates
    BY <1>2, <2>1, <2>3, CreatesAccount
  <2>4. CASE Breaks
    BY <1>0, <1>2, <2>1, <2>4, BreaksAccount
  <2>5. CASE Stores
    BY <1>2, <2>1, <2>5, StoresAccount
  <2>6. QED
    BY <1>3, <2>2, <2>3, <2>4, <2>5, PassSteps
<1>4. CASE \E r \in Requests : ServerStep(r)
  BY <1>4, ServerIsWeb
<1>5. CASE WorldStep
  BY <1>2, <1>5, WorldAccount
<1>6. CASE Restart
  <2>1. UNCHANGED <<trigger, upstream, completions, clock>>
    BY <1>6 DEF Restart, world
  <2>2. Breaks
    BY <1>6, FaultFacts DEF Restart, Breaks, storeVars
  <2>3. QED
    BY <1>0, <1>2, <2>1, <2>2, BreaksAccount
<1>7. QED
  BY <1>3, <1>4, <1>5, <1>6 DEF EventStep

-----------------------------------------------------------------------------
(* Runs are bounded by what asks for them *)

FireInv == SourceInv /\ ForbidInv /\ TodoInv /\ CauseInv /\ PassAccount /\ WebAccount

LEMMA FireInitially ==
  ASSUME DistinctTargets, Init
  PROVE  FireInv
<1>1. /\ DOMAIN runs = {} /\ pc = "idle" /\ clock \in Nat /\ faults = 0 /\ completions = 0
      /\ status.last = Nil /\ before.last = Nil /\ \A r \in Requests : req[r].pc = "new"
      /\ upstream = [phase |-> "Running", done |-> Nil, pruned |-> FALSE]
  BY ConstFacts DEF Init, NewRequest
<1>2. Distinct(trigger.targets)
  BY DEF DistinctTargets, Init
<1>3. SourceInv /\ ForbidInv /\ TodoInv /\ CauseInv
  BY <1>1, <1>2 DEF SourceInv, ForbidInv, TodoInv, CauseInv, Init
<1>4. ASSUME NEW x PROVE Cardinality(RunsFor(x)) = 0 /\ Counted(x) = 0
  <2>1. RunsFor(x) = {}
    BY <1>1 DEF RunsFor
  <2>2. QED
    BY <1>1, <2>1, FS_EmptySet DEF Counted
<1>5. Known(Nil) = 0
  <2>1. {t \in Due : Nil # Nil /\ t <= Nil} = {}
    OBVIOUS
  <2>2. ~OutputDue(upstream, Nil)
    BY <1>1 DEF OutputDue
  <2>3. QED
    BY <1>1, <2>1, <2>2, FS_EmptySet DEF Known, Settled
<1>6. PassAccount
  <2>1. ASSUME NEW x PROVE Accounted(x)
    <3>1. Books(0, 0, 0, 0, 0, Known(in.status.last), Known(clock), pc, in.fires)
      BY <1>1 DEF Books
    <3>2. QED
      BY <1>1, <1>4, <1>5, <3>1, BooksOf
  <2>2. QED
    BY <2>1 DEF PassAccount
<1>7. WebAccount
  <2>1. ASSUME NEW x PROVE Cardinality(RunsFor(x)) <= Cardinality(Served(x)) + faults
    <3>1. Cardinality(Served(x)) \in Nat
      BY ServedType
    <3>2. QED
      BY <1>1, <1>4, <3>1
  <2>2. QED
    BY <2>1 DEF WebAccount
<1>8. QED
  BY <1>3, <1>6, <1>7 DEF FireInv

LEMMA FireStep ==
  ASSUME TypeOK, WebInv, FireInv, [Next]_vars
  PROVE  FireInv'
<1>1. CASE UNCHANGED vars
  <2>1. UNCHANGED <<trigger, status, before, runs, upstream, clock, pc, in, req, completions, faults>>
    BY <1>1, Stuttering
  <2>2. (SourceInv /\ ForbidInv /\ TodoInv /\ CauseInv)'
    BY <2>1 DEF FireInv, SourceInv, ForbidInv, Underway, TodoInv, CauseInv
  <2>3. ASSUME NEW x
        PROVE  /\ Accounted(x) => Accounted(x)'
               /\ RunsFor(x)' = RunsFor(x) /\ Served(x)' = Served(x)
    BY <2>1 DEF Accounted, Counted, Known, RunsFor, Served
  <2>4. QED
    BY <2>1, <2>2, <2>3 DEF FireInv, PassAccount, WebAccount
<1>2. CASE Next
  <2>1. EventStep /\ TypeOK'
    BY <1>2, Steps, TypedStep
  <2>2. SourceInv' /\ ForbidInv' /\ TodoInv' /\ CauseInv'
    BY <2>1, SourceStep, ForbidStep, TodoStep, CauseStep DEF FireInv
  <2>3. PassAccount' /\ WebAccount'
    BY <2>1, <2>2, PassAccountStep, WebAccountStep DEF FireInv
  <2>4. QED
    BY <2>2, <2>3 DEF FireInv
<1>3. QED
  BY <1>1, <1>2

\* What the accounts say of the runs of a target.
LEMMA RunsAccounted ==
  ASSUME TypeOK, FireInv
  PROVE  RunsAreAccounted
<1> SUFFICES ASSUME ~upstream.pruned, NEW x \in ToSet(trigger.targets)
             PROVE  Cardinality(RunsFor(x)) <= Causes + faults
  BY DEF RunsAreAccounted
<1> DEFINE n == Cardinality(RunsFor(x))
<1>0. n \in Nat /\ faults \in Nat /\ trigger.type \in {"cron", "team-output", "webhook"}
  BY RunsForType DEF TypeOK, TriggerSpec, TriggerTypes
<1>1. CASE trigger.type = "webhook"
  <2> DEFINE P == {r \in Requests : req[r].pc # "new"}
  <2>1. n <= Cardinality(Served(x)) + faults /\ Causes = Cardinality(P)
    BY <1>1 DEF FireInv, WebAccount, Causes
  <2>2. P \subseteq Requests /\ Served(x) \subseteq P
    BY DEF Served
  <2>3. IsFiniteSet(P)
    BY <2>2, ConstFacts, FS_Subset
  <2>4. Cardinality(Served(x)) <= Cardinality(P) /\ Cardinality(P) \in Nat /\ Cardinality(Served(x)) \in Nat
    BY <2>2, <2>3, FS_Subset, FS_CardinalityType, ServedType
  <2> HIDE DEF n, P
  <2>5. QED
    BY <1>0, <2>1, <2>4 DEF n
<1>2. CASE trigger.type # "webhook"
  <2> DEFINE k == Known(status.last)
             b == Known(before.last)
             c == Counted(x)
             i == Known(in.status.last)
  <2>1. Accounted(x) /\ CauseInv
    BY <1>1, <1>2 DEF FireInv, PassAccount
  <2>2. /\ clock \in Nat /\ clock \in Time /\ status.last \in Time
        /\ status.last # Nil => status.last <= clock
        /\ upstream \in Upstream /\ completions \in Nat
        /\ upstream.phase = "Succeeded" => completions > 0
    BY <1>2, <2>1, TimesOK DEF CauseInv, TypeOK
  <2>3. ASSUME NEW l \in Time, l # Nil => l <= clock PROVE Known(l) <= Causes /\ Known(l) \in Nat
    <3>1. Known(l) \in Nat
      BY <1>2, <2>1, KnownType
    <3>2. CASE trigger.type = "cron"
      BY <2>2, <2>3, <3>1, <3>2, SettledIsPast DEF Known, Causes
    <3>3. CASE trigger.type = "team-output"
      BY <2>2, <2>3, <3>1, <3>3, SettledIsPast DEF Known, Causes
    <3>4. QED
      BY <1>0, <1>2, <3>1, <3>2, <3>3
  <2>4. Causes \in Nat
    <3>1. CASE trigger.type = "cron"
      <4>1. {t \in Due : t <= clock} \subseteq Due
        OBVIOUS
      <4>2. IsFiniteSet({t \in Due : t <= clock})
        BY <4>1, ConstFacts, FS_Subset
      <4>3. QED
        BY <3>1, <4>2, FS_CardinalityType DEF Causes
    <3>2. CASE trigger.type = "team-output"
      BY <2>2, <3>2 DEF Causes
    <3>3. QED
      BY <1>0, <1>2, <3>1, <3>2
  <2>5. CASE Counted(x) = 0
    <3>1. n <= k + faults + 0
      BY <2>1, <2>5 DEF Accounted
    <3>2. k <= Causes /\ k \in Nat
      BY <2>2, <2>3
    <3> HIDE DEF n, k
    <3>3. n <= Causes + faults
      BY <1>0, <2>4, <3>1, <3>2
    <3>4. QED
      BY <3>3 DEF n
  <2>6. CASE Counted(x) # 0
    <3>1. Counted(x) = 1 /\ pc = "fire" /\ in.fires
      BY <2>6 DEF Counted
    <3>2. n + 1 <= Known(clock) + faults + 1
      BY <2>1, <3>1 DEF Accounted
    <3>3. clock <= clock
      BY <2>2
    <3>4. Known(clock) <= Causes /\ Known(clock) \in Nat
      BY <2>2, <2>3, <3>3
    <3> HIDE DEF n
    <3>5. n <= Causes + faults
      BY <1>0, <2>4, <3>2, <3>4
    <3>6. QED
      BY <3>5 DEF n
  <2>7. QED
    BY <2>5, <2>6
<1>3. QED
  BY <1>1, <1>2

\* A target gets no more runs than there were due times, completions or POSTs,
\* and one more for every failed call, stale read or restart, however many
\* targets, requests and faults there are: what a pass that was cut off left
\* behind is done again at most once, since a pass over runs of its own second
\* stops at the first name that is taken.  This takes targets of different names
\* (reconcileCron, reconcileTeamOutput, fire, buildRun).
THEOREM FiresStayBounded ==
  ASSUME DistinctTargets
  PROVE  Spec => []FiresAreBounded
<1>1. Init => FireInv
  BY FireInitially
<1>2. TypeOK /\ WebInv /\ FireInv /\ [Next]_vars => FireInv'
  BY FireStep
<1>3. TypeOK /\ FireInv => RunsAreAccounted
  BY RunsAccounted
<1>4. QED
  BY TypesInit, WebInitially, TypedStep, ForbidIsKept, <1>1, <1>2, <1>3, PTL DEF Spec, FiresAreBounded
=============================================================================
