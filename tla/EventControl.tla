----------------------------- MODULE EventControl -----------------------------
(***************************************************************************)
(* A SwarmEvent: its controller, which fires cron and team-output          *)
(* triggers, and the HTTP server that fires webhook triggers and tells the *)
(* caller how the run went (internal/controller/swarmevent_controller.go,  *)
(* trigger_webhook_server.go).                                             *)
(*                                                                         *)
(* Both create the runs of a trigger one by one and then write its status: *)
(* a call that fails in between leaves runs the status does not tell of.   *)
(* A run is named after its target and the second of its creation.         *)
(***************************************************************************)
EXTENDS Integers, Sequences, FiniteSets, SequencesExt, FiniteSetsExt

CONSTANTS
  Nil,
  Triggers,     \* the triggers considered: [type, suspended, forbid, targets]
  Requests,     \* the POSTs that arrive at the webhook server
  Modes(_),     \* the modes they ask for
  Due,          \* when the cron schedule is due
  Day,          \* how far mostRecentSchedule looks back
  Start,        \* the time at which the trigger is created
  Timeout,      \* how long a synchronous request waits
  SseSlots,     \* maxSSEConnections
  Streaming,    \* does the server have a stream channel?
  LastTick(_),  \* how long a trigger is watched
  MaxCompletions, MaxEdits(_), MaxFaults

TriggerTypes == {"cron", "team-output", "webhook"}

ASSUME EventAssumption ==
  /\ \A t \in Triggers :
       t \in [type : TriggerTypes, suspended : BOOLEAN, forbid : BOOLEAN,
             targets : Seq(ToSet(t.targets))]
  /\ IsFiniteSet(Requests) /\ \A r \in Requests : Modes(r) \subseteq {"async", "sync", "sse"}
  /\ IsFiniteSet(Due) /\ Due \subseteq Nat
  /\ {Day, Start, Timeout, SseSlots, MaxCompletions, MaxFaults} \subseteq Nat
  /\ Streaming \in BOOLEAN
  /\ Nil \notin Nat
  /\ Nil \notin {"async", "sync", "sse", "Pending", "Running", "Succeeded", "Failed"}

VARIABLES
  trigger,      \* the spec of the trigger
  status,       \* its stored status: [last, count]
  token,        \* does the Secret of a webhook trigger exist?
  before,       \* the status a cache that is behind still shows
  runs,         \* the runs created, by name
  upstream,     \* the team a team-output trigger watches: [phase, done, pruned]
  clock,
  pc, in,       \* the controller's pass
  queued, wakeAt,
  req,          \* the requests
  slots,        \* free SSE slots
  completions,  \* how often the upstream team succeeded
  edits, faults

passVars == <<pc, in, queued, wakeAt>>
storeVars == <<status, before, token>>
webVars == <<req, slots>>
world == <<trigger, upstream, clock, completions, edits>>
vars == <<passVars, storeVars, webVars, world, runs, faults>>

Fault == faults < MaxFaults /\ clock < LastTick(trigger) /\ faults' = faults + 1

Terminal(phase) == phase \in {"Succeeded", "Failed"}

NewRequest == [pc |-> "new", mode |-> Nil, read |-> Nil, todo |-> <<>>, made |-> <<>>, now |-> Nil,
               deadline |-> Nil, told |-> Nil, answer |-> Nil]

Init ==
  /\ trigger \in Triggers
  /\ status = [last |-> Nil, count |-> 0] /\ before = status /\ token = FALSE
  /\ runs = <<>> /\ upstream = [phase |-> "Running", done |-> Nil, pruned |-> FALSE] /\ clock = Start
  /\ pc = "idle" /\ in = Nil /\ queued = TRUE /\ wakeAt = Nil
  /\ req = [r \in Requests |-> NewRequest] /\ slots = SseSlots
  /\ completions = 0 /\ edits = 0 /\ faults = 0

-----------------------------------------------------------------------------
(* What a trigger fires, and when *)

\* The last due time after the last fire, or within a day.
mostRecentSchedule(now, last) ==
  LET lookback == IF last # Nil /\ last > now - Day THEN last ELSE now - Day
      past == {t \in Due : t > lookback /\ t <= now}
  IN  IF past = {} THEN Nil ELSE Max(past)

\* Mutant: the pass does not ask to be called again.
NextDueDropped(now) == Nil

\* The schedule's next time, or Nil beyond the last.
NextDue(now) == LET later == {t \in Due : t > now} IN IF later = {} THEN Nil ELSE Min(later)

ShouldFireCron(s, now) ==
  LET due == mostRecentSchedule(now, s.last)
  IN  due # Nil /\ (s.last = Nil \/ due > s.last)

\* "Don't re-fire for the same completion."
ShouldFireOutput(s) ==
  /\ upstream.phase = "Succeeded"
  /\ ~(upstream.done # Nil /\ s.last # Nil /\ upstream.done <= s.last)

\* Mutant: a run that has no phase yet is not running.
HasRunningRunStarted == \E n \in DOMAIN runs : runs[n].phase = "Running"

hasRunningRun == \E n \in DOMAIN runs : runs[n].phase \in {Nil, "Running"}

\* ConcurrencyPolicy Forbid skips every target.
Targets == IF trigger.forbid /\ hasRunningRun THEN <<>> ELSE trigger.targets

\* buildRun and buildAgentRun name a run after its target and the second.
RunName(target) == <<target, clock>>

\* An existing name is an error.
CreateRun(target) ==
  /\ RunName(target) \notin DOMAIN runs
  /\ runs' = [n \in DOMAIN runs \cup {RunName(target)} |->
               IF n \in DOMAIN runs THEN runs[n] ELSE [phase |-> Nil, step |-> "Pending"]]

Stored(s) ==
  /\ status' = s
  /\ before' = IF s = status THEN before ELSE status

-----------------------------------------------------------------------------
(* A pass of the controller *)

\* Get the trigger, perhaps from a cache that is behind, and decide.
Get(s) ==
  /\ pc = "idle" /\ queued /\ queued' = FALSE
  /\ LET fires == CASE trigger.type = "cron" -> ShouldFireCron(s, clock)
                    [] trigger.type = "team-output" -> ShouldFireOutput(s)
                    [] OTHER -> FALSE
     IN  IF trigger.suspended THEN UNCHANGED <<pc, in, token>>
         ELSE /\ in' = [status |-> s, now |-> clock, fires |-> fires, todo |-> IF fires THEN Targets ELSE <<>>]
              /\ pc' = "fire"
              /\ token' = (token \/ trigger.type = "webhook")
  /\ UNCHANGED <<wakeAt, status, before, webVars, world, runs>>

Reconcile == Get(status) /\ UNCHANGED faults
ReconcileStale == before # status /\ Fault /\ Get(before)

PassFails ==
  /\ pc' = "idle" /\ in' = Nil /\ queued' = TRUE
  /\ UNCHANGED <<wakeAt, storeVars, webVars, world, runs>>

\* fire: one target.  The event of a new run brings the trigger back.
FireTarget ==
  /\ pc = "fire" /\ in.todo # <<>>
  /\ \/ /\ CreateRun(Head(in.todo))
        /\ in' = [in EXCEPT !.todo = Tail(@)] /\ queued' = TRUE
        /\ UNCHANGED <<pc, wakeAt, storeVars, webVars, world>>
     \/ RunName(Head(in.todo)) \in DOMAIN runs /\ PassFails
  /\ UNCHANGED faults

CallFails == pc = "fire" /\ Fault /\ PassFails

\* Mutant: the time of the fire is not written.
StatusAfterCounted ==
  IF in.fires THEN [in.status EXCEPT !.count = @ + 1] ELSE in.status

\* The status as the pass has it.
StatusAfter ==
  IF in.fires THEN [in.status EXCEPT !.last = in.now, !.count = @ + 1] ELSE in.status

\* The trigger is read again and its status replaced by the pass's.
UpdateStatus ==
  /\ pc = "fire" /\ in.todo = <<>>
  /\ Stored(StatusAfter)
  /\ queued' = (queued \/ status' # status)
  /\ wakeAt' = IF trigger.type = "cron" /\ NextDue(in.now) # Nil THEN NextDue(in.now) + 1 ELSE Nil
  /\ pc' = "idle" /\ in' = Nil
  /\ UNCHANGED <<token, webVars, world, runs, faults>>

Pass == Reconcile \/ FireTarget \/ UpdateStatus

-----------------------------------------------------------------------------
(* The webhook server *)

\* The request is over; what it started and told stays known.
Over(r, code) == [NewRequest EXCEPT !.pc = "answered", !.mode = req[r].mode, !.made = req[r].made,
                                    !.told = req[r].told, !.answer = code]

Answer(r, code) == req' = [req EXCEPT ![r] = Over(r, code)]

\* The token of a caller who knows it is compared with the Secret's.
validToken == token

\* ServeHTTP up to the fire: the early returns in their order.
Post(r) ==
  /\ req[r].pc = "new" /\ trigger.type = "webhook" /\ clock + Timeout <= LastTick(trigger)
  /\ \/ trigger.suspended /\ Answer(r, "suspended")
     \/ ~trigger.suspended /\ ~validToken /\ Answer(r, "unauthorized")
     \/ /\ ~trigger.suspended /\ validToken
        /\ \E m \in Modes(r) :
             req' = [req EXCEPT ![r].pc = "fire", ![r].mode = m, ![r].read = status, ![r].todo = Targets,
                                ![r].now = clock]
  /\ UNCHANGED <<passVars, storeVars, slots, world, runs, faults>>

\* A POST that is over the rate or has the wrong path, method or token.
PostRefused(r) ==
  /\ req[r].pc = "new" /\ trigger.type = "webhook" /\ Fault
  /\ Answer(r, "refused")
  /\ UNCHANGED <<passVars, storeVars, slots, world, runs>>

PostFire(r) ==
  /\ req[r].pc = "fire" /\ req[r].todo # <<>>
  /\ \/ /\ CreateRun(Head(req[r].todo))
        /\ req' = [req EXCEPT ![r].todo = Tail(@), ![r].made = Append(@, RunName(Head(req[r].todo)))]
        /\ queued' = TRUE
     \/ /\ RunName(Head(req[r].todo)) \in DOMAIN runs
        /\ Answer(r, "error") /\ UNCHANGED <<runs, queued>>
  /\ UNCHANGED <<pc, in, wakeAt, storeVars, slots, world, faults>>

PostFireFails(r) ==
  /\ req[r].pc = "fire" /\ req[r].todo # <<>> /\ Fault
  /\ Answer(r, "error")
  /\ UNCHANGED <<passVars, storeVars, slots, world, runs>>

\* What the server does once it has fired: async answers, sync and SSE wait
\* for the one run they started.
Proceeds(r) ==
  LET m == req[r].mode
      one == Len(req[r].made) = 1
      waits == [req EXCEPT ![r].pc = "wait", ![r].deadline = clock + Timeout]
  IN  \/ m = "async" /\ Answer(r, "accepted") /\ UNCHANGED slots
      \/ m = "sync" /\ ~one /\ Answer(r, "one target") /\ UNCHANGED slots
      \/ m = "sync" /\ one /\ req' = waits /\ UNCHANGED slots
      \/ m = "sse" /\ slots = 0 /\ Answer(r, "no slot") /\ UNCHANGED slots
      \/ m = "sse" /\ slots > 0 /\ ~one /\ Answer(r, "one target") /\ UNCHANGED slots
      \/ m = "sse" /\ slots > 0 /\ one /\ req' = waits /\ slots' = slots - 1

\* The status update of a request conflicts when the trigger was written
\* since it was read; that is logged.
PostStatus(r) ==
  /\ req[r].pc = "fire" /\ req[r].todo = <<>>
  /\ LET s == [req[r].read EXCEPT !.last = req[r].now, !.count = @ + 1]
     IN  /\ Stored(IF status = req[r].read THEN s ELSE status)
         /\ queued' = (queued \/ status' # status)
  /\ Proceeds(r)
  /\ UNCHANGED <<pc, in, wakeAt, token, world, runs, faults>>

\* A request ends, and gives its slot back.
Ends(r, code) ==
  /\ Answer(r, code)
  /\ slots' = IF req[r].mode = "sse" THEN slots + 1 ELSE slots

RunOf(r) == runs[req[r].made[1]]

\* Mutant: the end of the run is told first.
ObserveEndFirst(r) ==
  /\ req[r].pc = "wait"
  /\ IF Terminal(RunOf(r).phase) THEN Ends(r, RunOf(r).phase)
     ELSE /\ req[r].mode = "sse" /\ req[r].told # RunOf(r).step
          /\ req' = [req EXCEPT ![r].told = RunOf(r).step] /\ UNCHANGED slots
  /\ UNCHANGED <<passVars, storeVars, world, runs, faults>>

\* startTokenStream and drainTokens: no task carries the stream key, so that a
\* stream, where there is one, only ends with the response.
StreamStaysOpen == Streaming

\* A change of the run reaches the request: emitStepEvents, emitRunTerminal
\* and runSyncResult.
Observe(r) ==
  /\ req[r].pc = "wait"
  /\ CASE req[r].mode = "sync" -> Terminal(RunOf(r).phase) /\ Ends(r, RunOf(r).phase)
       [] req[r].mode = "sse" /\ req[r].told # RunOf(r).step /\ ~Terminal(RunOf(r).phase) ->
            req' = [req EXCEPT ![r].told = RunOf(r).step] /\ UNCHANGED slots
       [] req[r].mode = "sse" /\ Terminal(RunOf(r).phase) ->
            IF RunOf(r).phase = "Succeeded" /\ StreamStaysOpen
            THEN req' = [req EXCEPT ![r].told = RunOf(r).step, ![r].pc = "drain"] /\ UNCHANGED slots
            ELSE /\ req' = [req EXCEPT ![r] = [Over(r, RunOf(r).phase) EXCEPT !.told = RunOf(r).step]]
                 /\ slots' = slots + 1
       [] OTHER -> FALSE
  /\ UNCHANGED <<passVars, storeVars, world, runs, faults>>

\* Mutant: the tokens are drained for as long as the stream is open.
DeadlineBeforeDrain(r) ==
  /\ req[r].pc = "wait" /\ clock >= req[r].deadline
  /\ Ends(r, "timeout")
  /\ UNCHANGED <<passVars, storeVars, world, runs, faults>>

\* The deadline of the request's context.
DeadlinePasses(r) ==
  /\ req[r].pc \in {"wait", "drain"} /\ clock >= req[r].deadline
  /\ Ends(r, IF req[r].pc = "drain" THEN "Succeeded" ELSE "timeout")
  /\ UNCHANGED <<passVars, storeVars, world, runs, faults>>

\* The watch closes, or the client goes away.
WatchCloses(r) ==
  /\ req[r].pc = "wait" /\ Fault
  /\ Ends(r, "error")
  /\ UNCHANGED <<passVars, storeVars, world, runs>>

Serve(r) == PostFire(r) \/ PostStatus(r) \/ Observe(r) \/ DeadlinePasses(r)
ServeFails(r) == PostRefused(r) \/ PostFireFails(r) \/ WatchCloses(r)

-----------------------------------------------------------------------------
(* Runs, the upstream team, users and time *)

\* The events of its runs bring the trigger back.  A run that neither the
\* policy nor a request looks at stays as it is.
RunMoves(n) ==
  /\ ~Terminal(runs[n].phase) /\ (trigger.forbid \/ trigger.type = "webhook")
  /\ \E to \in IF runs[n].phase = Nil THEN {[phase |-> "Running", step |-> "Running"]}
              ELSE {[phase |-> p, step |-> p] : p \in {"Succeeded", "Failed"}} :
       runs' = [runs EXCEPT ![n] = to]
  /\ queued' = TRUE
  /\ UNCHANGED <<pc, in, wakeAt, storeVars, webVars, world, faults>>

\* The team ends a run, and starts the next.
UpstreamMoves ==
  /\ trigger.type = "team-output" /\ clock < LastTick(trigger) - 1
  /\ IF upstream.phase = "Running"
     THEN /\ completions < MaxCompletions
          /\ upstream' = [upstream EXCEPT !.phase = "Succeeded", !.done = clock]
          /\ completions' = completions + 1
          /\ queued' = TRUE
     ELSE upstream' = [upstream EXCEPT !.phase = "Running", !.done = Nil] /\ UNCHANGED <<completions, queued>>
  /\ UNCHANGED <<pc, in, wakeAt, storeVars, webVars, trigger, clock, edits, runs, faults>>

\* Retention deletes the run of an upstream team that still shows its phase.
UpstreamPruned ==
  /\ upstream.phase = "Succeeded" /\ upstream.done # Nil /\ Fault
  /\ upstream' = [upstream EXCEPT !.done = Nil, !.pruned = TRUE]
  /\ UNCHANGED <<passVars, storeVars, webVars, trigger, clock, completions, edits, runs>>

EditTrigger ==
  /\ edits < MaxEdits(trigger) /\ edits' = edits + 1
  /\ trigger' = [trigger EXCEPT !.suspended = ~@] /\ queued' = TRUE
  /\ UNCHANGED <<pc, in, wakeAt, storeVars, webVars, upstream, clock, completions, runs, faults>>

\* A pass is short against a second: one that crosses into the next may take
\* the names of the runs of its own repetition.  The clock stops late enough
\* for the deadline of every request.
Tick ==
  /\ clock < LastTick(trigger) /\ clock' = clock + 1
  /\ pc = "idle"
  /\ clock + Timeout < LastTick(trigger) \/ \A r \in Requests : req[r].pc # "fire"
  /\ UNCHANGED <<passVars, storeVars, webVars, trigger, upstream, completions, edits, runs, faults>>

WakeUp ==
  /\ wakeAt # Nil /\ clock >= wakeAt /\ wakeAt' = Nil /\ queued' = TRUE
  /\ UNCHANGED <<pc, in, storeVars, webVars, world, runs, faults>>

\* A new operator process: its requests are cut off and their slots are new.
Restart ==
  /\ Fault
  /\ pc' = "idle" /\ in' = Nil /\ queued' = TRUE /\ wakeAt' = Nil
  /\ req' = [r \in Requests |-> IF req[r].pc \in {"new", "answered"} THEN req[r]
                                ELSE Over(r, "cut off")]
  /\ slots' = SseSlots
  /\ UNCHANGED <<storeVars, world, runs>>

Next ==
  \/ Pass \/ ReconcileStale \/ CallFails
  \/ \E r \in Requests : Post(r) \/ Serve(r) \/ ServeFails(r)
  \/ \E n \in DOMAIN runs : RunMoves(n)
  \/ UpstreamMoves \/ UpstreamPruned \/ EditTrigger \/ Tick \/ WakeUp \/ Restart

\* The controller works on what is queued, the server on its requests, and
\* time goes on between the passes (a failed one is repeated after a back-off).
\* Nothing makes a run end.
Spec == Init /\ [][Next]_vars
  /\ WF_<<pc, in, queued>>(Pass) /\ WF_wakeAt(WakeUp) /\ SF_clock(Tick)
  /\ WF_req(\E r \in Requests : Serve(r))

-----------------------------------------------------------------------------
RunsFor(target) == {n \in DOMAIN runs : n[1] = target}

\* What there was to fire for.
Causes ==
  CASE trigger.type = "cron" -> Cardinality({t \in Due : t <= clock})
    [] trigger.type = "team-output" -> completions
    [] OTHER -> Cardinality({r \in Requests : req[r].pc # "new"})

(* A target gets no more runs than there were due times, completions or POSTs, *)
(* and one more for every failed call, conflict, stale read or restart: a pass *)
(* that repeats what was done before its status was stored does it once        *)
(* (reconcileCron, reconcileTeamOutput, fire).                                 *)
RunsAreAccounted ==
  ~upstream.pruned =>
    \A target \in ToSet(trigger.targets) : Cardinality(RunsFor(target)) <= Causes + faults

(* With the policy Forbid the schedule never has two runs of a target under    *)
(* way, also while the first has no phase yet.                                 *)
ForbidHolds ==
  trigger.forbid /\ trigger.type # "webhook" =>
    \A target \in ToSet(trigger.targets) :
      Cardinality({n \in RunsFor(target) : ~Terminal(runs[n].phase)}) <= 1

(* What a caller is told is what became of the one run its POST started, after *)
(* the events of its steps; and a slot is taken for as long as an SSE response *)
(* is open, however it ends (waitForRun, handleSSE).                           *)
AnswerIsTrue ==
  /\ \A r \in Requests : req[r].answer \in {"Succeeded", "Failed"} =>
       /\ Len(req[r].made) = 1 /\ RunOf(r).phase = req[r].answer
       /\ req[r].mode = "sse" => req[r].told = RunOf(r).step
  /\ slots + Cardinality({r \in Requests : req[r].mode = "sse" /\ req[r].pc \in {"wait", "drain"}}) = SseSlots

(* A schedule that stays active is honoured: whatever failed, was repeated or  *)
(* was suspended meanwhile, the trigger comes to fire at or after its last due *)
(* time.                                                                       *)
DueIsFired ==
  <>[](trigger.type = "cron" /\ ~trigger.suspended) => <>(status.last # Nil /\ status.last >= Max(Due))

(* Every POST is answered, also when its run never ends.                       *)
EveryPostAnswered == []<>(\A r \in Requests : req[r].pc \in {"new", "answered"})

(* Firing again after a lost status update, and the check for a run under way, *)
(* keep the number of runs within what was asked for.                          *)
FiresAreBounded == RunsAreAccounted /\ ForbidHolds

(* Nothing that asks for a run is forgotten, on the schedule or on a POST.     *)
RequestsAreServed == DueIsFired /\ EveryPostAnswered
=============================================================================
