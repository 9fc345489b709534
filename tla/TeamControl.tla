----------------------------- MODULE TeamControl -----------------------------
(***************************************************************************)
(* The SwarmTeam controller over one team, with the SwarmRegistry          *)
(* controller beside it (internal/controller/swarmteam_controller.go,      *)
(* swarmregistry_controller.go).                                           *)
(*                                                                         *)
(* A team pass creates and updates the agents of inline roles, tells every *)
(* agent which queue to poll, deletes old runs, scales the agents to the   *)
(* steps that are active and mirrors the latest run into the team's        *)
(* status.  Runs advance meanwhile: a step waits for a pod of its agent,   *)
(* and needs one that polls the role's queue to end.  Both controllers     *)
(* write annotations of the same agents.                                   *)
(***************************************************************************)
EXTENDS RegistryIndex, Sequences, SequencesExt, Integers

CONSTANTS
  Teams,          \* the specs a team may have
  FirstWorlds,    \* the first spec of the team, and does its registry exist?
  Revisions(_),   \* the specs a user may change a spec to
  OtherAgents,    \* the agents that exist besides those of inline roles
  Registry,       \* the name of the registry
  AgentTaskQueueURL, TaskQueueURL,  \* where pods and operator reach Redis, Nil for unset
  DefaultIdle,    \* ticks before an idle team is scaled to zero
  MaxRuns(_), MaxOpen(_), LastStart(_),  \* the runs a team has, at once too, and the time of the last one
  MaxEdits(_), MaxClock, MaxFaults

VARIABLES
  team,       \* spec of the team
  status,     \* its stored status: [phase, ready, lastRun, lastActive, zero]
  template,   \* does a trigger name the team as a target?
  agents,     \* the SwarmAgents, by name
  runs,       \* the team's runs, by creation order: [phase, steps, done]
  clock,
  pc, in, todo,         \* the team's pass, what it has read, the roles it still has to visit
  fresh, queued, wakeAt, \* as for any controller
  missed,     \* a scaling call failed, and no pass has come to its end since
  buckets,    \* the index of this operator process, by registry
  exists,     \* does the registry exist?
  shown,      \* the stored status of the registry
  rpc, rin, rqueued,    \* the registry's pass
  edits, faults

teamVars == <<status, pc, in, todo, fresh, queued, wakeAt, missed>>
registryVars == <<buckets, exists, shown, rpc, rin, rqueued>>
world == <<team, template, runs, clock, edits>>
vars == <<teamVars, registryVars, agents, world, faults>>

Fault == faults < MaxFaults /\ faults' = faults + 1

Or(v, default) == IF v = Nil THEN default ELSE v

\* f with v at x.
Put(f, x, v) == [y \in DOMAIN f \cup {x} |-> IF y = x THEN v ELSE f[y]]

Terminal(phase) == phase \in {"Succeeded", "Failed"}

NoNotes == [queue |-> Nil, routes |-> Nil, role |-> Nil, store |-> Nil, claim |-> Nil, credentials |-> Nil]

\* A run as its team sees it.
RunPhases == {"Pending", "Running", "Succeeded", "Failed"}
StepPhases == RunPhases \cup {"WarmingUp", "Validating", "Skipped"}
StepNames == UNION {{p.name : p \in ToSet(t.pipeline)} : t \in Teams}
Run == [phase : RunPhases, done : Nat \cup {Nil},
        steps : UNION {[names -> StepPhases] : names \in SUBSET StepNames}]

\* The agents of inline roles are the team's own.
ASSUME TeamAssumption ==
  /\ \A w \in FirstWorlds : w.team \in Teams
  /\ \A t \in Teams :
       /\ Revisions(t) \subseteq Teams
       /\ t.mode \in {"pipeline", "dynamic", "routed"}
       /\ t.roles \in Seq(ToSet(t.roles))
       /\ t.keepSucceeded \in Nat /\ t.keepFailed \in Nat
       /\ \A role \in ToSet(t.roles) : role.agent = Nil => role.name \notin DOMAIN OtherAgents
  /\ \A a \in DOMAIN OtherAgents :
       /\ DOMAIN OtherAgents[a] = {"def", "replicas", "registry", "keda", "caps", "ready", "notes"}
       /\ DOMAIN OtherAgents[a].notes = DOMAIN NoNotes
  /\ Nil \notin Run

NewTeamStatus == [phase |-> Nil, ready |-> Nil, lastRun |-> Nil, lastActive |-> Nil, zero |-> FALSE]

Init ==
  /\ \E w \in FirstWorlds : team = w.team /\ exists = w.exists
  /\ status = NewTeamStatus /\ template = FALSE
  /\ agents = OtherAgents /\ runs = <<>> /\ clock = 0
  /\ pc = "idle" /\ in = Nil /\ todo = <<>> /\ fresh = TRUE /\ queued = TRUE /\ wakeAt = Nil /\ missed = FALSE
  /\ buckets = <<>> /\ shown = Nil
  /\ rpc = "idle" /\ rin = Nil /\ rqueued = TRUE
  /\ edits = 0 /\ faults = 0

-----------------------------------------------------------------------------
(* What a team's spec asks for *)

DetectCycle(adj) ==
  \E s \in SUBSET DOMAIN adj : s # {} /\ \A n \in s : adj[n] \cap s # {}

\* The names of a sequence of records differ.
Distinct(records) ==
  \A i, j \in DOMAIN records : i # j => records[i].name # records[j].name

RoleNames(t) == {r.name : r \in ToSet(t.roles)}
RoleOf(t, name) == CHOOSE r \in ToSet(t.roles) : r.name = name

validatePipelineDAG(t) ==
  /\ \A s \in ToSet(t.pipeline) : s.dependsOn \subseteq {p.name : p \in ToSet(t.pipeline)}
  /\ ~DetectCycle([n \in {p.name : p \in ToSet(t.pipeline)} |->
                     UNION {p.dependsOn : p \in {q \in ToSet(t.pipeline) : q.name = n}}])

validateTopology(t) ==
  /\ Distinct(t.roles)
  /\ IF t.entry # Nil THEN t.entry \in RoleNames(t) ELSE t.roles = <<>> \/ t.search
  /\ \A r \in ToSet(t.roles) : r.canDelegate \subseteq RoleNames(t)
  /\ ~DetectCycle([n \in RoleNames(t) |-> RoleOf(t, n).canDelegate])

roleQueueURL(role) ==
  IF Or(AgentTaskQueueURL, TaskQueueURL) = Nil THEN Nil ELSE <<"team", role>>

\* The artifact store's URL, claim and credentials.
artifactStoreURL(store) ==
  IF store = Nil \/ (store.type = "s3" /\ store.bucket = Nil) THEN Nil ELSE store.type

artifactStoreClaim(store) == IF store # Nil /\ store.type = "local" THEN store.claim ELSE Nil

artifactStoreCredentials(store) == IF store # Nil /\ store.type = "s3" THEN store.secret ELSE Nil

Wanted(t, role) ==
  [queue |-> roleQueueURL(role.name), routes |-> [n \in role.canDelegate |-> roleQueueURL(n)],
   role |-> role.name, store |-> artifactStoreURL(t.store), claim |-> artifactStoreClaim(t.store),
   credentials |-> artifactStoreCredentials(t.store)]

\* Mutant: an agent that has a queue has all it needs.
AnnotatedOnce(notes, wanted) ==
  [f \in DOMAIN wanted |-> IF notes.queue # Nil \/ wanted[f] = Nil THEN notes[f] ELSE wanted[f]]

\* Annotations of a store are set and never removed.
Annotated(notes, wanted) ==
  [f \in DOMAIN wanted |->
    IF f \in {"store", "claim", "credentials"} /\ wanted[f] = Nil THEN notes[f] ELSE wanted[f]]

Inline(role) == role.agent = Nil

\* An inline role's agent is named after the role.
resolveRoleAgentName(role) == IF Inline(role) THEN role.name ELSE role.agent

InlineAgent(t, role) ==
  [def |-> role.def, replicas |-> role.replicas, registry |-> t.registry, keda |-> role.keda,
   caps |-> {}, ready |-> 0, notes |-> NoNotes]

\* The autoscaler owns the replica count of a team that has it.
reconcileRoleAgent(t, role) ==
  LET a == role.name
  IN  IF ~Inline(role) THEN agents
      ELSE IF a \notin DOMAIN agents THEN Put(agents, a, InlineAgent(t, role))
      ELSE [agents EXCEPT ![a].def = role.def, ![a].registry = t.registry, ![a].keda = role.keda,
                          ![a].replicas = IF t.autoscaling = Nil THEN role.replicas ELSE @]

-----------------------------------------------------------------------------
(* Runs: how many steps are active, which one is the latest, which may go *)

Live(rs) == {i \in DOMAIN rs : rs[i] # Nil}

\* A step the autoscaler counts.
Active(phase) == phase \in {"Running", "WarmingUp", "Validating"}

countActiveStepsByRole(rs, role) ==
  Cardinality({i \in Live(rs) : role \in DOMAIN rs[i].steps /\ Active(rs[i].steps[role])})

AnyActive(rs) == \E i \in Live(rs) : \E n \in DOMAIN rs[i].steps : Active(rs[i].steps[n])

latestRunFromList(rs) == IF Live(rs) = {} THEN Nil ELSE Max(Live(rs))

mirrorRunPhaseToTeam(s, rs) ==
  LET latest == latestRunFromList(rs)
  IN  IF latest = Nil THEN [s EXCEPT !.phase = "Ready"]
      ELSE [s EXCEPT !.lastRun = latest,
                     !.phase = IF rs[latest].phase \in {"Running", "Succeeded", "Failed"}
                               THEN rs[latest].phase ELSE "Ready"]

\* Of these runs all but the limit newest; equal times in either order.
Excess(rs, set, limit) ==
  {d \in SUBSET set :
     /\ Cardinality(d) = IF Cardinality(set) > limit THEN Cardinality(set) - limit ELSE 0
     /\ \A i \in d, j \in set \ d : rs[i].done <= rs[j].done}

\* Mutant: the newest go first.
PruneRunsOldestKept(t, rs, now) ==
  LET done == {i \in Live(rs) : Terminal(rs[i].phase)}
      aged == {i \in done : t.retain # Nil /\ now - rs[i].done > t.retain}
      of(phase) == {i \in done \ aged : rs[i].phase = phase}
  IN  {aged \cup {i \in of("Succeeded") : \E j \in of("Succeeded") : j < i /\ Cardinality(of("Succeeded")) > t.keepSucceeded}}

\* Aged runs, and those beyond the history limits; running ones never.
pruneRuns(t, rs, now) ==
  LET done == {i \in Live(rs) : Terminal(rs[i].phase)}
      aged == {i \in done : t.retain # Nil /\ now - rs[i].done > t.retain}
      of(phase) == {i \in done \ aged : rs[i].phase = phase}
  IN  {aged \cup d \cup e : d \in Excess(rs, of("Succeeded"), t.keepSucceeded),
                            e \in Excess(rs, of("Failed"), t.keepFailed)}

ScaleToZero(t) == t.autoscaling # Nil /\ t.autoscaling.zero

IdleAfter(t) == Or(t.autoscaling.after, DefaultIdle)

IdleFor(lastActive, now) == IF lastActive = Nil THEN 0 ELSE now - lastActive

computeRoleDesired(t, role, rs, idleFor) ==
  LET active == countActiveStepsByRole(rs, role.name)
      limit == Or(role.concurrent, 5)
  IN  IF active > 0 THEN Min({(active + limit - 1) \div limit, Or(role.replicas, 1)})
      ELSE IF ScaleToZero(t) /\ idleFor >= IdleAfter(t) THEN 0
      ELSE Or(role.replicas, 1)

-----------------------------------------------------------------------------
(* A pass of the team's controller *)

\* An event of the objects a controller watches.
AgentsChange(new) ==
  /\ agents' = new
  /\ rqueued' = (rqueued \/ new # agents)

\* Mutant: only a creation or a deletion is heard of.
OwnedExistence(new) == DOMAIN new # DOMAIN agents

\* The agents of inline roles are owned by the team.
OwnedChange(new) == \E a \in (DOMAIN new \cup DOMAIN agents) \ DOMAIN OtherAgents :
                      ~(a \in DOMAIN new /\ a \in DOMAIN agents /\ new[a] = agents[a])

\* Status().Update: a conflict is an error, a change an event.
PassEnds(s, failed, after) ==
  /\ pc' = "idle" /\ in' = Nil /\ todo' = <<>>
  /\ status' = IF fresh THEN s ELSE status
  /\ queued' = (queued \/ failed \/ ~fresh \/ status' # status)
  /\ wakeAt' = after
  /\ UNCHANGED fresh

\* A spec that is not valid is told in the condition Ready and not retried.
Refused(reason) ==
  /\ status' = [status EXCEPT !.ready = reason]
  /\ queued' = (status' # status)
  /\ UNCHANGED <<pc, in, todo>>

Reconcile ==
  /\ pc = "idle" /\ queued
  /\ wakeAt' = Nil /\ fresh' = TRUE
  /\ CASE team.mode = "dynamic" /\ status.phase = Nil /\ template ->
            queued' = FALSE /\ UNCHANGED <<status, pc, in, todo>>
       [] team.mode = "dynamic" /\ ~(status.phase = Nil /\ template) /\ ~validateTopology(team) ->
            Refused("InvalidTopology")
       [] team.mode = "pipeline" /\ ~validatePipelineDAG(team) -> Refused("InvalidDAG")
       [] OTHER ->
            /\ queued' = FALSE
            /\ in' = [team |-> team, status |-> status, runs |-> <<>>, now |-> 0,
                      zero |-> TRUE]
            /\ todo' = IF team.mode = "routed" THEN <<>> ELSE team.roles
            /\ pc' = IF team.mode = "routed" THEN "list" ELSE "roles"
            /\ UNCHANGED status
  /\ UNCHANGED <<missed, registryVars, agents, world, faults>>

\* One role of reconcileRoles.  An agent that was just created may not be in
\* the cache yet, and is annotated when its event has brought the team back.
ReconcileRole(cached) ==
  /\ pc = "roles" /\ todo # <<>>
  /\ LET role == Head(todo)
         a == resolveRoleAgentName(role)
         made == reconcileRoleAgent(in.team, role)
         found == a \in DOMAIN made /\ (a \in DOMAIN agents \/ cached)
         new == IF found THEN [made EXCEPT ![a].notes = Annotated(@, Wanted(in.team, role))] ELSE made
     IN  /\ AgentsChange(new)
         /\ queued' = (queued \/ OwnedChange(new))
  /\ todo' = Tail(todo)
  /\ UNCHANGED <<missed, status, pc, in, fresh, wakeAt, buckets, exists, shown, rpc, rin, world, faults>>

\* A call of reconcileRoles or the list of runs fails.
CallFails ==
  /\ pc \in {"roles", "list"} /\ Fault
  /\ PassEnds(IF pc = "list" \/ todo = <<>> THEN status
              ELSE [in.status EXCEPT !.ready = IF in.team.mode = "pipeline" THEN "RolesNotReady"
                                               ELSE "ReconcileError"], TRUE, Nil)
  /\ UNCHANGED <<missed, registryVars, agents, world>>

ListRuns ==
  /\ pc = "list" \/ (pc = "roles" /\ todo = <<>> /\ in.team.mode = "pipeline")
  /\ in' = [in EXCEPT !.runs = runs, !.now = clock,
                      !.status.lastActive = IF in.team.autoscaling # Nil /\ AnyActive(runs) THEN clock ELSE @]
  /\ pc' = "prune"
  /\ UNCHANGED <<missed, status, todo, fresh, queued, wakeAt, registryVars, agents, world, faults>>

\* A call that fails ends the deletions, and nothing else.
Prune(set) ==
  /\ runs' = [i \in DOMAIN runs |-> IF i \in set THEN Nil ELSE runs[i]]
  /\ queued' = (queued \/ runs' # runs)
  /\ IF in.team.mode = "pipeline" /\ in.team.autoscaling # Nil
     THEN pc' = "scale" /\ todo' = in.team.roles
     ELSE pc' = "finish" /\ UNCHANGED todo
  /\ UNCHANGED <<missed, status, in, fresh, wakeAt, registryVars, agents, team, template, clock, edits>>

PruneRuns ==
  /\ pc = "prune"
  /\ \E set \in pruneRuns(in.team, in.runs, in.now) : Prune(set)
  /\ UNCHANGED faults

PruneFails ==
  /\ pc = "prune" /\ Fault
  /\ \E set \in pruneRuns(in.team, in.runs, in.now) : \E some \in SUBSET set : some # set /\ Prune(some)

\* One role of reconcileAutoscaling: computeRoleDesired and applyRoleScale.
ScaleRole ==
  /\ pc = "scale" /\ todo # <<>>
  /\ LET role == Head(todo)
         a == role.name
         managed == Inline(role) /\ a \in DOMAIN agents /\ ~agents[a].keda
         desired == computeRoleDesired(in.team, role, in.runs, IdleFor(in.status.lastActive, in.now))
         new == IF managed /\ Or(agents[a].replicas, 1) # desired
                THEN [agents EXCEPT ![a].replicas = desired] ELSE agents
     IN  /\ AgentsChange(new)
         /\ queued' = (queued \/ OwnedChange(new))
         /\ in' = [in EXCEPT !.zero = @ /\ managed /\ desired = 0]
  /\ todo' = Tail(todo)
  /\ UNCHANGED <<missed, status, pc, fresh, wakeAt, buckets, exists, shown, rpc, rin, world, faults>>

\* Logged: the pass goes on, and nothing brings the team back.
ScaleFails ==
  /\ pc = "scale" /\ todo # <<>> /\ Fault
  /\ pc' = "finish" /\ todo' = <<>> /\ missed' = TRUE
  /\ UNCHANGED <<status, in, fresh, queued, wakeAt, registryVars, agents, world>>

\* reconcileAutoscaling is through, or skipped, or failed.  The idle countdown
\* brings the team back.
Finish ==
  LET scaled == pc = "scale" /\ todo = <<>>
      zero == ScaleToZero(in.team) /\ in.zero
      left == IdleAfter(in.team) - IdleFor(in.status.lastActive, in.now)
      s == [in.status EXCEPT !.ready = "Reconciled", !.zero = IF scaled THEN zero ELSE @]
  IN  /\ pc = "finish" \/ scaled \/ (pc = "roles" /\ todo = <<>> /\ in.team.mode = "dynamic")
      /\ PassEnds(IF in.team.mode = "dynamic" THEN [s EXCEPT !.phase = "Ready"]
                  ELSE mirrorRunPhaseToTeam(s, in.runs), FALSE,
                  IF scaled /\ ScaleToZero(in.team) /\ ~AnyActive(in.runs) /\ ~zero /\ left > 0
                  THEN in.now + left + 1 ELSE Nil)
      /\ missed' = (missed /\ ~scaled)
      /\ UNCHANGED <<registryVars, agents, world, faults>>

TeamPass ==
  \/ Reconcile \/ ListRuns \/ PruneRuns \/ ScaleRole \/ Finish
  \/ \E cached \in BOOLEAN : ReconcileRole(cached)

TeamFails == CallFails \/ PruneFails \/ ScaleFails

-----------------------------------------------------------------------------
(* A pass of the registry's controller *)

\* Rebuild the bucket.  A registry that is gone is not found, and its bucket
\* stays until the operator restarts.
RegistryGet ==
  /\ rpc = "idle" /\ rqueued /\ rqueued' = FALSE
  /\ IF exists
     THEN /\ buckets' = Put(buckets, Registry, Rebuild(agents, Registry))
          /\ rin' = [contents |-> Contents(agents, Registry),
                     left |-> {a \in Registered(agents, Registry) : agents[a].notes.queue = Nil
                                 /\ Or(AgentTaskQueueURL, TaskQueueURL) # Nil}]
          /\ rpc' = "annotate"
     ELSE UNCHANGED <<buckets, rin, rpc>>
  /\ UNCHANGED <<teamVars, exists, shown, agents, world, faults>>

\* A registered agent of no team gets a queue of its own.  The patch is made
\* from the list read before: a team that annotated the agent meanwhile is
\* overwritten, and hears of it if it owns the agent.
RegistryAnnotate(a) ==
  /\ rpc = "annotate" /\ a \in rin.left
  /\ rin' = [rin EXCEPT !.left = @ \ {a}]
  /\ LET new == IF a \in DOMAIN agents THEN [agents EXCEPT ![a].notes.queue = <<"agent", a>>] ELSE agents
     IN  AgentsChange(new) /\ queued' = (queued \/ OwnedChange(new))
  /\ UNCHANGED <<missed, status, pc, in, todo, fresh, wakeAt, buckets, exists, shown, rpc, world, faults>>

\* A patch that fails is logged.
RegistryAnnotateFails(a) ==
  /\ rpc = "annotate" /\ a \in rin.left /\ Fault
  /\ rin' = [rin EXCEPT !.left = @ \ {a}]
  /\ UNCHANGED <<teamVars, buckets, exists, shown, rpc, rqueued, agents, world>>

\* Mutant: a change of the fleet is not a change.
RegistryStatusSparse ==
  /\ rpc = "annotate" /\ rin.left = {}
  /\ LET new == rin.contents
     IN  shown' = IF exists /\ (shown = Nil \/ shown.capabilities # new.capabilities) THEN new ELSE shown
  /\ rqueued' = (rqueued \/ shown' # shown)
  /\ rpc' = "idle" /\ rin' = Nil
  /\ UNCHANGED <<teamVars, buckets, exists, agents, world, faults>>

\* The status is written only when it changes.
RegistryStatus ==
  /\ rpc = "annotate" /\ rin.left = {}
  /\ shown' = IF exists THEN rin.contents ELSE shown
  /\ rqueued' = (rqueued \/ shown' # shown)
  /\ rpc' = "idle" /\ rin' = Nil
  /\ UNCHANGED <<teamVars, buckets, exists, agents, world, faults>>

RegistryStatusFails ==
  /\ rpc = "annotate" /\ rin.left = {} /\ Fault
  /\ rqueued' = TRUE /\ rpc' = "idle" /\ rin' = Nil
  /\ UNCHANGED <<teamVars, buckets, exists, shown, agents, world>>

RegistryPass ==
  \/ RegistryGet \/ RegistryStatus
  \/ \E a \in DOMAIN agents : RegistryAnnotate(a)

RegistryFails ==
  \/ RegistryStatusFails
  \/ \E a \in DOMAIN agents : RegistryAnnotateFails(a)

-----------------------------------------------------------------------------
(* What goes on around the controllers: runs, pods, users, time *)

\* Every change of a run brings its team back.
RunsChange(new) ==
  /\ runs' = new /\ queued' = TRUE
  /\ UNCHANGED <<missed, status, pc, in, todo, fresh, wakeAt, registryVars, agents, team, template, clock, edits, faults>>

CreateRun ==
  /\ Len(runs) < MaxRuns(team) /\ clock <= LastStart(team)
  /\ Cardinality({i \in Live(runs) : ~Terminal(runs[i].phase)}) < MaxOpen(team)
  /\ RunsChange(Append(runs, [phase |-> "Pending", done |-> Nil,
                              steps |-> [n \in {p.name : p \in ToSet(team.pipeline)} |-> "Pending"]]))

\* The agent of a role: is there a pod, and does it poll the role's queue?
Pods(role) == role \in RoleNames(team) /\ resolveRoleAgentName(RoleOf(team, role)) \in DOMAIN agents /\
              agents[resolveRoleAgentName(RoleOf(team, role))].ready > 0
Polls(role) == /\ Pods(role)
               /\ agents[resolveRoleAgentName(RoleOf(team, role))].notes.queue = roleQueueURL(role)

StepStarts(i, n) ==
  /\ i \in Live(runs) /\ ~Terminal(runs[i].phase) /\ n \in DOMAIN runs[i].steps /\ runs[i].steps[n] = "Pending"
  /\ RunsChange([runs EXCEPT ![i].phase = "Running",
                             ![i].steps[n] = IF Pods(n) THEN "Running" ELSE "WarmingUp"])

StepRuns(i, n) ==
  /\ i \in Live(runs) /\ n \in DOMAIN runs[i].steps /\ runs[i].steps[n] = "WarmingUp" /\ Pods(n)
  /\ RunsChange([runs EXCEPT ![i].steps[n] = "Running"])

StepEnds(i, n) ==
  /\ i \in Live(runs) /\ n \in DOMAIN runs[i].steps /\ runs[i].steps[n] = "Running" /\ Polls(n)
  /\ \E p \in {"Succeeded", "Failed"} : RunsChange([runs EXCEPT ![i].steps[n] = p])

RunEnds(i) ==
  /\ i \in Live(runs) /\ ~Terminal(runs[i].phase)
  /\ \A n \in DOMAIN runs[i].steps : Terminal(runs[i].steps[n])
  /\ RunsChange([runs EXCEPT ![i].done = clock,
        ![i].phase = IF \E n \in DOMAIN runs[i].steps : runs[i].steps[n] = "Failed" THEN "Failed" ELSE "Succeeded"])

\* The agent controller and Kubernetes bring the pods to the replica count.
PodsFollow(a) ==
  /\ a \in DOMAIN agents /\ agents[a].ready # Or(agents[a].replicas, 1)
  /\ LET new == [agents EXCEPT ![a].ready = Or(agents[a].replicas, 1)]
     IN  AgentsChange(new) /\ queued' = (queued \/ OwnedChange(new))
  /\ UNCHANGED <<missed, status, pc, in, todo, fresh, wakeAt, buckets, exists, shown, rpc, rin, world, faults>>

Edited == edits < MaxEdits(team) /\ edits' = edits + 1

EditTeam ==
  /\ Edited /\ team' \in Revisions(team)
  /\ queued' = TRUE /\ fresh' = FALSE
  /\ UNCHANGED <<missed, status, pc, in, todo, wakeAt, registryVars, agents, template, runs, clock, faults>>

\* A trigger comes to name the team, or stops to.
EditTrigger ==
  /\ Edited /\ team.mode = "dynamic" /\ template' = ~template /\ queued' = TRUE
  /\ UNCHANGED <<missed, status, pc, in, todo, fresh, wakeAt, registryVars, agents, team, runs, clock, faults>>

DeleteAgent(a) ==
  /\ Edited /\ a \in DOMAIN agents \ DOMAIN OtherAgents
  /\ AgentsChange([n \in DOMAIN agents \ {a} |-> agents[n]]) /\ queued' = TRUE
  /\ UNCHANGED <<missed, status, pc, in, todo, fresh, wakeAt, buckets, exists, shown, rpc, rin, team, template, runs, clock, faults>>

DeleteRegistry ==
  /\ Edited /\ exists /\ exists' = FALSE /\ rqueued' = TRUE
  /\ UNCHANGED <<teamVars, buckets, shown, rpc, rin, agents, team, template, runs, clock, faults>>

\* A tick is long against a pass: what is queued is done before.  After
\* LastStart time goes on when the runs are done.
Tick ==
  /\ pc = "idle" /\ ~queued /\ clock < MaxClock /\ (team.autoscaling # Nil \/ team.retain # Nil) /\ clock' = clock + 1
  /\ clock < LastStart(team) \/ \A i \in Live(runs) : Terminal(runs[i].phase)
  /\ UNCHANGED <<teamVars, registryVars, agents, team, template, runs, edits, faults>>

WakeUp ==
  /\ wakeAt # Nil /\ clock >= wakeAt /\ queued' = TRUE /\ wakeAt' = Nil
  /\ UNCHANGED <<missed, status, pc, in, todo, fresh, registryVars, agents, world, faults>>

\* A new operator process reads every object again and starts with an empty
\* index.
Restart ==
  /\ Fault
  /\ pc' = "idle" /\ in' = Nil /\ todo' = <<>> /\ queued' = TRUE /\ wakeAt' = Nil /\ fresh' = TRUE
  /\ rpc' = "idle" /\ rin' = Nil /\ rqueued' = TRUE /\ buckets' = <<>>
  /\ UNCHANGED <<missed, status, exists, shown, agents, world>>

StepMoves == \E i \in DOMAIN runs :
  \/ RunEnds(i)
  \/ \E n \in RoleNames(team) : StepStarts(i, n) \/ StepRuns(i, n) \/ StepEnds(i, n)

Edits == EditTeam \/ EditTrigger \/ DeleteRegistry \/ \E a \in DOMAIN agents : DeleteAgent(a)

Next ==
  \/ TeamPass \/ TeamFails \/ RegistryPass \/ RegistryFails
  \/ CreateRun \/ StepMoves \/ Edits \/ Tick \/ WakeUp \/ Restart
  \/ \E a \in DOMAIN agents : PodsFollow(a)

\* A controller runs what is queued; Kubernetes, pods and time go on.
Spec == Init /\ [][Next]_vars
  /\ WF_<<pc, todo, queued>>(TeamPass) /\ WF_<<rpc, rin, rqueued>>(RegistryPass) /\ WF_clock(Tick) /\ WF_wakeAt(WakeUp)
  /\ WF_runs(StepMoves) /\ WF_agents(\E a \in DOMAIN agents : PodsFollow(a))

-----------------------------------------------------------------------------
Managed(t) == IF t.mode = "pipeline" THEN validatePipelineDAG(t) ELSE t.mode = "dynamic" /\ validateTopology(t)

Routes(a) == [queue |-> agents[a].notes.queue, routes |-> agents[a].notes.routes, role |-> agents[a].notes.role]

AskedOf(role) == [queue |-> roleQueueURL(role.name), role |-> role.name,
                  routes |-> [n \in role.canDelegate |-> roleQueueURL(n)]]

(* A controller with nothing to do has nothing left to do.  While no pass of   *)
(* the team runs or is queued, every inline role has its agent, with the       *)
(* role's definition and polling the role's queue, whatever the registry's     *)
(* controller, a failed call or a deletion did meanwhile, and the status shows *)
(* the latest run that still exists.                                           *)
TeamIsCurrent ==
  pc = "idle" /\ ~queued /\ (team.mode = "dynamic" => status.phase # Nil) =>
    /\ Managed(team) =>
         \A role \in ToSet(team.roles) : Inline(role) =>
           /\ role.name \in DOMAIN agents
           /\ agents[role.name].def = role.def /\ agents[role.name].registry = team.registry
           /\ Routes(role.name) = AskedOf(role)
    /\ team.mode = "routed" \/ (team.mode = "pipeline" /\ Managed(team)) =>
         status = [mirrorRunPhaseToTeam(status, runs) EXCEPT !.ready = "Reconciled"]

(* Retention never takes a run that is not done, and takes one within the      *)
(* retention time only when as many as the limit allows, done no earlier, stay *)
(* (pruneRuns on a list that may be old by the time of the deletion).          *)
PruneKeeps ==
  [][\A i \in DOMAIN runs : runs[i] # Nil /\ runs'[i] = Nil =>
       LET kept == {j \in Live(runs') : runs'[j].phase = runs[i].phase /\ runs'[j].done >= runs[i].done}
           limit == IF runs[i].phase = "Succeeded" THEN in.team.keepSucceeded ELSE in.team.keepFailed
       IN  /\ Terminal(runs[i].phase)
           /\ \/ in.team.retain # Nil /\ clock - runs[i].done > in.team.retain
              \/ Cardinality(kept) >= limit]_vars

(* Whatever the autoscaler scales down, and whichever controller writes the    *)
(* queue annotation last, the runs of a team with inline roles end: a step that*)
(* waits counts as active, which brings a pod, and the pod comes to poll the   *)
(* role's queue.                                                               *)
RunsAreServed ==
  []<>(Managed(team) => \A i \in Live(runs) : Terminal(runs[i].phase))

(* A team that was active and no longer is gets to zero replicas and stays     *)
(* there, unless a scaling call failed, which is logged and not repeated: the  *)
(* countdown's requeue is never lost to another pass, and the update of the    *)
(* inline agents does not undo the autoscaler's count.                         *)
IdleScalesToZero ==
  <>[](Managed(team) /\ ScaleToZero(team) /\ ~AnyActive(runs) /\ status.lastActive # Nil /\ ~missed) =>
  <>[](\A role \in ToSet(team.roles) : Inline(role) /\ ~role.keda =>
         role.name \in DOMAIN agents /\ agents[role.name].replicas = 0)

(* While its controller has nothing to do, the index that runs look agents up  *)
(* in and the registry's status are those of the agents as they are now, after *)
(* a restart as well.                                                          *)
IndexIsCurrent ==
  rpc = "idle" /\ ~rqueued /\ exists =>
    /\ Registry \in DOMAIN buckets /\ buckets[Registry] = Rebuild(agents, Registry)
    /\ shown = Contents(agents, Registry)

(* Both controllers, which share the agents' annotations, come to rest only    *)
(* when roles, status and index agree with the objects of that moment.         *)
ControlIsCurrent == TeamIsCurrent /\ IndexIsCurrent

(* The autoscaler follows the runs both ways: up for those that wait, down to  *)
(* zero when none is left.                                                     *)
TeamFollowsRuns == RunsAreServed /\ IdleScalesToZero
=============================================================================
