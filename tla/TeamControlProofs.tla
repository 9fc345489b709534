------------------------- MODULE TeamControlProofs -------------------------
(***************************************************************************)
(* Proofs about module TeamControl, for any team specs, agents, runs,      *)
(* edits and faults: both controllers come to rest only when the objects   *)
(* agree with one another (ControlAtRest), and retention takes no run that *)
(* it must keep (PruningSpares).                                           *)
(***************************************************************************)
EXTENDS TeamControl, FiniteSetTheorems, TLAPS

-----------------------------------------------------------------------------
(* Types *)

Role == UNION {ToSet(t.roles) : t \in Teams}

IsAgent(x) ==
  /\ DOMAIN x = {"def", "replicas", "registry", "keda", "caps", "ready", "notes"}
  /\ DOMAIN x.notes = DOMAIN NoNotes

IsStatus(s) == s = [f \in DOMAIN NewTeamStatus |-> s[f]]

IsPass(x) ==
  /\ DOMAIN x = {"team", "status", "runs", "now", "zero"}
  /\ x.team \in Teams /\ IsStatus(x.status) /\ x.runs \in Seq(Run \cup {Nil})

TypeOK ==
  /\ team \in Teams /\ IsStatus(status) /\ clock \in Nat
  /\ fresh \in BOOLEAN /\ queued \in BOOLEAN
  /\ \A a \in DOMAIN agents : IsAgent(agents[a])
  /\ runs \in Seq(Run \cup {Nil})
  /\ pc \in {"idle", "roles", "list", "prune", "scale", "finish"}
  /\ pc # "idle" => IsPass(in) /\ todo \in Seq(Role)

-----------------------------------------------------------------------------
(* Invariants *)

\* The agent of the inline role is as the spec t wants it.
Settled(t, role, as) ==
  /\ role.name \in DOMAIN as
  /\ as[role.name].def = role.def /\ as[role.name].registry = t.registry
  /\ as[role.name].notes.queue = roleQueueURL(role.name)
  /\ as[role.name].notes.role = role.name
  /\ as[role.name].notes.routes = [n \in role.canDelegate |-> roleQueueURL(n)]

\* While nothing brings the team back the pass works on what is there, and
\* leaves behind it what it was meant to.
Onwards ==
  /\ team.mode # "routed" =>
       \A role \in ToSet(team.roles) : Inline(role) =>
         Settled(team, role, agents) \/ (pc = "roles" /\ role \in ToSet(todo))
  /\ pc = "list" => team.mode = "routed"
  /\ pc \in {"prune", "scale", "finish"} => team.mode # "dynamic" /\ in.runs = runs

\* What the pass leaves when it is through.
AtRest ==
  /\ Managed(team) => \A role \in ToSet(team.roles) : Inline(role) => Settled(team, role, agents)
  /\ team.mode = "routed" \/ (team.mode = "pipeline" /\ Managed(team)) =>
       status = [mirrorRunPhaseToTeam(status, runs) EXCEPT !.ready = "Reconciled"]

TeamInv ==
  /\ ~fresh => queued
  /\ pc # "idle" /\ fresh => in.team = team
  /\ pc # "idle" /\ ~queued => Onwards
  /\ pc = "idle" /\ ~queued /\ (team.mode = "dynamic" => status.phase # Nil) => AtRest

\* A run that is done is done with all its steps, and is still as the pass listed
\* it when the pass prunes.
PruneInv ==
  /\ \A i \in Live(runs) : Terminal(runs[i].phase) =>
       runs[i].done \in Nat /\ \A n \in DOMAIN runs[i].steps : Terminal(runs[i].steps[n])
  /\ pc = "prune" =>
       /\ in.now = clock
       /\ \A i \in Live(in.runs) : Terminal(in.runs[i].phase) => i \in DOMAIN runs /\ runs[i] = in.runs[i]

-----------------------------------------------------------------------------
(* The registry's controller *)

\* What the pass has read is true until an event says otherwise.
IndexInv ==
  /\ rqueued \in BOOLEAN /\ rpc \in {"idle", "annotate"}
  /\ rpc = "annotate" => DOMAIN rin = {"contents", "left"}
  /\ ~rqueued /\ exists =>
       /\ Registry \in DOMAIN buckets /\ buckets[Registry] = Rebuild(agents, Registry)
       /\ rpc = "annotate" => rin.contents = Contents(agents, Registry)
       /\ rpc = "idle" => shown = Contents(agents, Registry)

LEMMA IndexInitially == Init => IndexInv
  BY DEF Init, IndexInv

\* Whoever changes the agents brings the registry back.
LEMMA AgentsKeepIndex ==
  ASSUME IndexInv, NEW new, AgentsChange(new), UNCHANGED <<buckets, exists, shown, rpc, rin>>
  PROVE  IndexInv'
<1>1. rqueued' \in BOOLEAN /\ (~rqueued' => ~rqueued /\ agents' = agents)
  BY DEF AgentsChange, IndexInv
<1>2. QED
  BY <1>1 DEF IndexInv

LEMMA IndexStep ==
  ASSUME IndexInv, [Next]_vars
  PROVE  IndexInv'
<1>0. ASSUME UNCHANGED <<registryVars, agents>> PROVE IndexInv'
  BY <1>0 DEF IndexInv, registryVars
<1>1. CASE UNCHANGED vars
  BY <1>0, <1>1 DEF vars
<1>2. CASE TeamPass
  <2>1. CASE Reconcile
    BY <1>0, <2>1 DEF Reconcile
  <2>2. CASE ListRuns
    BY <1>0, <2>2 DEF ListRuns
  <2>3. CASE PruneRuns
    BY <1>0, <2>3 DEF PruneRuns, Prune
  <2>4. CASE ScaleRole
    BY <2>4, AgentsKeepIndex DEF ScaleRole
  <2>5. CASE Finish
    BY <1>0, <2>5 DEF Finish
  <2>6. CASE \E cached \in BOOLEAN : ReconcileRole(cached)
    BY <2>6, AgentsKeepIndex DEF ReconcileRole
  <2>7. QED
    BY <1>2, <2>1, <2>2, <2>3, <2>4, <2>5, <2>6 DEF TeamPass
<1>3. CASE TeamFails
  BY <1>0, <1>3 DEF TeamFails, CallFails, PruneFails, Prune, ScaleFails
<1>4. CASE RegistryPass
  <2>1. CASE RegistryGet
    <3>1. CASE exists
      <4>1. buckets' = Put(buckets, Registry, Rebuild(agents, Registry))
        BY <2>1, <3>1 DEF RegistryGet
      <4>2. Registry \in DOMAIN buckets' /\ buckets'[Registry] = Rebuild(agents, Registry)
        BY <4>1 DEF Put
      <4>3. rin'.contents = Contents(agents, Registry) /\ DOMAIN rin' = {"contents", "left"}
        BY <2>1, <3>1 DEF RegistryGet
      <4>4. rpc' = "annotate" /\ rqueued' = FALSE /\ agents' = agents
        BY <2>1, <3>1 DEF RegistryGet
      <4>5. QED
        BY <4>2, <4>3, <4>4 DEF IndexInv
    <3>2. CASE ~exists
      BY <2>1, <3>2 DEF RegistryGet, IndexInv
    <3>3. QED
      BY <3>1, <3>2
  <2>2. CASE RegistryStatus
    <3>1. rqueued' \in BOOLEAN /\ (~rqueued' => ~rqueued /\ shown' = shown)
      BY <2>2 DEF RegistryStatus, IndexInv
    <3>2. QED
      BY <2>2, <3>1 DEF RegistryStatus, IndexInv
  <2>3. ASSUME NEW a \in DOMAIN agents, RegistryAnnotate(a) PROVE IndexInv'
    <3>1. rqueued' \in BOOLEAN /\ (~rqueued' => ~rqueued /\ agents' = agents)
      BY <2>3 DEF RegistryAnnotate, AgentsChange, IndexInv
    <3>2. DOMAIN rin' = DOMAIN rin /\ rin'.contents = rin.contents
      BY <2>3 DEF RegistryAnnotate, IndexInv
    <3>3. QED
      BY <2>3, <3>1, <3>2 DEF RegistryAnnotate, IndexInv
  <2>4. QED
    BY <1>4, <2>1, <2>2, <2>3 DEF RegistryPass
<1>5. CASE RegistryFails
  <2>1. CASE RegistryStatusFails
    BY <2>1 DEF RegistryStatusFails, IndexInv
  <2>2. ASSUME NEW a \in DOMAIN agents, RegistryAnnotateFails(a) PROVE IndexInv'
    <3>1. DOMAIN rin' = DOMAIN rin /\ rin'.contents = rin.contents
      BY <2>2 DEF RegistryAnnotateFails, IndexInv
    <3>2. QED
      BY <2>2, <3>1 DEF RegistryAnnotateFails, IndexInv
  <2>3. QED
    BY <1>5, <2>1, <2>2 DEF RegistryFails
<1>6. CASE CreateRun \/ StepMoves
  BY <1>0, <1>6 DEF CreateRun, StepMoves, RunEnds, StepStarts, StepRuns, StepEnds, RunsChange
<1>7. CASE Edits
  <2>1. CASE EditTeam \/ EditTrigger
    BY <1>0, <2>1 DEF EditTeam, EditTrigger
  <2>2. CASE DeleteRegistry
    BY <2>2 DEF DeleteRegistry, IndexInv
  <2>3. ASSUME NEW a \in DOMAIN agents, DeleteAgent(a) PROVE IndexInv'
    BY <2>3, AgentsKeepIndex DEF DeleteAgent
  <2>4. QED
    BY <1>7, <2>1, <2>2, <2>3 DEF Edits
<1>8. CASE Tick \/ WakeUp
  BY <1>0, <1>8 DEF Tick, WakeUp
<1>9. CASE Restart
  BY <1>9 DEF Restart, IndexInv
<1>10. ASSUME NEW a \in DOMAIN agents, PodsFollow(a) PROVE IndexInv'
  BY <1>10, AgentsKeepIndex DEF PodsFollow
<1>11. QED
  BY <1>1, <1>2, <1>3, <1>4, <1>5, <1>6, <1>7, <1>8, <1>9, <1>10 DEF Next

-----------------------------------------------------------------------------
(* What the operators return *)

LEMMA TeamFacts ==
  /\ \A w \in FirstWorlds : w.team \in Teams
  /\ Nil \notin Run
  /\ \A t \in Teams :
       /\ Revisions(t) \subseteq Teams
       /\ t.mode \in {"pipeline", "dynamic", "routed"}
       /\ t.roles \in Seq(Role)
       /\ t.keepSucceeded \in Nat /\ t.keepFailed \in Nat
       /\ \A role \in ToSet(t.roles) : Inline(role) => role.name \notin DOMAIN OtherAgents
<1>1. ASSUME NEW t \in Teams PROVE t.roles \in Seq(Role)
  <2>1. t.roles \in Seq(ToSet(t.roles))
    BY TeamAssumption
  <2>2. \A i \in 1 .. Len(t.roles) : t.roles[i] \in Role
    BY <2>1 DEF Role, ToSet
  <2>3. t.roles = [i \in 1 .. Len(t.roles) |-> t.roles[i]] /\ Len(t.roles) \in Nat
    BY <2>1
  <2>4. QED
    BY <2>2, <2>3
<1>2. QED
  BY <1>1, TeamAssumption DEF Inline

LEMMA OtherFacts == \A a \in DOMAIN OtherAgents : IsAgent(OtherAgents[a])
  BY TeamAssumption DEF IsAgent

LEMMA HeadTail ==
  ASSUME NEW S, NEW s \in Seq(S), s # <<>>
  PROVE  /\ Tail(s) \in Seq(S) /\ Head(s) \in S
         /\ ToSet(s) = {Head(s)} \cup ToSet(Tail(s))
<1>1. /\ Len(s) \in Nat \ {0} /\ DOMAIN s = 1 .. Len(s) /\ s[1] \in S /\ Head(s) = s[1]
      /\ Tail(s) \in Seq(S) /\ Len(Tail(s)) = Len(s) - 1
      /\ \A i \in 1 .. Len(s) - 1 : Tail(s)[i] = s[i + 1]
  OBVIOUS
<1>2. DOMAIN Tail(s) = 1 .. Len(s) - 1
  BY <1>1
<1>3. Head(s) \in ToSet(s)
  BY <1>1 DEF ToSet
<1>4. ASSUME NEW x \in ToSet(s), x # Head(s) PROVE x \in ToSet(Tail(s))
  <2>1. PICK i \in 1 .. Len(s) : x = s[i]
    BY <1>1 DEF ToSet
  <2>2. i # 1
    BY <1>1, <1>4, <2>1
  <2>3. i - 1 \in 1 .. Len(s) - 1 /\ (i - 1) + 1 = i
    BY <1>1, <2>2
  <2>4. Tail(s)[i - 1] = s[i]
    BY <1>1, <2>3
  <2>5. QED
    BY <1>2, <2>1, <2>3, <2>4 DEF ToSet
<1>5. ASSUME NEW x \in ToSet(Tail(s)) PROVE x \in ToSet(s)
  <2>1. PICK i \in 1 .. Len(s) - 1 : x = s[i + 1]
    BY <1>1, <1>2 DEF ToSet
  <2>2. i + 1 \in 1 .. Len(s)
    BY <1>1
  <2>3. QED
    BY <1>1, <2>1, <2>2 DEF ToSet
<1>6. QED
  BY <1>1, <1>3, <1>4, <1>5

\* The status is a record of its fields whatever is written into it.
LEMMA StatusFields ==
  ASSUME NEW s, IsStatus(s), NEW v, NEW f \in DOMAIN NewTeamStatus
  PROVE  /\ IsStatus([s EXCEPT ![f] = v])
         /\ [s EXCEPT ![f] = v][f] = v
         /\ \A g \in DOMAIN NewTeamStatus : g # f => [s EXCEPT ![f] = v][g] = s[g]
<1>1. DOMAIN s = DOMAIN NewTeamStatus
  BY DEF IsStatus
<1>2. QED
  BY <1>1 DEF IsStatus

LEMMA Mirrored ==
  ASSUME NEW s, IsStatus(s), NEW rs
  PROVE  IsStatus(mirrorRunPhaseToTeam(s, rs))
<1>1. "phase" \in DOMAIN NewTeamStatus /\ "lastRun" \in DOMAIN NewTeamStatus
  BY DEF NewTeamStatus
<1>2. CASE latestRunFromList(rs) = Nil
  BY <1>1, <1>2, StatusFields DEF mirrorRunPhaseToTeam
<1>3. CASE latestRunFromList(rs) # Nil
  <2> DEFINE p == IF rs[latestRunFromList(rs)].phase \in {"Running", "Succeeded", "Failed"}
                  THEN rs[latestRunFromList(rs)].phase ELSE "Ready"
             l == latestRunFromList(rs)
  <2>1. mirrorRunPhaseToTeam(s, rs) = [[s EXCEPT !.lastRun = l] EXCEPT !.phase = p]
    BY <1>3 DEF mirrorRunPhaseToTeam
  <2> HIDE DEF p, l
  <2>2. IsStatus([s EXCEPT !.lastRun = l])
    BY <1>1, StatusFields
  <2> DEFINE u == [s EXCEPT !.lastRun = l]
  <2> HIDE DEF u
  <2>3. IsStatus(u) /\ mirrorRunPhaseToTeam(s, rs) = [u EXCEPT !.phase = p]
    BY <2>1, <2>2 DEF u
  <2>4. QED
    BY <1>1, <2>3, StatusFields
<1>4. QED
  BY <1>2, <1>3

\* One field of one agent is written.
Writes(new, as, a, f, v) == new = [as EXCEPT ![a][f] = v]

LEMMA AgentField ==
  ASSUME NEW as, \A x \in DOMAIN as : IsAgent(as[x]), NEW a \in DOMAIN as,
         NEW f \in {"def", "replicas", "registry", "keda", "caps", "ready"}, NEW v,
         NEW new, Writes(new, as, a, f, v)
  PROVE  /\ DOMAIN new = DOMAIN as /\ \A x \in DOMAIN new : IsAgent(new[x])
         /\ new[a][f] = v
         /\ \A g \in DOMAIN as[a] : g # f => new[a][g] = as[a][g]
         /\ \A x \in DOMAIN as : x # a => new[x] = as[x]
<1>1. DOMAIN new = DOMAIN as /\ new[a] = [as[a] EXCEPT ![f] = v]
      /\ \A x \in DOMAIN as : x # a => new[x] = as[x]
  BY DEF Writes
<1>2. IsAgent(as[a]) /\ f # "notes"
  OBVIOUS
<1>3. DOMAIN new[a] = DOMAIN as[a] /\ new[a].notes = as[a].notes
  BY <1>1, <1>2 DEF IsAgent
<1>4. IsAgent(new[a])
  BY <1>2, <1>3 DEF IsAgent
<1>5. new[a][f] = v /\ \A g \in DOMAIN as[a] : g # f => new[a][g] = as[a][g]
  BY <1>1, <1>2 DEF IsAgent
<1>6. QED
  BY <1>1, <1>4, <1>5

\* Its annotations are written.
LEMMA AgentNotes ==
  ASSUME NEW as, \A x \in DOMAIN as : IsAgent(as[x]), NEW a \in DOMAIN as,
         NEW v, DOMAIN v = DOMAIN NoNotes, NEW new, new = [as EXCEPT ![a].notes = v]
  PROVE  /\ DOMAIN new = DOMAIN as /\ \A x \in DOMAIN new : IsAgent(new[x])
         /\ new[a].notes = v
         /\ \A g \in DOMAIN as[a] : g # "notes" => new[a][g] = as[a][g]
         /\ \A x \in DOMAIN as : x # a => new[x] = as[x]
<1>1. DOMAIN new = DOMAIN as /\ new[a] = [as[a] EXCEPT !.notes = v]
      /\ \A x \in DOMAIN as : x # a => new[x] = as[x]
  OBVIOUS
<1>2. IsAgent(as[a])
  OBVIOUS
<1>3. DOMAIN new[a] = DOMAIN as[a] /\ new[a].notes = v
  BY <1>1, <1>2 DEF IsAgent
<1>4. IsAgent(new[a])
  BY <1>2, <1>3 DEF IsAgent
<1>5. \A g \in DOMAIN as[a] : g # "notes" => new[a][g] = as[a][g]
  BY <1>1, <1>2 DEF IsAgent
<1>6. QED
  BY <1>1, <1>3, <1>4, <1>5

\* reconcileRoleAgent leaves the inline role an agent with its definition.
LEMMA RoleAgent ==
  ASSUME \A x \in DOMAIN agents : IsAgent(agents[x]), NEW t, NEW role,
         NEW made, made = reconcileRoleAgent(t, role)
  PROVE  /\ \A x \in DOMAIN made : IsAgent(made[x])
         /\ DOMAIN agents \subseteq DOMAIN made
         /\ Inline(role) => /\ role.name \in DOMAIN made
                            /\ made[role.name].def = role.def
                            /\ made[role.name].registry = t.registry
<1>1. CASE ~Inline(role)
  BY <1>1 DEF reconcileRoleAgent
<1>2. CASE Inline(role) /\ role.name \notin DOMAIN agents
  <2>1. made = Put(agents, role.name, InlineAgent(t, role))
    BY <1>2 DEF reconcileRoleAgent
  <2>2. /\ DOMAIN made = DOMAIN agents \cup {role.name} /\ made[role.name] = InlineAgent(t, role)
        /\ \A x \in DOMAIN agents : x # role.name => made[x] = agents[x]
    BY <2>1 DEF Put
  <2>3. /\ IsAgent(InlineAgent(t, role))
        /\ InlineAgent(t, role).def = role.def /\ InlineAgent(t, role).registry = t.registry
    BY DEF InlineAgent, IsAgent
  <2>4. QED
    BY <2>2, <2>3
<1>3. CASE Inline(role) /\ role.name \in DOMAIN agents
  <2> DEFINE a == role.name
             m1 == [agents EXCEPT ![a].def = role.def]
             m2 == [m1 EXCEPT ![a].registry = t.registry]
             m3 == [m2 EXCEPT ![a].keda = role.keda]
             n == IF t.autoscaling = Nil THEN role.replicas ELSE m3[a].replicas
  <2>1. made = [m3 EXCEPT ![a].replicas = n]
    BY <1>3 DEF reconcileRoleAgent
  <2>2. /\ DOMAIN m1 = DOMAIN agents /\ \A x \in DOMAIN m1 : IsAgent(m1[x])
        /\ m1[a].def = role.def
    <3>1. Writes(m1, agents, a, "def", role.def)
      BY DEF Writes
    <3> HIDE DEF m1
    <3>2. QED
      BY <1>3, <3>1, AgentField
  <2>3. /\ DOMAIN m2 = DOMAIN agents /\ \A x \in DOMAIN m2 : IsAgent(m2[x])
        /\ m2[a].def = role.def /\ m2[a].registry = t.registry
    <3>1. Writes(m2, m1, a, "registry", t.registry)
      BY DEF Writes
    <3> HIDE DEF m2, m1
    <3>2. "def" \in DOMAIN m1[a] /\ "def" # "registry"
      BY <1>3, <2>2 DEF IsAgent
    <3>3. QED
      BY <1>3, <2>2, <3>1, <3>2, AgentField
  <2>4. /\ DOMAIN m3 = DOMAIN agents /\ \A x \in DOMAIN m3 : IsAgent(m3[x])
        /\ m3[a].def = role.def /\ m3[a].registry = t.registry
    <3>1. Writes(m3, m2, a, "keda", role.keda)
      BY DEF Writes
    <3> HIDE DEF m3, m2, m1
    <3>2. {"def", "registry"} \subseteq DOMAIN m2[a] /\ "keda" \notin {"def", "registry"}
      BY <1>3, <2>3 DEF IsAgent
    <3>3. QED
      BY <1>3, <2>3, <3>1, <3>2, AgentField
  <2>5. Writes(made, m3, a, "replicas", n)
    BY <2>1 DEF Writes
  <2> HIDE DEF m3, n
  <2>6. {"def", "registry"} \subseteq DOMAIN m3[a] /\ "replicas" \notin {"def", "registry"}
    BY <1>3, <2>4 DEF IsAgent
  <2>7. QED
    BY <1>3, <2>4, <2>5, <2>6, AgentField
<1>4. QED
  BY <1>1, <1>2, <1>3

LEMMA NotesFacts ==
  ASSUME NEW notes, NEW t, NEW role
  PROVE  LET a == Annotated(notes, Wanted(t, role))
         IN  /\ DOMAIN a = DOMAIN NoNotes
             /\ a.queue = roleQueueURL(role.name) /\ a.role = role.name
             /\ a.routes = [n \in role.canDelegate |-> roleQueueURL(n)]
<1> DEFINE w == Wanted(t, role)
<1>1. /\ DOMAIN w = DOMAIN NoNotes
      /\ w.queue = roleQueueURL(role.name) /\ w.role = role.name
      /\ w.routes = [n \in role.canDelegate |-> roleQueueURL(n)]
  BY DEF Wanted, NoNotes
<1>2. {"queue", "role", "routes"} \subseteq DOMAIN NoNotes
  BY DEF NoNotes
<1> HIDE DEF w
<1>3. QED
  BY <1>1, <1>2 DEF Annotated, w

\* One role of the pass: whoever's agent it is, the agents stay agents; and
\* the agent of an inline role that was there is now as the role wants it.
LEMMA RoleVisited ==
  ASSUME TypeOK, NEW cached \in BOOLEAN, ReconcileRole(cached)
  PROVE  /\ \A x \in DOMAIN agents' : IsAgent(agents'[x])
         /\ queued' = (queued \/ OwnedChange(agents'))
         /\ todo # <<>> /\ todo' = Tail(todo) /\ pc = "roles"
         /\ Inline(Head(todo)) =>
              \/ Settled(in.team, Head(todo), agents')
              \/ Head(todo).name \notin DOMAIN agents /\ Head(todo).name \in DOMAIN agents'
<1> DEFINE role == Head(todo)
           a == resolveRoleAgentName(role)
           made == reconcileRoleAgent(in.team, role)
           found == a \in DOMAIN made /\ (a \in DOMAIN agents \/ cached)
           v == Annotated(made[a].notes, Wanted(in.team, role))
           new == IF found THEN [made EXCEPT ![a].notes = v] ELSE made
<1>1. agents' = new /\ queued' = (queued \/ OwnedChange(new)) /\ todo # <<>> /\ todo' = Tail(todo) /\ pc = "roles"
  BY DEF ReconcileRole, AgentsChange
<1>2. /\ \A x \in DOMAIN made : IsAgent(made[x])
      /\ DOMAIN agents \subseteq DOMAIN made
      /\ Inline(role) => /\ role.name \in DOMAIN made
                         /\ made[role.name].def = role.def
                         /\ made[role.name].registry = in.team.registry
  <2>1. \A x \in DOMAIN agents : IsAgent(agents[x])
    BY DEF TypeOK
  <2> HIDE DEF role, made
  <2>2. made = reconcileRoleAgent(in.team, role)
    BY DEF made
  <2>3. QED
    BY <2>1, <2>2, RoleAgent
<1>3. /\ DOMAIN v = DOMAIN NoNotes
      /\ v.queue = roleQueueURL(role.name) /\ v.role = role.name
      /\ v.routes = [n \in role.canDelegate |-> roleQueueURL(n)]
  <2> HIDE DEF role, made, a
  <2>1. QED
    BY NotesFacts
<1>4. Inline(role) => a = role.name
  BY DEF resolveRoleAgentName
<1>5. CASE found
  <2>1. new = [made EXCEPT ![a].notes = v] /\ a \in DOMAIN made
    BY <1>5
  <2> HIDE DEF new, made, v, a, role
  <2>2. /\ DOMAIN new = DOMAIN made /\ \A x \in DOMAIN new : IsAgent(new[x])
        /\ new[a].notes = v
        /\ \A g \in DOMAIN made[a] : g # "notes" => new[a][g] = made[a][g]
    BY <1>2, <1>3, <2>1, AgentNotes
  <2>3. {"def", "registry"} \subseteq DOMAIN made[a] /\ "notes" \notin {"def", "registry"}
    BY <1>2, <2>1 DEF IsAgent
  <2>4. new[a].def = made[a].def /\ new[a].registry = made[a].registry
    BY <2>2, <2>3
  <2>5. Inline(role) => Settled(in.team, role, new)
    BY <1>2, <1>3, <1>4, <2>2, <2>4 DEF Settled
  <2>6. QED
    BY <1>1, <2>2, <2>5 DEF role
<1>6. CASE ~found
  <2>1. new = made
    BY <1>6
  <2>2. Inline(role) => role.name \notin DOMAIN agents
    BY <1>2, <1>4, <1>6
  <2> HIDE DEF new, made, v, a, found
  <2>3. QED
    BY <1>1, <1>2, <2>1, <2>2
<1>7. QED
  BY <1>5, <1>6

-----------------------------------------------------------------------------
(* Runs *)

\* Run i goes on: it was not done, and if it is now, all of it is.
RunMoves(i) ==
  /\ i \in Live(runs) /\ ~Terminal(runs[i].phase)
  /\ runs' \in Seq(Run \cup {Nil}) /\ DOMAIN runs' = DOMAIN runs
  /\ \A j \in DOMAIN runs : j # i => runs'[j] = runs[j]
  /\ runs'[i] \in Run
  /\ Terminal(runs'[i].phase) =>
       runs'[i].done \in Nat /\ \A n \in DOMAIN runs'[i].steps : Terminal(runs'[i].steps[n])

LEMMA RunFacts ==
  ASSUME NEW rs \in Seq(Run \cup {Nil}), NEW i \in Live(rs)
  PROVE  /\ i \in DOMAIN rs /\ rs[i] \in Run
         /\ rs[i].phase \in RunPhases /\ rs[i].done \in Nat \cup {Nil}
         /\ rs[i].steps \in [DOMAIN rs[i].steps -> StepPhases]
         /\ DOMAIN rs[i].steps \subseteq StepNames
<1>1. i \in DOMAIN rs /\ rs[i] \in Run
  BY DEF Live
<1>2. /\ rs[i].phase \in RunPhases /\ rs[i].done \in Nat \cup {Nil}
      /\ rs[i].steps \in UNION {[names -> StepPhases] : names \in SUBSET StepNames}
  BY <1>1 DEF Run
<1>3. PICK names \in SUBSET StepNames : rs[i].steps \in [names -> StepPhases]
  BY <1>2
<1>4. QED
  BY <1>1, <1>2, <1>3

LEMMA RunMade ==
  ASSUME NEW p \in RunPhases, NEW d \in Nat \cup {Nil}, NEW names \in SUBSET StepNames,
         NEW s \in [names -> StepPhases]
  PROVE  [phase |-> p, done |-> d, steps |-> s] \in Run
  BY DEF Run

\* A run is written into its place.
LEMMA RunWritten ==
  ASSUME NEW rs \in Seq(Run \cup {Nil}), NEW i \in DOMAIN rs, NEW r \in Run \cup {Nil}
  PROVE  /\ [rs EXCEPT ![i] = r] \in Seq(Run \cup {Nil})
         /\ DOMAIN [rs EXCEPT ![i] = r] = DOMAIN rs
         /\ [rs EXCEPT ![i] = r][i] = r
         /\ \A j \in DOMAIN rs : j # i => [rs EXCEPT ![i] = r][j] = rs[j]
  OBVIOUS

\* What the steps of a run make of it.
LEMMA StepWritten ==
  ASSUME NEW r, NEW p \in RunPhases, NEW q \in StepPhases, NEW n,
         r.phase \in RunPhases, r.done \in Nat \cup {Nil},
         r.steps \in [DOMAIN r.steps -> StepPhases], DOMAIN r.steps \subseteq StepNames, n \in DOMAIN r.steps
  PROVE  [phase |-> p, done |-> r.done, steps |-> [r.steps EXCEPT ![n] = q]] \in Run
<1>1. [r.steps EXCEPT ![n] = q] \in [DOMAIN r.steps -> StepPhases]
  OBVIOUS
<1>2. QED
  BY <1>1, RunMade

\* The ways a run is written.
Rewritten(r, p, d, x) ==
  /\ [r EXCEPT !.phase = p, !.steps = x] = [phase |-> p, done |-> r.done, steps |-> x]
  /\ [r EXCEPT !.steps = x] = [phase |-> r.phase, done |-> r.done, steps |-> x]
  /\ [r EXCEPT !.done = d, !.phase = p] = [phase |-> p, done |-> d, steps |-> r.steps]

LEMMA RunFields ==
  ASSUME NEW r \in Run, NEW p, NEW d, NEW x
  PROVE  Rewritten(r, p, d, x)
<1>1. r = [phase |-> r.phase, done |-> r.done, steps |-> r.steps]
  BY DEF Run
<1>a. ASSUME NEW a, NEW b, NEW c, NEW v
      PROVE  /\ [[phase |-> a, done |-> b, steps |-> c] EXCEPT !.phase = v] = [phase |-> v, done |-> b, steps |-> c]
             /\ [[phase |-> a, done |-> b, steps |-> c] EXCEPT !.done = v] = [phase |-> a, done |-> v, steps |-> c]
             /\ [[phase |-> a, done |-> b, steps |-> c] EXCEPT !.steps = v] = [phase |-> a, done |-> b, steps |-> v]
  OBVIOUS
<1>b. ASSUME NEW y, NEW a, NEW b, NEW c, NEW v, y = [phase |-> a, done |-> b, steps |-> c]
      PROVE  /\ [y EXCEPT !.phase = v] = [phase |-> v, done |-> b, steps |-> c]
             /\ [y EXCEPT !.steps = v] = [phase |-> a, done |-> b, steps |-> v]
  <2>1. [y EXCEPT !.phase = v] = [phase |-> v, done |-> b, steps |-> c]
    BY <1>b
  <2>2. [y EXCEPT !.steps = v] = [phase |-> a, done |-> b, steps |-> v]
    BY <1>b
  <2>3. QED
    BY <2>1, <2>2
<1>2. [r EXCEPT !.phase = p, !.steps = x] = [phase |-> p, done |-> r.done, steps |-> x]
  <2>1. [r EXCEPT !.phase = p] = [phase |-> p, done |-> r.done, steps |-> r.steps]
    BY <1>1, <1>a
  <2> DEFINE y == [r EXCEPT !.phase = p]
  <2>2. [r EXCEPT !.phase = p, !.steps = x] = [y EXCEPT !.steps = x]
    OBVIOUS
  <2> HIDE DEF y
  <2>3. y = [phase |-> p, done |-> r.done, steps |-> r.steps]
    BY <2>1 DEF y
  <2>4. QED
    BY <2>2, <2>3, <1>b
<1>3. [r EXCEPT !.steps = x] = [phase |-> r.phase, done |-> r.done, steps |-> x]
  BY <1>1
<1>4. [r EXCEPT !.done = d, !.phase = p] = [phase |-> p, done |-> d, steps |-> r.steps]
  <2>1. [r EXCEPT !.done = d] = [phase |-> r.phase, done |-> d, steps |-> r.steps]
    BY <1>1, <1>a
  <2> DEFINE y == [r EXCEPT !.done = d]
  <2>2. [r EXCEPT !.done = d, !.phase = p] = [y EXCEPT !.phase = p]
    OBVIOUS
  <2> HIDE DEF y
  <2>3. y = [phase |-> r.phase, done |-> d, steps |-> r.steps]
    BY <2>1 DEF y
  <2>4. QED
    BY <2>2, <2>3, <1>b
<1>5. QED
  BY <1>2, <1>3, <1>4 DEF Rewritten

\* The ways its place in the sequence is.
Replaced(rs, i, p, d, n, q) ==
  /\ [rs EXCEPT ![i].phase = p, ![i].steps[n] = q] =
       [rs EXCEPT ![i] = [phase |-> p, done |-> rs[i].done, steps |-> [rs[i].steps EXCEPT ![n] = q]]]
  /\ [rs EXCEPT ![i].steps[n] = q] =
       [rs EXCEPT ![i] = [phase |-> rs[i].phase, done |-> rs[i].done, steps |-> [rs[i].steps EXCEPT ![n] = q]]]
  /\ [rs EXCEPT ![i].done = d, ![i].phase = p] =
       [rs EXCEPT ![i] = [phase |-> p, done |-> d, steps |-> rs[i].steps]]

LEMMA OnePlace ==
  ASSUME NEW rs \in Seq(Run \cup {Nil}), NEW i \in Live(rs), NEW p, NEW d, NEW n, NEW q
  PROVE  Replaced(rs, i, p, d, n, q)
<1>1. rs[i] \in Run /\ i \in DOMAIN rs
  BY RunFacts
<1> DEFINE x == [rs[i].steps EXCEPT ![n] = q]
<1>2. /\ [rs[i] EXCEPT !.phase = p, !.steps = x] = [phase |-> p, done |-> rs[i].done, steps |-> x]
      /\ [rs[i] EXCEPT !.steps = x] = [phase |-> rs[i].phase, done |-> rs[i].done, steps |-> x]
      /\ [rs[i] EXCEPT !.done = d, !.phase = p] = [phase |-> p, done |-> d, steps |-> rs[i].steps]
  <2>1. Rewritten(rs[i], p, d, x)
    BY <1>1, RunFields
  <2>2. QED
    BY <2>1 DEF Rewritten
<1>3. [rs EXCEPT ![i].phase = p, ![i].steps[n] = q] =
           [rs EXCEPT ![i] = [rs[i] EXCEPT !.phase = p, !.steps = [rs[i].steps EXCEPT ![n] = q]]]
  <2> DEFINE u == [rs EXCEPT ![i].phase = p]
             z == [u[i].steps EXCEPT ![n] = q]
  <2>1. /\ u = [rs EXCEPT ![i] = [rs[i] EXCEPT !.phase = p]]
        /\ u[i] = [rs[i] EXCEPT !.phase = p] /\ DOMAIN u = DOMAIN rs
    BY <1>1
  <2>2. u[i].steps = rs[i].steps
    BY <1>1, <2>1 DEF Run
  <2>3. [rs EXCEPT ![i].phase = p, ![i].steps[n] = q] = [u EXCEPT ![i].steps[n] = q]
    OBVIOUS
  <2>4. [u EXCEPT ![i].steps[n] = q] = [u EXCEPT ![i] = [u[i] EXCEPT !.steps = z]]
    <3> HIDE DEF u
    <3>1. QED
      BY <1>1, <2>1
  <2>5. [u EXCEPT ![i] = [u[i] EXCEPT !.steps = z]] =
          [rs EXCEPT ![i] = [rs[i] EXCEPT !.phase = p, !.steps = z]]
    <3> HIDE DEF u, z
    <3>1. [u EXCEPT ![i] = [u[i] EXCEPT !.steps = z]] = [rs EXCEPT ![i] = [u[i] EXCEPT !.steps = z]]
      BY <1>1, <2>1
    <3>2. QED
      BY <2>1, <3>1
  <2>6. QED
    BY <2>2, <2>3, <2>4, <2>5
<1>4. [rs EXCEPT ![i].steps[n] = q] =
           [rs EXCEPT ![i] = [rs[i] EXCEPT !.steps = [rs[i].steps EXCEPT ![n] = q]]]
  BY <1>1
<1>5. [rs EXCEPT ![i].done = d, ![i].phase = p] =
           [rs EXCEPT ![i] = [rs[i] EXCEPT !.done = d, !.phase = p]]
  BY <1>1
<1>6. QED
  BY <1>1, <1>2, <1>3, <1>4, <1>5 DEF Replaced

LEMMA WrittenMoves ==
  ASSUME TypeOK, NEW i \in Live(runs), ~Terminal(runs[i].phase), NEW r \in Run,
         runs' = [runs EXCEPT ![i] = r],
         Terminal(r.phase) => r.done \in Nat /\ \A n \in DOMAIN r.steps : Terminal(r.steps[n])
  PROVE  RunMoves(i)
<1>1. runs \in Seq(Run \cup {Nil}) /\ i \in DOMAIN runs
  BY DEF TypeOK, Live
<1>2. QED
  BY <1>1, RunWritten DEF RunMoves

\* The steps of runs, and their ends.
LEMMA StepsMove ==
  ASSUME TypeOK, PruneInv, StepMoves
  PROVE  /\ \E i \in DOMAIN runs : RunMoves(i)
         /\ queued' = TRUE
         /\ UNCHANGED <<missed, status, pc, in, todo, fresh, wakeAt, registryVars, agents, team, template, clock,
                        edits, faults>>
<1>0. runs \in Seq(Run \cup {Nil}) /\ clock \in Nat
  BY DEF TypeOK
<1>1. ASSUME NEW i \in DOMAIN runs, RunEnds(i) PROVE RunMoves(i)
  <2>1. i \in Live(runs) /\ ~Terminal(runs[i].phase) /\ \A n \in DOMAIN runs[i].steps : Terminal(runs[i].steps[n])
    BY <1>1 DEF RunEnds
  <2>2. PICK p \in {"Succeeded", "Failed"} : runs' = [runs EXCEPT ![i].done = clock, ![i].phase = p]
    BY <1>1 DEF RunEnds, RunsChange
  <2> DEFINE r == [phase |-> p, done |-> clock, steps |-> runs[i].steps]
  <2>3. runs' = [runs EXCEPT ![i] = r]
    <3>1. Replaced(runs, i, p, clock, Nil, Nil)
      BY <1>0, <2>1, OnePlace
    <3>2. QED
      BY <2>2, <3>1 DEF Replaced
  <2>4. r \in Run
    <3>1. p \in RunPhases /\ clock \in Nat \cup {Nil}
      BY <1>0 DEF RunPhases
    <3>2. runs[i].steps \in [DOMAIN runs[i].steps -> StepPhases] /\ DOMAIN runs[i].steps \subseteq StepNames
      BY <1>0, <2>1, RunFacts
    <3>3. QED
      BY <3>1, <3>2, RunMade
  <2>5. r.done \in Nat /\ \A n \in DOMAIN r.steps : Terminal(r.steps[n])
    BY <1>0, <2>1
  <2> HIDE DEF r
  <2>6. QED
    BY <2>1, <2>3, <2>4, <2>5, WrittenMoves
<1>2. ASSUME NEW i \in Live(runs), NEW n \in DOMAIN runs[i].steps, NEW p \in RunPhases, NEW q \in StepPhases,
             ~Terminal(runs[i].phase), ~Terminal(p),
             runs' = [runs EXCEPT ![i] = [phase |-> p, done |-> runs[i].done, steps |-> [runs[i].steps EXCEPT ![n] = q]]]
      PROVE  RunMoves(i)
  <2> DEFINE r == [phase |-> p, done |-> runs[i].done, steps |-> [runs[i].steps EXCEPT ![n] = q]]
  <2>1. r \in Run
    <3>1. /\ runs[i].phase \in RunPhases /\ runs[i].done \in Nat \cup {Nil}
          /\ runs[i].steps \in [DOMAIN runs[i].steps -> StepPhases] /\ DOMAIN runs[i].steps \subseteq StepNames
      BY <1>0, RunFacts
    <3>2. QED
      BY <3>1, StepWritten
  <2>2. ~Terminal(r.phase) /\ runs' = [runs EXCEPT ![i] = r]
    BY <1>2
  <2> HIDE DEF r
  <2>3. QED
    BY <1>2, <2>1, <2>2, WrittenMoves
<1>3. ASSUME NEW i \in DOMAIN runs, NEW n, StepStarts(i, n) PROVE RunMoves(i)
  <2>1. i \in Live(runs) /\ ~Terminal(runs[i].phase) /\ n \in DOMAIN runs[i].steps
    BY <1>3 DEF StepStarts
  <2>2. PICK q \in StepPhases : runs' = [runs EXCEPT ![i].phase = "Running", ![i].steps[n] = q]
    BY <1>3 DEF StepStarts, RunsChange, StepPhases, RunPhases
  <2>3. "Running" \in RunPhases /\ ~Terminal("Running")
    BY DEF RunPhases, Terminal
  <2>4. runs' = [runs EXCEPT ![i] = [phase |-> "Running", done |-> runs[i].done,
                                     steps |-> [runs[i].steps EXCEPT ![n] = q]]]
    <3>1. Replaced(runs, i, "Running", clock, n, q)
      BY <1>0, <2>1, OnePlace
    <3>2. QED
      BY <2>2, <3>1 DEF Replaced
  <2>5. QED
    BY <1>2, <2>1, <2>3, <2>4
<1>4. ASSUME NEW i \in DOMAIN runs, NEW n, StepRuns(i, n) \/ StepEnds(i, n) PROVE RunMoves(i)
  <2>1. i \in Live(runs) /\ n \in DOMAIN runs[i].steps /\ runs[i].steps[n] \in {"WarmingUp", "Running"}
    BY <1>4 DEF StepRuns, StepEnds
  <2>2. ~Terminal(runs[i].phase)
    BY <2>1 DEF PruneInv, Terminal
  <2>3. PICK q \in StepPhases : runs' = [runs EXCEPT ![i].steps[n] = q]
    BY <1>4 DEF StepRuns, StepEnds, RunsChange, StepPhases, RunPhases
  <2>4. runs[i].phase \in RunPhases
    BY <1>0, <2>1, RunFacts
  <2>5. runs' = [runs EXCEPT ![i] = [phase |-> runs[i].phase, done |-> runs[i].done,
                                     steps |-> [runs[i].steps EXCEPT ![n] = q]]]
    <3>1. Replaced(runs, i, "Running", clock, n, q)
      BY <1>0, <2>1, OnePlace
    <3>2. QED
      BY <2>3, <3>1 DEF Replaced
  <2>6. QED
    BY <1>2, <2>1, <2>2, <2>4, <2>5
<1>5. \E i \in DOMAIN runs : RunMoves(i)
  BY <1>1, <1>3, <1>4 DEF StepMoves
<1>6. /\ queued' = TRUE
      /\ UNCHANGED <<missed, status, pc, in, todo, fresh, wakeAt, registryVars, agents, team, template, clock,
                     edits, faults>>
  BY DEF StepMoves, RunEnds, StepStarts, StepRuns, StepEnds, RunsChange
<1>7. QED
  BY <1>5, <1>6

\* A new run comes last.
LEMMA RunCreated ==
  ASSUME TypeOK, CreateRun
  PROVE  /\ runs' \in Seq(Run \cup {Nil}) /\ Len(runs') = Len(runs) + 1
         /\ \A j \in DOMAIN runs : j \in DOMAIN runs' /\ runs'[j] = runs[j]
         /\ DOMAIN runs' = DOMAIN runs \cup {Len(runs')} /\ runs'[Len(runs')].phase = "Pending"
<1> DEFINE names == {p.name : p \in ToSet(team.pipeline)}
           r == [phase |-> "Pending", done |-> Nil, steps |-> [n \in names |-> "Pending"]]
<1>1. runs' = Append(runs, r) /\ runs \in Seq(Run \cup {Nil})
  BY DEF CreateRun, RunsChange, TypeOK
<1>2. names \subseteq StepNames
  BY DEF TypeOK, StepNames
<1>3. r \in Run
  <2>1. "Pending" \in RunPhases /\ "Pending" \in StepPhases
    BY DEF RunPhases, StepPhases
  <2> HIDE DEF names
  <2>2. [n \in names |-> "Pending"] \in [names -> StepPhases]
    BY <2>1
  <2>3. QED
    BY <1>2, <2>1, <2>2, RunMade
<1>4. r.phase = "Pending"
  OBVIOUS
<1> HIDE DEF r
<1>5. QED
  BY <1>1, <1>3, <1>4

\* Deletions.
LEMMA RunsPruned ==
  ASSUME TypeOK, NEW set, runs' = [i \in DOMAIN runs |-> IF i \in set THEN Nil ELSE runs[i]]
  PROVE  runs' \in Seq(Run \cup {Nil}) /\ DOMAIN runs' = DOMAIN runs
<1>1. runs \in Seq(Run \cup {Nil})
  BY DEF TypeOK
<1>2. DOMAIN runs = 1 .. Len(runs) /\ Len(runs) \in Nat /\ \A i \in DOMAIN runs : runs[i] \in Run \cup {Nil}
  BY <1>1
<1>3. runs' \in [1 .. Len(runs) -> Run \cup {Nil}]
  BY <1>2
<1>4. QED
  BY <1>2, <1>3

-----------------------------------------------------------------------------
(* Types are kept *)

LEMMA TypesInit == Init => TypeOK /\ PruneInv
<1> SUFFICES ASSUME Init PROVE TypeOK /\ PruneInv
  OBVIOUS
<1>1. team \in Teams
  BY TeamFacts DEF Init
<1>2. IsStatus(status)
  BY DEF Init, IsStatus, NewTeamStatus
<1>3. runs = <<>> /\ Live(runs) = {}
  BY DEF Init, Live
<1>4. QED
  BY <1>1, <1>2, <1>3, OtherFacts DEF Init, TypeOK, PruneInv

LEMMA EndTyped ==
  ASSUME TypeOK, NEW s, IsStatus(s), NEW failed \in BOOLEAN, NEW after, PassEnds(s, failed, after),
         UNCHANGED <<team, agents, runs, clock>>
  PROVE  TypeOK'
<1>1. IsStatus(status')
  BY DEF PassEnds, TypeOK
<1>2. queued' \in BOOLEAN /\ fresh' = fresh /\ pc' = "idle"
  BY DEF PassEnds
<1>3. QED
  BY <1>1, <1>2 DEF TypeOK

LEMMA ListFacts ==
  ASSUME TypeOK, ListRuns
  PROVE  /\ IsPass(in') /\ in'.team = in.team /\ in'.runs = runs /\ in'.now = clock
         /\ in'.status.ready = in.status.ready
<1>1. pc # "idle"
  BY DEF ListRuns
<1>2. DOMAIN in = {"team", "status", "runs", "now", "zero"} /\ in.team \in Teams /\ IsStatus(in.status)
  BY <1>1 DEF TypeOK, IsPass
<1> DEFINE v == IF in.team.autoscaling # Nil /\ AnyActive(runs) THEN clock ELSE in.status.lastActive
           i1 == [in EXCEPT !.runs = runs]
           i2 == [i1 EXCEPT !.now = clock]
           s == [in.status EXCEPT !.lastActive = v]
<1>3. i1.status = in.status /\ i1.team = in.team /\ i1.runs = runs /\ DOMAIN i1 = DOMAIN in
  BY <1>2
<1>4. i2.status = in.status /\ i2.team = in.team /\ i2.runs = runs /\ i2.now = clock /\ DOMAIN i2 = DOMAIN in
  <2> HIDE DEF i1
  <2>1. QED
    BY <1>2, <1>3
<1>5. in' = [i2 EXCEPT !.status.lastActive = v]
  BY DEF ListRuns
<1>6. in' = [i2 EXCEPT !.status = s]
  <2>1. in' = [i2 EXCEPT !.status = [i2.status EXCEPT !.lastActive = v]]
    BY <1>5
  <2> HIDE DEF i2, v
  <2>2. QED
    BY <1>4, <2>1
<1>7. IsStatus(s) /\ s.ready = in.status.ready
  <2> HIDE DEF v
  <2>1. "lastActive" \in DOMAIN NewTeamStatus /\ "ready" \in DOMAIN NewTeamStatus
    BY DEF NewTeamStatus
  <2>2. QED
    BY <1>2, <2>1, StatusFields
<1> HIDE DEF i2, s
<1>8. /\ in'.status = s /\ in'.team = in.team /\ in'.runs = runs /\ in'.now = clock
      /\ DOMAIN in' = {"team", "status", "runs", "now", "zero"}
  BY <1>2, <1>4, <1>6
<1>9. QED
  BY <1>2, <1>7, <1>8 DEF IsPass, TypeOK

\* A pass through the autoscaler only forgets that all is zero.
LEMMA ScaleFacts ==
  ASSUME TypeOK, ScaleRole
  PROVE  /\ IsPass(in') /\ in'.team = in.team /\ in'.runs = in.runs /\ in'.status = in.status
         /\ \A x \in DOMAIN agents' : IsAgent(agents'[x])
         /\ queued' = (queued \/ OwnedChange(agents'))
         /\ todo # <<>> /\ todo' = Tail(todo) /\ pc = "scale"
<1> DEFINE role == Head(todo)
           a == role.name
           managed == Inline(role) /\ a \in DOMAIN agents /\ ~agents[a].keda
           desired == computeRoleDesired(in.team, role, in.runs, IdleFor(in.status.lastActive, in.now))
           new == IF managed /\ Or(agents[a].replicas, 1) # desired
                  THEN [agents EXCEPT ![a].replicas = desired] ELSE agents
           z == in.zero /\ managed /\ desired = 0
<1>1. /\ agents' = new /\ queued' = (queued \/ OwnedChange(new))
      /\ todo # <<>> /\ todo' = Tail(todo) /\ pc = "scale" /\ in' = [in EXCEPT !.zero = z]
  BY DEF ScaleRole, AgentsChange
<1>2. IsPass(in)
  BY <1>1 DEF TypeOK
<1>3. /\ in'.team = in.team /\ in'.runs = in.runs /\ in'.status = in.status
      /\ DOMAIN in' = DOMAIN in
  <2> HIDE DEF z
  <2>1. QED
    BY <1>1, <1>2 DEF IsPass
<1>4. \A x \in DOMAIN new : IsAgent(new[x])
  <2>0. \A x \in DOMAIN agents : IsAgent(agents[x])
    BY DEF TypeOK
  <2>1. CASE new = agents
    BY <2>0, <2>1
  <2>2. CASE new # agents
    <3>1. a \in DOMAIN agents /\ new = [agents EXCEPT ![a].replicas = desired]
      BY <2>2
    <3> HIDE DEF new, desired, a
    <3>2. Writes(new, agents, a, "replicas", desired)
      BY <3>1 DEF Writes
    <3>3. QED
      BY <2>0, <3>1, <3>2, AgentField
  <2>3. QED
    BY <2>1, <2>2
<1> HIDE DEF new
<1>5. QED
  BY <1>1, <1>2, <1>3, <1>4 DEF IsPass

LEMMA AnnotateTyped ==
  ASSUME TypeOK, NEW a \in DOMAIN agents, RegistryAnnotate(a)
  PROVE  /\ \A x \in DOMAIN agents' : IsAgent(agents'[x])
         /\ queued' = (queued \/ OwnedChange(agents'))
<1> DEFINE n == [agents[a].notes EXCEPT !.queue = <<"agent", a>>]
           new == [agents EXCEPT ![a].notes = n]
<1>1. agents' = new /\ queued' = (queued \/ OwnedChange(new))
  BY DEF RegistryAnnotate, AgentsChange
<1>2. \A x \in DOMAIN agents : IsAgent(agents[x])
  BY DEF TypeOK
<1>3. DOMAIN n = DOMAIN NoNotes
  BY <1>2 DEF IsAgent
<1> HIDE DEF n
<1>4. \A x \in DOMAIN new : IsAgent(new[x])
  BY <1>2, <1>3, AgentNotes
<1> HIDE DEF new
<1>5. QED
  BY <1>1, <1>4

LEMMA FollowTyped ==
  ASSUME TypeOK, NEW a \in DOMAIN agents, PodsFollow(a)
  PROVE  /\ \A x \in DOMAIN agents' : IsAgent(agents'[x])
         /\ queued' = (queued \/ OwnedChange(agents'))
<1> DEFINE v == Or(agents[a].replicas, 1)
           new == [agents EXCEPT ![a].ready = v]
<1>1. agents' = new /\ queued' = (queued \/ OwnedChange(new))
  BY DEF PodsFollow, AgentsChange
<1>2. \A x \in DOMAIN agents : IsAgent(agents[x])
  BY DEF TypeOK
<1>3. Writes(new, agents, a, "ready", v)
  BY DEF Writes
<1> HIDE DEF v, new
<1>4. QED
  BY <1>1, <1>2, <1>3, AgentField

\* Steps that have nothing to do with runs.
LEMMA RunsAside ==
  ASSUME TypeOK, PruneInv, UNCHANGED runs,
         pc' = "prune" => pc = "prune" /\ UNCHANGED <<in, clock>>
  PROVE  PruneInv'
  BY DEF PruneInv

LEMMA RunsOnwards ==
  ASSUME TypeOK, PruneInv, NEW i \in DOMAIN runs, RunMoves(i), UNCHANGED <<pc, in, clock>>
  PROVE  PruneInv'
<1>1. \A j \in Live(runs') : j = i \/ (j \in Live(runs) /\ runs'[j] = runs[j])
  BY DEF RunMoves, Live
<1>2. \A j \in Live(runs') : Terminal(runs'[j].phase) =>
        runs'[j].done \in Nat /\ \A n \in DOMAIN runs'[j].steps : Terminal(runs'[j].steps[n])
  BY <1>1 DEF RunMoves, PruneInv
<1>3. ASSUME pc = "prune", NEW j \in Live(in.runs), Terminal(in.runs[j].phase)
      PROVE  j \in DOMAIN runs' /\ runs'[j] = in.runs[j]
  <2>1. j \in DOMAIN runs /\ runs[j] = in.runs[j]
    BY <1>3 DEF PruneInv
  <2>2. j # i
    BY <1>3, <2>1 DEF RunMoves
  <2>3. QED
    BY <2>1, <2>2 DEF RunMoves
<1>4. QED
  BY <1>2, <1>3 DEF PruneInv

LEMMA RunsGrow ==
  ASSUME TypeOK, PruneInv, CreateRun
  PROVE  PruneInv'
<1> DEFINE k == Len(runs')
<1>1. /\ DOMAIN runs' = DOMAIN runs \cup {k} /\ ~Terminal(runs'[k].phase)
      /\ \A j \in DOMAIN runs : j \in DOMAIN runs' /\ runs'[j] = runs[j]
  BY RunCreated DEF Terminal
<1>2. UNCHANGED <<pc, in, clock>>
  BY DEF CreateRun, RunsChange
<1> HIDE DEF k
<1>3. \A j \in Live(runs') : Terminal(runs'[j].phase) => j \in Live(runs) /\ runs'[j] = runs[j]
  BY <1>1 DEF Live
<1>4. QED
  BY <1>1, <1>2, <1>3 DEF PruneInv

\* The base of everything else.
BaseInv == TypeOK /\ PruneInv

LEMMA PruneTyped ==
  ASSUME BaseInv, NEW set, Prune(set), pc = "prune"
  PROVE  BaseInv'
<1>1. runs' \in Seq(Run \cup {Nil}) /\ DOMAIN runs' = DOMAIN runs
  BY RunsPruned DEF Prune, BaseInv
<1>2. in' = in /\ IsPass(in) /\ todo \in Seq(Role) /\ in.team.roles \in Seq(Role)
  BY TeamFacts DEF Prune, BaseInv, TypeOK, IsPass
<1>3. pc' \in {"scale", "finish"} /\ todo' \in Seq(Role)
  BY <1>2 DEF Prune
<1>4. queued' \in BOOLEAN
  BY DEF Prune
<1>5. TypeOK'
  BY <1>1, <1>2, <1>3, <1>4 DEF Prune, BaseInv, TypeOK
<1>6. \A j \in Live(runs') : j \in Live(runs) /\ runs'[j] = runs[j]
  BY DEF Prune, Live
<1>7. PruneInv'
  BY <1>3, <1>6 DEF PruneInv, BaseInv
<1>8. QED
  BY <1>5, <1>7 DEF BaseInv

LEMMA BaseStep ==
  ASSUME BaseInv, [Next]_vars
  PROVE  BaseInv'
<1> USE DEF BaseInv
<1>1. CASE UNCHANGED vars
  BY <1>1 DEF vars, teamVars, world, TypeOK, PruneInv
<1>2. CASE Reconcile
  <2>1. UNCHANGED <<agents, team, runs, clock>>
    BY <1>2 DEF Reconcile, world
  <2>2. fresh' \in BOOLEAN
    BY <1>2 DEF Reconcile
  <2>3. CASE \E reason : Refused(reason)
    <3>1. PICK reason : Refused(reason)
      BY <2>3
    <3>2. "ready" \in DOMAIN NewTeamStatus
      BY DEF NewTeamStatus
    <3>3. IsStatus(status')
      BY <3>1, <3>2, StatusFields DEF Refused, TypeOK
    <3>4. queued' \in BOOLEAN /\ pc' = "idle"
      BY <1>2, <3>1 DEF Refused, Reconcile
    <3>5. QED
      BY <2>1, <2>2, <3>3, <3>4, RunsAside DEF TypeOK
  <2>4. CASE queued' = FALSE /\ UNCHANGED <<status, pc, in, todo>>
    <3>1. pc = "idle"
      BY <1>2 DEF Reconcile
    <3>2. QED
      BY <2>1, <2>2, <2>4, <3>1, RunsAside DEF TypeOK
  <2>5. CASE /\ queued' = FALSE
             /\ in' = [team |-> team, status |-> status, runs |-> <<>>, now |-> 0, zero |-> TRUE]
             /\ todo' = IF team.mode = "routed" THEN <<>> ELSE team.roles
             /\ pc' = IF team.mode = "routed" THEN "list" ELSE "roles"
             /\ UNCHANGED status
    <3>1. todo' \in Seq(Role)
      BY <2>5, TeamFacts DEF TypeOK
    <3>2. IsPass(in')
      BY <2>5 DEF IsPass, TypeOK
    <3>3. pc' \in {"list", "roles"}
      BY <2>5
    <3>4. QED
      BY <2>1, <2>2, <2>5, <3>1, <3>2, <3>3, RunsAside DEF TypeOK
  <2>6. QED
    BY <1>2, <2>3, <2>4, <2>5 DEF Reconcile
<1>3. ASSUME NEW cached \in BOOLEAN, ReconcileRole(cached) PROVE BaseInv'
  <2>1. /\ \A x \in DOMAIN agents' : IsAgent(agents'[x])
        /\ queued' = (queued \/ OwnedChange(agents'))
        /\ todo # <<>> /\ todo' = Tail(todo) /\ pc = "roles"
    BY <1>3, RoleVisited
  <2>2. UNCHANGED <<status, pc, in, fresh, team, runs, clock>>
    BY <1>3 DEF ReconcileRole, world
  <2>3. queued' \in BOOLEAN
    BY <2>1
  <2>4. todo' \in Seq(Role)
    BY <2>1, HeadTail DEF TypeOK
  <2>5. QED
    BY <2>1, <2>2, <2>3, <2>4, RunsAside DEF TypeOK
<1>4. CASE CallFails
  <2> DEFINE reason == IF in.team.mode = "pipeline" THEN "RolesNotReady" ELSE "ReconcileError"
             s == IF pc = "list" \/ todo = <<>> THEN status ELSE [in.status EXCEPT !.ready = reason]
  <2>1. PassEnds(s, TRUE, Nil) /\ UNCHANGED <<agents, team, runs, clock>> /\ pc # "idle"
    BY <1>4 DEF CallFails, world
  <2>2. IsStatus(s)
    <3>1. IsStatus(in.status) /\ "ready" \in DOMAIN NewTeamStatus
      BY <2>1 DEF TypeOK, IsPass, NewTeamStatus
    <3> HIDE DEF reason
    <3>2. QED
      BY <3>1, StatusFields DEF TypeOK
  <2> HIDE DEF s
  <2>3. TypeOK' /\ pc' = "idle"
    BY <2>1, <2>2, EndTyped DEF PassEnds
  <2>4. QED
    BY <2>1, <2>3, RunsAside
<1>5. CASE ListRuns
  <2>1. IsPass(in') /\ in'.runs = runs /\ in'.now = clock
    BY <1>5, ListFacts
  <2>2. UNCHANGED <<status, todo, fresh, queued, agents, team, runs, clock>> /\ pc' = "prune" /\ pc # "idle"
    BY <1>5 DEF ListRuns, world
  <2>3. TypeOK'
    BY <2>1, <2>2 DEF TypeOK
  <2>4. PruneInv'
    BY <2>1, <2>2 DEF PruneInv, Live
  <2>5. QED
    BY <2>3, <2>4
<1>6. CASE PruneRuns \/ PruneFails
  BY <1>6, PruneTyped DEF PruneRuns, PruneFails
<1>7. CASE ScaleRole
  <2>1. /\ IsPass(in') /\ \A x \in DOMAIN agents' : IsAgent(agents'[x])
        /\ queued' = (queued \/ OwnedChange(agents'))
        /\ todo # <<>> /\ todo' = Tail(todo) /\ pc = "scale"
    BY <1>7, ScaleFacts
  <2>2. UNCHANGED <<status, pc, fresh, team, runs, clock>>
    BY <1>7 DEF ScaleRole, world
  <2>3. queued' \in BOOLEAN
    BY <2>1
  <2>4. todo' \in Seq(Role)
    BY <2>1, HeadTail DEF TypeOK
  <2>5. QED
    BY <2>1, <2>2, <2>3, <2>4, RunsAside DEF TypeOK
<1>8. CASE ScaleFails
  <2>1. UNCHANGED <<status, in, fresh, queued, agents, team, runs, clock>> /\ pc # "idle" /\ pc' = "finish" /\ todo' = <<>>
    BY <1>8 DEF ScaleFails, world
  <2>2. QED
    BY <2>1, RunsAside DEF TypeOK
<1>9. CASE Finish
  <2>1. pc # "idle" /\ UNCHANGED <<agents, team, runs, clock>>
    BY <1>9 DEF Finish, world
  <2>2. IsStatus(in.status)
    BY <2>1 DEF TypeOK, IsPass
  <2>3. PICK s, z, after :
          /\ s = [in.status EXCEPT !.ready = "Reconciled", !.zero = z]
          /\ PassEnds(IF in.team.mode = "dynamic" THEN [s EXCEPT !.phase = "Ready"]
                      ELSE mirrorRunPhaseToTeam(s, in.runs), FALSE, after)
    BY <1>9 DEF Finish
  <2>4. {"ready", "zero", "phase"} \subseteq DOMAIN NewTeamStatus
    BY DEF NewTeamStatus
  <2>5. IsStatus(s)
    <3> DEFINE u == [in.status EXCEPT !.ready = "Reconciled"]
    <3>1. IsStatus(u)
      BY <2>2, <2>4, StatusFields
    <3>2. s = [u EXCEPT !.zero = z]
      BY <2>3
    <3> HIDE DEF u
    <3>3. QED
      BY <2>4, <3>1, <3>2, StatusFields
  <2>6. IsStatus([s EXCEPT !.phase = "Ready"]) /\ IsStatus(mirrorRunPhaseToTeam(s, in.runs))
    BY <2>4, <2>5, StatusFields, Mirrored
  <2>7. TypeOK' /\ pc' = "idle"
    BY <2>1, <2>3, <2>6, EndTyped DEF PassEnds
  <2>8. QED
    BY <2>1, <2>7, RunsAside
<1>10. CASE RegistryGet \/ RegistryStatus \/ RegistryStatusFails \/ \E a \in DOMAIN agents : RegistryAnnotateFails(a)
  <2>1. UNCHANGED <<teamVars, agents, world>>
    BY <1>10 DEF RegistryGet, RegistryStatus, RegistryStatusFails, RegistryAnnotateFails
  <2>2. QED
    BY <2>1, RunsAside DEF TypeOK, teamVars, world
<1>11. ASSUME NEW a \in DOMAIN agents, RegistryAnnotate(a) \/ PodsFollow(a) PROVE BaseInv'
  <2>1. /\ \A x \in DOMAIN agents' : IsAgent(agents'[x])
        /\ queued' = (queued \/ OwnedChange(agents'))
    BY <1>11, AnnotateTyped, FollowTyped
  <2>2. UNCHANGED <<status, pc, in, todo, fresh, world>>
    BY <1>11 DEF RegistryAnnotate, PodsFollow
  <2>3. queued' \in BOOLEAN
    BY <2>1
  <2>4. QED
    BY <2>1, <2>2, <2>3, RunsAside DEF TypeOK, world
<1>12. CASE StepMoves
  <2>1. PICK i \in DOMAIN runs : RunMoves(i)
    BY <1>12, StepsMove
  <2>2. queued' = TRUE /\ UNCHANGED <<status, pc, in, todo, fresh, agents, team, clock>>
    BY <1>12, StepsMove
  <2>3. TypeOK'
    BY <2>1, <2>2 DEF TypeOK, RunMoves
  <2>4. QED
    BY <2>1, <2>2, <2>3, RunsOnwards
<1>13. CASE CreateRun
  <2>1. queued' = TRUE /\ UNCHANGED <<status, pc, in, todo, fresh, agents, team, clock>>
    BY <1>13 DEF CreateRun, RunsChange
  <2>2. QED
    BY <1>13, <2>1, RunCreated, RunsGrow DEF TypeOK
<1>14. CASE EditTeam
  <2>1. team' \in Teams
    BY <1>14, TeamFacts DEF EditTeam, TypeOK
  <2>2. QED
    BY <1>14, <2>1, RunsAside DEF EditTeam, TypeOK
<1>15. CASE EditTrigger \/ DeleteRegistry
  BY <1>15, RunsAside DEF EditTrigger, DeleteRegistry, teamVars, TypeOK
<1>16. ASSUME NEW a \in DOMAIN agents, DeleteAgent(a) PROVE BaseInv'
  <2>1. \A x \in DOMAIN agents' : IsAgent(agents'[x])
    BY <1>16 DEF DeleteAgent, AgentsChange, TypeOK
  <2>2. queued' = TRUE /\ UNCHANGED <<status, pc, in, todo, fresh, team, runs, clock>>
    BY <1>16 DEF DeleteAgent
  <2>3. QED
    BY <2>1, <2>2, RunsAside DEF TypeOK
<1>17. CASE Tick
  BY <1>17, RunsAside DEF Tick, teamVars, TypeOK
<1>18. CASE WakeUp
  BY <1>18, RunsAside DEF WakeUp, world, TypeOK
<1>19. CASE Restart
  BY <1>19, RunsAside DEF Restart, world, TypeOK
<1>20. QED
  BY <1>1, <1>2, <1>3, <1>4, <1>5, <1>6, <1>7, <1>8, <1>9, <1>10, <1>11, <1>12, <1>13, <1>14, <1>15,
     <1>16, <1>17, <1>18, <1>19
     DEF Next, TeamPass, TeamFails, RegistryPass, RegistryFails, Edits

-----------------------------------------------------------------------------
(* The team's controller *)

LEMMA RestIsCurrent == TeamInv => TeamIsCurrent
<1>1. ASSUME NEW role, Settled(team, role, agents)
      PROVE  /\ role.name \in DOMAIN agents
             /\ agents[role.name].def = role.def /\ agents[role.name].registry = team.registry
             /\ Routes(role.name) = AskedOf(role)
  BY <1>1 DEF Settled, Routes, AskedOf
<1>2. QED
  BY <1>1 DEF TeamInv, AtRest, TeamIsCurrent

LEMMA TeamInitially == Init => TeamInv
  BY DEF Init, TeamInv

\* An agent of the team that nobody has told the team about has not changed.
LEMMA OwnedStay ==
  ASSUME TypeOK, ~OwnedChange(agents'), NEW role \in ToSet(team.roles), Inline(role)
  PROVE  /\ Settled(team, role, agents) => Settled(team, role, agents')
         /\ role.name \in DOMAIN agents' => role.name \in DOMAIN agents
<1>1. role.name \notin DOMAIN OtherAgents
  BY TeamFacts DEF TypeOK
<1>2. role.name \in DOMAIN agents \cup DOMAIN agents' =>
        role.name \in DOMAIN agents /\ role.name \in DOMAIN agents' /\ agents'[role.name] = agents[role.name]
  BY <1>1 DEF OwnedChange
<1>3. QED
  BY <1>2 DEF Settled

\* Something brings the team back.
LEMMA Brought ==
  ASSUME queued' = TRUE, pc' # "idle" /\ fresh' => in'.team = team'
  PROVE  TeamInv'
  BY DEF TeamInv

\* Agents change beside the pass.
LEMMA AgentsAside ==
  ASSUME TypeOK, TeamInv, queued' = (queued \/ OwnedChange(agents')),
         UNCHANGED <<team, status, pc, in, todo, fresh, runs>>
  PROVE  TeamInv'
<1>1. ~queued' => ~queued /\ ~OwnedChange(agents')
  BY DEF TypeOK
<1>2. ASSUME ~queued' PROVE Onwards => Onwards'
  BY <1>1, <1>2, OwnedStay DEF Onwards
<1>3. ASSUME ~queued' PROVE AtRest => AtRest'
  BY <1>1, <1>3, OwnedStay DEF AtRest
<1>4. QED
  BY <1>1, <1>2, <1>3 DEF TeamInv

LEMMA SameStatus ==
  ASSUME NEW a, NEW b, IsStatus(a), IsStatus(b), \A f \in DOMAIN NewTeamStatus : a[f] = b[f]
  PROVE  a = b
  BY DEF IsStatus

LEMMA WrittenAgain ==
  ASSUME NEW s, IsStatus(s), NEW f \in DOMAIN NewTeamStatus
  PROVE  [s EXCEPT ![f] = s[f]] = s
<1>1. IsStatus([s EXCEPT ![f] = s[f]]) /\ \A g \in DOMAIN NewTeamStatus : [s EXCEPT ![f] = s[f]][g] = s[g]
  BY StatusFields
<1>2. QED
  BY <1>1, SameStatus

\* mirrorRunPhaseToTeam on what it returned changes nothing.
LEMMA MirrorTwice ==
  ASSUME NEW s, IsStatus(s), s.ready = "Reconciled", NEW rs
  PROVE  LET m == mirrorRunPhaseToTeam(s, rs)
         IN  m = [mirrorRunPhaseToTeam(m, rs) EXCEPT !.ready = "Reconciled"]
<1> DEFINE l == latestRunFromList(rs)
           p == IF rs[l].phase \in {"Running", "Succeeded", "Failed"} THEN rs[l].phase ELSE "Ready"
           m == mirrorRunPhaseToTeam(s, rs)
<1>1. {"phase", "lastRun", "ready"} \subseteq DOMAIN NewTeamStatus
  BY DEF NewTeamStatus
<1>2. IsStatus(m)
  BY Mirrored
<1>3. CASE l = Nil
  <2>1. m = [s EXCEPT !.phase = "Ready"] /\ mirrorRunPhaseToTeam(m, rs) = [m EXCEPT !.phase = "Ready"]
    BY <1>3 DEF mirrorRunPhaseToTeam
  <2> HIDE DEF m
  <2>2. m.phase = "Ready" /\ m.ready = "Reconciled"
    BY <1>1, <2>1, StatusFields
  <2>3. [m EXCEPT !.phase = "Ready"] = m /\ [m EXCEPT !.ready = "Reconciled"] = m
    BY <1>1, <1>2, <2>2, WrittenAgain
  <2>4. QED
    BY <2>1, <2>3 DEF m
<1>4. CASE l # Nil
  <2> DEFINE u == [s EXCEPT !.lastRun = l]
             w == [m EXCEPT !.lastRun = l]
  <2>1. m = [u EXCEPT !.phase = p] /\ mirrorRunPhaseToTeam(m, rs) = [w EXCEPT !.phase = p]
    BY <1>4 DEF mirrorRunPhaseToTeam
  <2> HIDE DEF m, p, l
  <2>2. IsStatus(u) /\ u.lastRun = l /\ u.ready = "Reconciled"
    BY <1>1, StatusFields
  <2> HIDE DEF u
  <2>3. m.phase = p /\ m.lastRun = l /\ m.ready = "Reconciled"
    BY <1>1, <2>1, <2>2, StatusFields
  <2>4. w = m
    BY <1>1, <1>2, <2>3, WrittenAgain
  <2> HIDE DEF w
  <2>5. [m EXCEPT !.phase = p] = m /\ [m EXCEPT !.ready = "Reconciled"] = m
    BY <1>1, <1>2, <2>3, WrittenAgain
  <2>6. QED
    BY <2>1, <2>4, <2>5 DEF m
<1>5. QED
  BY <1>3, <1>4

\* The end of a pass.
LEMMA TeamFinishes ==
  ASSUME TypeOK, TeamInv, Finish
  PROVE  TeamInv'
<1>1. pc # "idle" /\ UNCHANGED <<agents, team, runs, clock>>
  BY DEF Finish, world
<1>2. IsStatus(in.status)
  BY <1>1 DEF TypeOK, IsPass
<1>3. PICK s, z, after :
        /\ s = [in.status EXCEPT !.ready = "Reconciled", !.zero = z]
        /\ PassEnds(IF in.team.mode = "dynamic" THEN [s EXCEPT !.phase = "Ready"]
                    ELSE mirrorRunPhaseToTeam(s, in.runs), FALSE, after)
  BY DEF Finish
<1>4. IsStatus(s) /\ s.ready = "Reconciled"
  <2> DEFINE u == [in.status EXCEPT !.ready = "Reconciled"]
  <2>1. {"ready", "zero"} \subseteq DOMAIN NewTeamStatus /\ "ready" # "zero"
    BY DEF NewTeamStatus
  <2>2. IsStatus(u) /\ u.ready = "Reconciled"
    BY <1>2, <2>1, StatusFields
  <2>3. s = [u EXCEPT !.zero = z]
    BY <1>3
  <2> HIDE DEF u
  <2>4. QED
    BY <2>1, <2>2, <2>3, StatusFields
<1>5. pc' = "idle" /\ fresh' = fresh /\ (~fresh => queued')
  BY <1>3 DEF PassEnds
<1>6. ASSUME ~queued' PROVE AtRest'
  <2>1. /\ ~queued /\ fresh
        /\ status' = IF in.team.mode = "dynamic" THEN [s EXCEPT !.phase = "Ready"]
                     ELSE mirrorRunPhaseToTeam(s, in.runs)
    BY <1>3, <1>6 DEF PassEnds, TypeOK
  <2>2. in.team = team /\ Onwards
    BY <1>1, <2>1 DEF TeamInv
  <2>3. pc = "finish" \/ pc = "scale" \/ (pc = "roles" /\ todo = <<>> /\ team.mode = "dynamic")
    BY <2>2 DEF Finish
  <2>4. Managed(team) => team.mode # "routed"
    BY DEF Managed
  <2>5. Managed(team) => \A role \in ToSet(team.roles) : Inline(role) => Settled(team, role, agents)
    <3>1. ToSet(<<>>) = {}
      BY DEF ToSet
    <3>2. QED
      BY <2>2, <2>3, <2>4, <3>1 DEF Onwards
  <2>6. ASSUME team.mode # "dynamic"
        PROVE  status' = [mirrorRunPhaseToTeam(status', runs) EXCEPT !.ready = "Reconciled"]
    <3>1. in.runs = runs
      BY <2>2, <2>3, <2>6 DEF Onwards
    <3>2. status' = mirrorRunPhaseToTeam(s, runs)
      BY <2>1, <2>2, <2>6, <3>1
    <3>3. QED
      BY <1>4, <3>2, MirrorTwice
  <2>7. QED
    BY <1>1, <2>5, <2>6 DEF AtRest, Managed
<1>7. QED
  BY <1>5, <1>6 DEF TeamInv

LEMMA TeamStarts ==
  ASSUME TypeOK, TeamInv, Reconcile
  PROVE  TeamInv'
<1>1. UNCHANGED <<agents, team, runs>> /\ fresh' = TRUE /\ pc = "idle"
  BY DEF Reconcile, world
<1>2. CASE team.mode = "dynamic" /\ status.phase = Nil /\ template
  <2>1. UNCHANGED <<status, pc>>
    BY <1>2 DEF Reconcile
  <2>2. QED
    BY <1>1, <1>2, <2>1 DEF TeamInv
<1>3. CASE \/ team.mode = "dynamic" /\ ~(status.phase = Nil /\ template) /\ ~validateTopology(team)
           \/ team.mode = "pipeline" /\ ~validatePipelineDAG(team)
  <2>1. UNCHANGED <<pc, in, todo>>
    BY <1>3 DEF Reconcile, Refused
  <2>2. ~Managed(team) /\ team.mode # "routed"
    BY <1>3 DEF Managed
  <2>3. AtRest'
    BY <1>1, <2>2 DEF AtRest, Managed
  <2>4. QED
    BY <1>1, <2>1, <2>3 DEF TeamInv
<1>4. CASE /\ ~(team.mode = "dynamic" /\ status.phase = Nil /\ template)
           /\ ~(team.mode = "dynamic" /\ ~(status.phase = Nil /\ template) /\ ~validateTopology(team))
           /\ ~(team.mode = "pipeline" /\ ~validatePipelineDAG(team))
  <2>1. /\ in' = [team |-> team, status |-> status, runs |-> <<>>, now |-> 0, zero |-> TRUE]
        /\ todo' = IF team.mode = "routed" THEN <<>> ELSE team.roles
        /\ pc' = IF team.mode = "routed" THEN "list" ELSE "roles"
    BY <1>4 DEF Reconcile
  <2>2. in'.team = team
    BY <2>1
  <2>3. Onwards'
    BY <1>1, <2>1 DEF Onwards
  <2>4. QED
    BY <1>1, <2>1, <2>2, <2>3 DEF TeamInv
<1>5. QED
  BY <1>2, <1>3, <1>4

LEMMA TeamStep ==
  ASSUME BaseInv, TeamInv, [Next]_vars
  PROVE  TeamInv'
<1>0. TypeOK /\ PruneInv
  BY DEF BaseInv
<1>a. ASSUME UNCHANGED <<team, status, pc, in, todo, fresh, queued, agents, runs>> PROVE TeamInv'
  BY <1>a DEF TeamInv, Onwards, AtRest
<1>1. CASE UNCHANGED vars
  BY <1>1, <1>a DEF vars, teamVars, world
<1>2. CASE Reconcile \/ Finish
  BY <1>0, <1>2, TeamStarts, TeamFinishes
<1>3. ASSUME NEW cached \in BOOLEAN, ReconcileRole(cached) PROVE TeamInv'
  <2>1. /\ queued' = (queued \/ OwnedChange(agents'))
        /\ todo # <<>> /\ todo' = Tail(todo) /\ pc = "roles"
        /\ Inline(Head(todo)) =>
             \/ Settled(in.team, Head(todo), agents')
             \/ Head(todo).name \notin DOMAIN agents /\ Head(todo).name \in DOMAIN agents'
    BY <1>0, <1>3, RoleVisited
  <2>2. UNCHANGED <<status, pc, in, fresh, team, runs>>
    BY <1>3 DEF ReconcileRole, world
  <2>3. ~queued' => ~queued /\ ~OwnedChange(agents')
    BY <1>0, <2>1 DEF TypeOK
  <2>4. ASSUME ~queued' PROVE Onwards'
    <3>1. in.team = team /\ Onwards
      BY <2>1, <2>3, <2>4 DEF TeamInv
    <3>2. ToSet(todo) = {Head(todo)} \cup ToSet(todo')
      BY <1>0, <2>1, HeadTail DEF TypeOK
    <3>3. ASSUME team.mode # "routed", NEW role \in ToSet(team.roles), Inline(role), role \notin ToSet(todo')
          PROVE  Settled(team, role, agents')
      <4>1. CASE role = Head(todo)
        BY <1>0, <2>1, <2>3, <2>4, <3>1, <3>3, <4>1, OwnedStay
      <4>2. CASE role # Head(todo)
        <5>1. Settled(team, role, agents)
          BY <3>1, <3>2, <3>3, <4>2 DEF Onwards
        <5>2. QED
          BY <1>0, <2>3, <2>4, <3>3, <5>1, OwnedStay
      <4>3. QED
        BY <4>1, <4>2
    <3>4. QED
      BY <2>1, <2>2, <3>3 DEF Onwards
  <2>5. QED
    BY <2>1, <2>2, <2>3, <2>4 DEF TeamInv
<1>4. CASE CallFails
  <2>1. queued' = TRUE /\ pc' = "idle"
    BY <1>4 DEF CallFails, PassEnds
  <2>2. QED
    BY <2>1, Brought
<1>5. CASE ListRuns
  <2>1. in'.team = in.team /\ in'.runs = runs
    BY <1>0, <1>5, ListFacts
  <2>2. UNCHANGED <<status, todo, fresh, queued, agents, team, runs>> /\ pc' = "prune" /\ pc # "idle"
    BY <1>5 DEF ListRuns, world
  <2>3. ASSUME ~queued PROVE Onwards'
    <3>1. in.team = team /\ Onwards
      BY <2>2, <2>3 DEF TeamInv
    <3>2. pc = "list" \/ (pc = "roles" /\ todo = <<>> /\ team.mode = "pipeline")
      BY <1>5, <3>1 DEF ListRuns
    <3>3. ToSet(<<>>) = {}
      BY DEF ToSet
    <3>4. QED
      BY <2>1, <2>2, <3>1, <3>2, <3>3 DEF Onwards
  <2>4. QED
    BY <2>1, <2>2, <2>3 DEF TeamInv
<1>6. CASE PruneRuns \/ PruneFails
  <2>1. PICK set : Prune(set)
    BY <1>6 DEF PruneRuns, PruneFails
  <2>2. pc = "prune" /\ pc' \in {"scale", "finish"} /\ UNCHANGED <<status, in, fresh, agents, team>>
    BY <1>6, <2>1 DEF PruneRuns, PruneFails, Prune
  <2>3. ~queued' => ~queued /\ runs' = runs
    BY <1>0, <2>1 DEF Prune, TypeOK
  <2>4. ASSUME ~queued' PROVE Onwards'
    <3>1. Onwards
      BY <2>2, <2>3, <2>4 DEF TeamInv
    <3>2. QED
      BY <2>2, <2>3, <2>4, <3>1 DEF Onwards
  <2>5. QED
    BY <2>2, <2>3, <2>4 DEF TeamInv
<1>7. CASE ScaleRole
  <2>1. /\ in'.team = in.team /\ in'.runs = in.runs
        /\ queued' = (queued \/ OwnedChange(agents')) /\ pc = "scale"
    BY <1>0, <1>7, ScaleFacts
  <2>2. UNCHANGED <<status, pc, fresh, team, runs>>
    BY <1>7 DEF ScaleRole, world
  <2>3. ~queued' => ~queued /\ ~OwnedChange(agents')
    BY <1>0, <2>1 DEF TypeOK
  <2>4. ASSUME ~queued' PROVE Onwards'
    <3>1. Onwards
      BY <2>1, <2>3, <2>4 DEF TeamInv
    <3>2. QED
      BY <1>0, <2>1, <2>2, <2>3, <2>4, <3>1, OwnedStay DEF Onwards
  <2>5. QED
    BY <2>1, <2>2, <2>3, <2>4 DEF TeamInv
<1>8. CASE ScaleFails
  <2>1. UNCHANGED <<status, in, fresh, queued, agents, team, runs>> /\ pc = "scale" /\ pc' = "finish"
    BY <1>8 DEF ScaleFails, world
  <2>2. QED
    BY <2>1 DEF TeamInv, Onwards
<1>9. CASE RegistryGet \/ RegistryStatus \/ RegistryStatusFails \/ \E a \in DOMAIN agents : RegistryAnnotateFails(a)
  <2>1. UNCHANGED <<teamVars, agents, world>>
    BY <1>9 DEF RegistryGet, RegistryStatus, RegistryStatusFails, RegistryAnnotateFails
  <2>2. QED
    BY <2>1, <1>a DEF teamVars, world
<1>10. ASSUME NEW a \in DOMAIN agents, RegistryAnnotate(a) \/ PodsFollow(a) PROVE TeamInv'
  <2>1. queued' = (queued \/ OwnedChange(agents'))
    BY <1>0, <1>10, AnnotateTyped, FollowTyped
  <2>2. UNCHANGED <<status, pc, in, todo, fresh, world>>
    BY <1>10 DEF RegistryAnnotate, PodsFollow
  <2>3. QED
    BY <1>0, <2>1, <2>2, AgentsAside DEF world
<1>11. CASE StepMoves \/ CreateRun
  <2>1. queued' = TRUE /\ UNCHANGED <<pc, in, fresh, team>>
    BY <1>0, <1>11, StepsMove DEF CreateRun, RunsChange
  <2>2. QED
    BY <2>1, Brought DEF TeamInv
<1>12. CASE EditTeam \/ EditTrigger \/ \E a \in DOMAIN agents : DeleteAgent(a)
  <2>1. queued' = TRUE /\ (fresh' => UNCHANGED <<pc, in, fresh, team>>)
    BY <1>12 DEF EditTeam, EditTrigger, DeleteAgent
  <2>2. QED
    BY <2>1, Brought DEF TeamInv
<1>13. CASE DeleteRegistry \/ Tick
  BY <1>13, <1>a DEF DeleteRegistry, Tick, teamVars
<1>14. CASE WakeUp
  <2>1. queued' = TRUE /\ UNCHANGED <<pc, in, fresh, team>>
    BY <1>14 DEF WakeUp, world
  <2>2. QED
    BY <2>1, Brought DEF TeamInv
<1>15. CASE Restart
  BY <1>15, Brought DEF Restart
<1>16. QED
  BY <1>1, <1>2, <1>3, <1>4, <1>5, <1>6, <1>7, <1>8, <1>9, <1>10, <1>11, <1>12, <1>13, <1>14, <1>15
     DEF Next, TeamPass, TeamFails, RegistryPass, RegistryFails, Edits

\* Both controllers come to rest only when what they are responsible for agrees
\* with the objects of that moment, for any team specs and agents and whatever
\* edits, failed calls, stale passes, restarts and writes of the other controller
\* came in between: every inline role has its agent, with the role's definition
\* and queue, the status shows the latest run, and the registry's index and status
\* are those of the agents (Reconcile of SwarmTeam and SwarmRegistry).
THEOREM ControlAtRest == Spec => []ControlIsCurrent
<1>1. IndexInv => IndexIsCurrent
  BY DEF IndexInv, IndexIsCurrent
<1>2. Init => BaseInv
  BY TypesInit DEF BaseInv
<1>3. BaseInv /\ TeamInv /\ [Next]_vars => BaseInv' /\ TeamInv'
  BY BaseStep, TeamStep
<1>4. QED
  BY IndexInitially, IndexStep, TeamInitially, RestIsCurrent, <1>1, <1>2, <1>3, PTL DEF Spec, ControlIsCurrent

-----------------------------------------------------------------------------
(* Retention *)

LEMMA ExcessLeaves ==
  ASSUME NEW rs, NEW set, IsFiniteSet(set), NEW limit \in Nat, NEW d \in Excess(rs, set, limit), NEW i \in d
  PROVE  /\ i \in set /\ d \subseteq set
         /\ Cardinality(set \ d) = limit
         /\ \A j \in set \ d : rs[i].done <= rs[j].done
<1>1. /\ d \subseteq set
      /\ Cardinality(d) = IF Cardinality(set) > limit THEN Cardinality(set) - limit ELSE 0
      /\ \A k \in d, j \in set \ d : rs[k].done <= rs[j].done
  BY DEF Excess
<1>2. IsFiniteSet(d) /\ Cardinality(d) \in Nat /\ Cardinality(set) \in Nat
  BY <1>1, FS_Subset, FS_CardinalityType
<1>3. Cardinality(d) # 0
  BY <1>2, FS_EmptySet
<1>4. Cardinality(d) = Cardinality(set) - limit
  BY <1>1, <1>3
<1>5. set \cap d = d
  BY <1>1
<1>6. Cardinality(set \ d) = Cardinality(set) - Cardinality(d)
  BY <1>5, FS_Difference
<1>7. Cardinality(set \ d) = limit
  BY <1>2, <1>4, <1>6
<1>8. QED
  BY <1>1, <1>7

\* What the deletions of a pass may take.
LEMMA PruneSpares ==
  ASSUME BaseInv, pc = "prune", NEW set \in pruneRuns(in.team, in.runs, in.now), NEW some \in SUBSET set,
         runs' = [i \in DOMAIN runs |-> IF i \in some THEN Nil ELSE runs[i]],
         NEW i \in DOMAIN runs, runs[i] # Nil, runs'[i] = Nil
  PROVE  LET kept == {j \in Live(runs') : runs'[j].phase = runs[i].phase /\ runs'[j].done >= runs[i].done}
             limit == IF runs[i].phase = "Succeeded" THEN in.team.keepSucceeded ELSE in.team.keepFailed
         IN  /\ Terminal(runs[i].phase)
             /\ \/ in.team.retain # Nil /\ clock - runs[i].done > in.team.retain
                \/ Cardinality(kept) >= limit
<1> DEFINE rs == in.runs
           t == in.team
           done == {j \in Live(rs) : Terminal(rs[j].phase)}
           aged == {j \in done : t.retain # Nil /\ in.now - rs[j].done > t.retain}
           of(phase) == {j \in done \ aged : rs[j].phase = phase}
           kept == {j \in Live(runs') : runs'[j].phase = runs[i].phase /\ runs'[j].done >= runs[i].done}
<1>1. PICK d \in Excess(rs, of("Succeeded"), t.keepSucceeded), e \in Excess(rs, of("Failed"), t.keepFailed) :
        set = aged \cup d \cup e
  BY DEF pruneRuns
<1>2. /\ runs \in Seq(Run \cup {Nil}) /\ rs \in Seq(Run \cup {Nil}) /\ t \in Teams
      /\ t.keepSucceeded \in Nat /\ t.keepFailed \in Nat
  BY TeamFacts DEF BaseInv, TypeOK, IsPass
<1>3. /\ in.now = clock
      /\ \A j \in done : j \in DOMAIN runs /\ runs[j] = rs[j] /\ runs[j].done \in Nat
  <2>1. in.now = clock /\ \A j \in done : j \in DOMAIN runs /\ runs[j] = rs[j]
    BY DEF BaseInv, PruneInv
  <2>2. \A j \in done : j \in Live(runs) /\ Terminal(runs[j].phase)
    BY <2>1 DEF Live
  <2>3. QED
    BY <2>1, <2>2 DEF BaseInv, PruneInv
<1>4. i \in some
  OBVIOUS
<1>5. IsFiniteSet(done)
  <2>1. IsFiniteSet(DOMAIN rs) /\ done \subseteq DOMAIN rs
    <3>1. DOMAIN rs = 1 .. Len(rs) /\ Len(rs) \in Int /\ 1 \in Int
      BY <1>2
    <3>2. IsFiniteSet(1 .. Len(rs))
      BY <3>1, FS_Interval
    <3>3. done \subseteq DOMAIN rs
      BY DEF Live
    <3>4. QED
      BY <3>1, <3>2, <3>3
  <2>2. QED
    BY <2>1, FS_Subset
<1>6. \A phase : IsFiniteSet(of(phase)) /\ of(phase) \subseteq done
  BY <1>5, FS_Subset
<1>7. d \subseteq of("Succeeded") /\ e \subseteq of("Failed")
  <2> HIDE DEF of
  <2>1. QED
    BY DEF Excess
<1>8. i \in done
  BY <1>1, <1>4, <1>7
<1>9. Terminal(runs[i].phase) /\ runs[i] = rs[i]
  BY <1>3, <1>8
<1>10. CASE i \in aged
  BY <1>3, <1>9, <1>10
<1>11. ASSUME NEW p, NEW q, q \in SUBSET of(p), i \in q, NEW limit \in Nat, Cardinality(of(p) \ q) = limit,
              \A j \in of(p) \ q : rs[i].done <= rs[j].done,
              \A j \in of(p) : j \in set => j \in q
       PROVE  Cardinality(kept) >= limit
  <2>1. ASSUME NEW j \in of(p) \ q PROVE j \in kept
    <3>1. j \in DOMAIN runs /\ runs[j] = rs[j] /\ runs[j].done \in Nat /\ runs[j] # Nil /\ rs[j].phase = p
      BY <1>3, <2>1 DEF Live
    <3>2. runs'[j] = runs[j] /\ j \in DOMAIN runs'
      BY <1>11, <2>1, <3>1
    <3>3. runs[i].phase = p /\ runs[i].done \in Nat
      BY <1>3, <1>8, <1>9, <1>11
    <3>4. runs[i].done <= runs[j].done
      BY <1>9, <1>11, <2>1, <3>1
    <3>5. runs'[j].done >= runs[i].done
      BY <3>1, <3>2, <3>3, <3>4
    <3>6. QED
      BY <3>1, <3>2, <3>3, <3>5 DEF Live
  <2>2. IsFiniteSet(kept)
    <3>1. IsFiniteSet(DOMAIN runs) /\ DOMAIN runs' = DOMAIN runs /\ kept \subseteq DOMAIN runs'
      <4>1. DOMAIN runs = 1 .. Len(runs) /\ Len(runs) \in Int /\ 1 \in Int
        BY <1>2
      <4>2. IsFiniteSet(1 .. Len(runs))
        BY <4>1, FS_Interval
      <4>3. DOMAIN runs' = DOMAIN runs /\ kept \subseteq DOMAIN runs'
        BY DEF Live
      <4>4. QED
        BY <4>1, <4>2, <4>3
    <3>2. QED
      BY <3>1, FS_Subset
  <2> HIDE DEF kept, of
  <2>3. of(p) \ q \subseteq kept
    BY <2>1
  <2>4. Cardinality(of(p) \ q) <= Cardinality(kept) /\ Cardinality(kept) \in Nat
    BY <2>2, <2>3, FS_Subset, FS_CardinalityType
  <2>5. QED
    BY <1>11, <2>4
<1>12. /\ aged \cap of("Succeeded") = {} /\ aged \cap of("Failed") = {} /\ of("Succeeded") \cap of("Failed") = {}
  OBVIOUS
<1>13. CASE i \in d
  <2>1. /\ Cardinality(of("Succeeded") \ d) = t.keepSucceeded
        /\ \A j \in of("Succeeded") \ d : rs[i].done <= rs[j].done
    <3> DEFINE S == of("Succeeded")
               limit == t.keepSucceeded
    <3>1. IsFiniteSet(S) /\ limit \in Nat /\ d \in Excess(rs, S, limit)
      BY <1>2, <1>6
    <3> HIDE DEF S, limit, of, done, aged, rs, t
    <3>2. Cardinality(S \ d) = limit /\ \A j \in S \ d : rs[i].done <= rs[j].done
      BY <1>13, <3>1, ExcessLeaves
    <3>3. QED
      BY <3>2 DEF S, limit
  <2>2. \A j \in of("Succeeded") : j \in set => j \in d
    BY <1>1, <1>7, <1>12
  <2>3. runs[i].phase = "Succeeded"
    BY <1>7, <1>9, <1>13
  <2>4. Cardinality(kept) >= t.keepSucceeded
    <3> HIDE DEF of, kept
    <3>1. QED
      BY <1>2, <1>7, <1>11, <1>13, <2>1, <2>2
  <2>5. QED
    BY <1>9, <2>3, <2>4
<1>14. CASE i \in e
  <2>1. /\ Cardinality(of("Failed") \ e) = t.keepFailed
        /\ \A j \in of("Failed") \ e : rs[i].done <= rs[j].done
    <3> DEFINE S == of("Failed")
               limit == t.keepFailed
    <3>1. IsFiniteSet(S) /\ limit \in Nat /\ e \in Excess(rs, S, limit)
      BY <1>2, <1>6
    <3> HIDE DEF S, limit, of, done, aged, rs, t
    <3>2. Cardinality(S \ e) = limit /\ \A j \in S \ e : rs[i].done <= rs[j].done
      BY <1>14, <3>1, ExcessLeaves
    <3>3. QED
      BY <3>2 DEF S, limit
  <2>2. \A j \in of("Failed") : j \in set => j \in e
    BY <1>1, <1>7, <1>12
  <2>3. runs[i].phase = "Failed"
    BY <1>7, <1>9, <1>14
  <2>4. Cardinality(kept) >= t.keepFailed
    <3> HIDE DEF of, kept
    <3>1. QED
      BY <1>2, <1>7, <1>11, <1>14, <2>1, <2>2
  <2>5. QED
    BY <1>9, <2>3, <2>4
<1>15. QED
  BY <1>1, <1>4, <1>10, <1>13, <1>14

\* Retention takes only runs that are done, and one that is not too old only
\* when as many as the limit, done no earlier, stay; for any limits and runs, a
\* list that is old by the time of the deletions, and deletions cut off by a
\* failed call (pruneRuns).
THEOREM PruningSpares == Spec => PruneKeeps
<1> DEFINE Spared(i) ==
             LET kept == {j \in Live(runs') : runs'[j].phase = runs[i].phase /\ runs'[j].done >= runs[i].done}
                 limit == IF runs[i].phase = "Succeeded" THEN in.team.keepSucceeded ELSE in.team.keepFailed
             IN  /\ Terminal(runs[i].phase)
                 /\ \/ in.team.retain # Nil /\ clock - runs[i].done > in.team.retain
                    \/ Cardinality(kept) >= limit
<1>1. BaseInv /\ [Next]_vars => [\A i \in DOMAIN runs : runs[i] # Nil /\ runs'[i] = Nil => Spared(i)]_vars
  <2> SUFFICES ASSUME BaseInv, [Next]_vars, NEW i \in DOMAIN runs, runs[i] # Nil, runs'[i] = Nil
               PROVE  Spared(i)
    OBVIOUS
  <2>1. CASE runs' = runs
    BY <2>1
  <2>2. CASE StepMoves
    <3>1. PICK k \in DOMAIN runs : RunMoves(k)
      BY <2>2, StepsMove DEF BaseInv
    <3>2. QED
      BY <3>1, TeamFacts DEF RunMoves
  <2>3. CASE CreateRun
    BY <2>3, RunCreated DEF BaseInv
  <2>4. CASE PruneRuns
    <3>1. PICK set \in pruneRuns(in.team, in.runs, in.now) : Prune(set)
      BY <2>4 DEF PruneRuns
    <3>2. pc = "prune" /\ runs' = [j \in DOMAIN runs |-> IF j \in set THEN Nil ELSE runs[j]] /\ set \in SUBSET set
      BY <2>4, <3>1 DEF PruneRuns, Prune
    <3>3. QED
      BY <3>1, <3>2, PruneSpares
  <2>5. CASE PruneFails
    <3>0. PICK set \in pruneRuns(in.team, in.runs, in.now) : \E some \in SUBSET set : some # set /\ Prune(some)
      BY <2>5 DEF PruneFails
    <3>1. PICK some \in SUBSET set : Prune(some)
      BY <3>0
    <3>2. pc = "prune" /\ runs' = [j \in DOMAIN runs |-> IF j \in some THEN Nil ELSE runs[j]]
      BY <2>5, <3>1 DEF PruneFails, Prune
    <3>3. QED
      BY <3>1, <3>2, PruneSpares
  <2>6. QED
    <3>1. CASE UNCHANGED vars
      BY <2>1, <3>1 DEF vars, world
    <3>2. CASE TeamPass
      BY <2>1, <2>4, <3>2 DEF TeamPass, Reconcile, ListRuns, ScaleRole, Finish, ReconcileRole, world
    <3>3. CASE TeamFails
      BY <2>1, <2>5, <3>3 DEF TeamFails, CallFails, ScaleFails, world
    <3>4. CASE RegistryPass \/ RegistryFails
      BY <2>1, <3>4 DEF RegistryPass, RegistryFails, RegistryGet, RegistryStatus, RegistryAnnotate,
         RegistryStatusFails, RegistryAnnotateFails, world
    <3>5. CASE Edits
      BY <2>1, <3>5 DEF Edits, EditTeam, EditTrigger, DeleteRegistry, DeleteAgent
    <3>6. CASE Tick \/ WakeUp \/ Restart
      BY <2>1, <3>6 DEF Tick, WakeUp, Restart, world
    <3>7. CASE \E a \in DOMAIN agents : PodsFollow(a)
      BY <2>1, <3>7 DEF PodsFollow, world
    <3>8. QED
      BY <2>2, <2>3, <3>1, <3>2, <3>3, <3>4, <3>5, <3>6, <3>7 DEF Next
<1>2. Init => BaseInv
  BY TypesInit DEF BaseInv
<1>3. QED
  BY <1>1, <1>2, BaseStep, PTL DEF Spec, PruneKeeps
=============================================================================
