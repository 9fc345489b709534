--------------------------- MODULE SearchRunProofs ---------------------------
(***************************************************************************)
(* Theorems about SearchRun: a stored node has its own task and moves      *)
(* forward, the planner sees settled nodes, and tasks are bounded by the   *)
(* limits of spec.search and the passes that were lost.                    *)
(*                                                                         *)
(* A pass that works on the tree (Working) has snapshotted the team with a *)
(* copy that was the stored one, so its tree extends the stored tree even  *)
(* when the update at its end will be refused.                             *)
(***************************************************************************)
EXTENDS SearchRun, FiniteSetTheorems, WellFoundedInduction, TLAPS

-----------------------------------------------------------------------------
(* Numbers.                                                                *)

LEMMA LeastNumber ==
  ASSUME NEW T, T \subseteq Nat, T # {}
  PROVE  \E n \in T : \A m \in T : n <= m
<1>1. IsWellFoundedOn(OpToRel(<, Nat), Nat)
  BY NatLessThanWellFounded
<1>2. PICK n \in T : \A m \in T : ~(<<m, n>> \in OpToRel(<, Nat))
  BY <1>1, WFMin, Zenon
<1>3. \A m \in Nat : m < n => <<m, n>> \in OpToRel(<, Nat)
  BY DEF OpToRel
<1>4. \A m \in T : ~(m < n)
  BY <1>2, <1>3
<1>5. QED
  BY <1>4

\* What is true of 0 and passes on to the next number is true up to N.
LEMMA UpTo ==
  ASSUME NEW N \in Nat, NEW S, 0 \in S, \A n \in 0 .. N - 1 : n \in S => n + 1 \in S
  PROVE  \A n \in 0 .. N : n \in S
<1> DEFINE T == {n \in 0 .. N : n \notin S}
<1> SUFFICES ASSUME T # {} PROVE FALSE
  BY DEF T
<1>1. T \subseteq Nat
  OBVIOUS
<1>2. PICK n \in T : \A m \in T : n <= m
  BY <1>1, LeastNumber
<1>3. n # 0 /\ n \in 0 .. N /\ n - 1 \in 0 .. N - 1
  BY <1>2
<1>4. n - 1 \notin T
  BY <1>2, <1>3
<1>5. QED
  BY <1>2, <1>3, <1>4

-----------------------------------------------------------------------------
(* The inductive invariants.                                               *)

\* Passes that work on the tree.
Working == pc \in {"collect", "submit", "plan", "answer", "resubmit"}

\* The passes whose update can succeed, or that work on the stored tree.
Grounded == Working \/ (pc \in {"load", "persist"} /\ memFresh)

RunningNodes(run) == InPhase(run.tree, "Running")

\* The tree new is what the pass may make of old.
Extends(old, new) ==
  \A n \in DOMAIN old.nodes :
    /\ n \in DOMAIN new.nodes
    /\ new.nodes[n].parent = old.nodes[n].parent
    /\ Rank(new.nodes[n].phase) >= Rank(old.nodes[n].phase)

\* Only a search that has ended has a solution.
Unsolved(run) ==
  /\ ~Terminal(run.phase) =>
       run.reason = "" /\ run.tree.solution = NoNode /\ InPhase(run.tree, "Solution") = {}
  /\ run.phase = "" => run.tree.nodes = <<>>
  /\ run.phase = "Running" \/ run.reason = "Timeout" => run.gen # NoTeam

FrameInv ==
  /\ cacheFresh => cache = api
  /\ pc = "load" /\ memFresh => mem = api
  /\ Unsolved(api) /\ (Grounded => Unsolved(mem))
  /\ team # NoTeam => api.gen <= team
  /\ Working => /\ ~Terminal(api.phase) /\ ~Terminal(mem.phase)
                /\ mem.gen = api.gen /\ mem.gen # NoTeam
                /\ mem.tree.iterations = api.tree.iterations
                /\ Extends(api.tree, mem.tree)
                /\ pc # "collect" => mem.phase = "Running"
  /\ pc = "persist" /\ memFresh => /\ ~Terminal(api.phase) /\ mem.gen = api.gen
                                   /\ Extends(api.tree, mem.tree)
                                   /\ mem.phase # ""

\* A node's task is its own, if i tasks were issued and by says for which nodes.
OwnedIn(nodes, i, by) ==
  \A n \in DOMAIN nodes :
    /\ nodes[n].task # NoTask => nodes[n].phase = "Running"
    /\ nodes[n].phase = "Running" => nodes[n].task # NoTask
    /\ nodes[n].task # NoTask => nodes[n].task \in 1 .. i /\ by[nodes[n].task] = n

\* A Scored node was answered.
AnsweredIn(nodes, i, by, led) ==
  \A n \in DOMAIN nodes :
    nodes[n].phase = "Scored" => \E t \in 1 .. i : by[t] = n /\ led[t] = "ok"

Owned(run) == OwnedIn(run.tree.nodes, issued, taskNode) /\ AnsweredIn(run.tree.nodes, issued, taskNode, ledger)

Beamed(run) ==
  Search(run).beamWidth > 0 =>
    \A n \in DOMAIN run.tree.nodes :
      Cardinality(Rivals(run.tree, run.tree.nodes[n].depth)) <= Search(run).beamWidth

TreeInv ==
  /\ \A t \in TaskIds : (ledger[t] = "absent") <=> (t > issued)
  /\ Owned(api)
  /\ Grounded => Owned(mem)
  /\ pc \in {"submit", "plan"} => Beamed(mem)
  /\ pc \in {"plan", "answer"} => InPhase(mem.tree, "Pending") \cup InPhase(mem.tree, "Running") = {}

-----------------------------------------------------------------------------
\* The largest maxParallel of the first g generations.
Par(g) == IF g = NoTeam THEN 0 ELSE Max({Config[k].maxParallel : k \in 1 .. g})

\* The executor tasks that a copy of the run does not wait for.
LooseIn(nodes, open) ==
  {t \in open : ~(\E n \in DOMAIN nodes : nodes[n].phase = "Running" /\ nodes[n].task = t)}
Loose(run) == LooseIn(run.tree.nodes, Executing)

Deleting == IF api.deleting THEN 1 ELSE 0

\* The pass under way is lost, and no deletion pays for it.
Paid == IF ~memFresh /\ ~api.deleting THEN 1 ELSE 0

\* The limit, what lost passes may have left behind, and what a deletion and
\* the pass under way add to that.
Limit == Par(api.gen)
Lost == Limit * faults
Forgiven == IF api.deleting THEN Limit ELSE 0
Owed == IF ~memFresh /\ ~api.deleting THEN Limit ELSE 0

\* What the current pass may have submitted.
Room ==
  CASE pc \in {"idle", "load", "collect"} -> 0
    [] pc = "persist" -> Limit
    [] OTHER -> Cardinality(RunningNodes(mem))

ParallelInv ==
  /\ Cardinality(RunningNodes(api)) <= Limit
  /\ Grounded => Cardinality(RunningNodes(mem)) <= Limit
  /\ pc = "idle" => Cardinality(Loose(api)) <= Lost + Forgiven
  /\ pc # "idle" => Cardinality(Loose(api)) + Owed <= Lost + Room
  /\ pc # "idle" /\ memFresh => Cardinality(Loose(mem)) <= Lost
  /\ api.reason = "Timeout" => Cardinality(Executing) <= Lost + Forgiven
  /\ pc = "persist" /\ memFresh /\ mem.reason = "Timeout" => Cardinality(Executing) <= Lost

PlannerTasks == {t \in 1 .. issued : taskNode[t] = NoNode}

Asked == IF pc \in {"answer", "resubmit", "persist"} THEN 1 ELSE 0
Ended(run) == IF Terminal(run.phase) THEN 1 ELSE 0

PlannerInv ==
  /\ pc = "idle" => Cardinality(PlannerTasks) <= api.tree.iterations + faults + Deleting + Ended(api)
  /\ pc # "idle" => Cardinality(PlannerTasks) + Paid <= api.tree.iterations + faults + Asked + Ended(api)
  /\ pc = "persist" /\ memFresh =>
       Cardinality(PlannerTasks) <= mem.tree.iterations + faults + Ended(mem)

-----------------------------------------------------------------------------
(* Constants, records and sequences.                                       *)

LEMMA ConstFacts ==
  /\ MaxTasks \in Nat /\ MaxFaults \in Nat /\ MaxActions \in Nat
  /\ NoTask = 0 /\ NoNode = 0 /\ NoScore = 0 /\ NoTeam = 0 /\ NoTask \in 0 .. MaxTasks
  /\ NoNode \in Nat /\ NoTeam \in Nat /\ Generation \subseteq Nat
  /\ Generation = 1 .. Len(Config) /\ Len(Config) \in Nat \ {0}
  /\ \A g \in Generation : Config[g] \in SearchSpec
  /\ 1 \in Generation /\ NoTeam \notin Generation
  /\ \A t \in TaskIds : t \in 0 .. MaxTasks /\ t # NoTask
BY SearchAssumption DEF NoTask, NoNode, NoScore, NoTeam, TaskIds, Generation

LEMMA SpecFacts ==
  ASSUME NEW g \in Generation
  PROVE  /\ Config[g].maxNodes \in Nat \ {0} /\ Config[g].maxParallel \in Nat \ {0}
         /\ Config[g].beamWidth \in Nat
BY ConstFacts DEF SearchSpec

LEMMA NodeFacts ==
  ASSUME NEW x \in Node
  PROVE  /\ x.parent \in Nat /\ x.depth \in Nat /\ x.score \in Scores \cup {NoScore}
         /\ x.phase \in NodePhase /\ x.task \in 0 .. MaxTasks
BY DEF Node

LEMMA TreeFacts ==
  ASSUME NEW tree \in SearchTree
  PROVE  /\ tree.nodes \in Seq(Node) /\ tree.solution \in Nat /\ tree.iterations \in Nat
         /\ Len(tree.nodes) \in Nat /\ DOMAIN tree.nodes = 1 .. Len(tree.nodes)
         /\ \A n \in DOMAIN tree.nodes : tree.nodes[n] \in Node /\ n \in Nat
<1>1. tree.nodes \in Seq(Node) /\ tree.solution \in Nat /\ tree.iterations \in Nat
  BY DEF SearchTree
<1>2. QED
  BY <1>1

LEMMA RunFacts ==
  ASSUME NEW run \in RunRecord
  PROVE  /\ run.tree \in SearchTree /\ run.gen \in Generation \cup {NoTeam}
         /\ run.gen \in Nat /\ (run.gen # NoTeam => run.gen \in Generation)
         /\ run.phase \in {"", "Running", "Succeeded", "Failed"} /\ run.reason \in Reason
         /\ run.exists \in BOOLEAN /\ run.deleting \in BOOLEAN /\ run.finalizer \in BOOLEAN
<1>1. /\ run.tree \in SearchTree /\ run.gen \in Generation \cup {NoTeam}
      /\ run.phase \in {"", "Running", "Succeeded", "Failed"} /\ run.reason \in Reason
  BY DEF RunRecord
<1>2. run.exists \in BOOLEAN /\ run.deleting \in BOOLEAN /\ run.finalizer \in BOOLEAN
  BY DEF RunRecord
<1>3. run.gen \in Nat
  <2>1. NoTeam \in Nat /\ Generation \subseteq Nat
    BY ConstFacts
  <2>2. QED
    BY <1>1, <2>1
<1>4. run.gen # NoTeam => run.gen \in Generation
  BY <1>1
<1>5. QED
  BY <1>1, <1>2, <1>3, <1>4

\* The trees that are put together from other nodes.
LEMMA TreeIs ==
  ASSUME NEW tree \in SearchTree, NEW nodes \in Seq(Node), NEW new, new = [tree EXCEPT !.nodes = nodes]
  PROVE  /\ new \in SearchTree /\ new.nodes = nodes /\ new.solution = tree.solution
         /\ new.iterations = tree.iterations
BY DEF SearchTree

\* A list that is as long as another.
LEMMA NodesIs ==
  ASSUME NEW nodes \in Seq(Node), NEW new, new = [n \in DOMAIN nodes |-> new[n]],
         \A n \in DOMAIN nodes : new[n] \in Node
  PROVE  new \in Seq(Node) /\ Len(new) = Len(nodes) /\ DOMAIN new = DOMAIN nodes
<1>1. DOMAIN nodes = 1 .. Len(nodes) /\ Len(nodes) \in Nat
  OBVIOUS
<1>2. QED
  BY <1>1

\* The copy differs in its tree only.
Retreed(old, new, tree) ==
  /\ new \in RunRecord /\ new.tree = tree /\ new.phase = old.phase /\ new.reason = old.reason
  /\ new.gen = old.gen /\ new.deleting = old.deleting

LEMMA RetreedIs ==
  ASSUME NEW run \in RunRecord, NEW tree \in SearchTree, NEW new, new = [run EXCEPT !.tree = tree]
  PROVE  Retreed(run, new, tree)
BY DEF RunRecord, Retreed

\* The copy differs in its phase and in the reason for it.
EndedBy(old, new, phase, reason) ==
  /\ new \in RunRecord /\ new.tree = old.tree /\ new.phase = phase /\ new.reason = reason
  /\ new.gen = old.gen /\ new.deleting = old.deleting

LEMMA EndsIs ==
  ASSUME NEW run \in RunRecord, NEW phase \in {"Succeeded", "Failed"}, NEW reason \in Reason
  PROVE  EndedBy(run, Ends(run, phase, reason), phase, reason)
BY DEF RunRecord, Ends, EndedBy

\* The copy changes in nothing that the invariants speak of but for a deletion.
Keeps(old, new) ==
  /\ new \in RunRecord /\ new.tree = old.tree /\ new.phase = old.phase /\ new.reason = old.reason
  /\ new.gen = old.gen

LEMMA ObjectFacts ==
  ASSUME NEW run \in RunRecord
  PROVE  /\ Keeps(run, WithoutFinalizer(run)) /\ WithoutFinalizer(run).deleting = run.deleting
         /\ Keeps(run, [run EXCEPT !.finalizer = TRUE])
         /\ [run EXCEPT !.finalizer = TRUE].deleting = run.deleting
         /\ Keeps(run, [run EXCEPT !.deleting = TRUE, !.exists = run.finalizer])
         /\ [run EXCEPT !.deleting = TRUE, !.exists = run.finalizer].deleting = TRUE
<1>1. Keeps(run, WithoutFinalizer(run)) /\ WithoutFinalizer(run).deleting = run.deleting
  <2>1. (~run.deleting) \in BOOLEAN
    BY DEF RunRecord
  <2>2. PICK b \in BOOLEAN : b = ~run.deleting
    BY <2>1
  <2>3. WithoutFinalizer(run) = [run EXCEPT !.finalizer = FALSE, !.exists = b]
    BY <2>2 DEF WithoutFinalizer
  <2>4. QED
    BY <2>3 DEF RunRecord, Keeps
<1>2. /\ Keeps(run, [run EXCEPT !.finalizer = TRUE])
      /\ [run EXCEPT !.finalizer = TRUE].deleting = run.deleting
  BY DEF RunRecord, Keeps
<1>3. /\ Keeps(run, [run EXCEPT !.deleting = TRUE, !.exists = run.finalizer])
      /\ [run EXCEPT !.deleting = TRUE, !.exists = run.finalizer].deleting = TRUE
  <2>1. PICK b \in BOOLEAN : b = run.finalizer
    BY DEF RunRecord
  <2>2. QED
    BY <2>1 DEF RunRecord, Keeps
<1>4. QED
  BY <1>1, <1>2, <1>3

LEMMA SnapIs ==
  ASSUME NEW run \in RunRecord, NEW g \in Generation, NEW new, new = [run EXCEPT !.gen = g]
  PROVE  /\ new \in RunRecord /\ new.tree = run.tree /\ new.phase = run.phase
         /\ new.reason = run.reason /\ new.gen = g /\ new.deleting = run.deleting
BY DEF RunRecord

LEMMA NewRunFacts ==
  /\ NewRun \in RunRecord /\ NewRun.phase = "" /\ NewRun.reason = "" /\ NewRun.deleting = FALSE
  /\ NewRun.tree \in SearchTree /\ NewRun.tree.nodes = <<>> /\ NewRun.tree.solution = NoNode
  /\ NewRun.tree.iterations = 0 /\ DOMAIN NewRun.tree.nodes = {}
<1>1. NewRun.tree = [nodes |-> <<>>, solution |-> NoNode, iterations |-> 0]
  BY DEF NewRun
<1>2. <<>> \in Seq(Node) /\ DOMAIN <<>> = {}
  OBVIOUS
<1>3. NewRun.tree \in SearchTree
  BY <1>1, <1>2, ConstFacts DEF SearchTree
<1>4. NewRun \in RunRecord
  BY <1>1, <1>3 DEF NewRun, RunRecord, Reason
<1>5. QED
  BY <1>1, <1>2, <1>3, <1>4 DEF NewRun

LEMMA NewNodeFacts ==
  ASSUME NEW parent \in Nat, NEW depth \in Nat, NEW score \in Scores \cup {NoScore}
  PROVE  LET x == NewNode(parent, depth, score)
         IN  /\ x \in Node /\ x.phase = "Pending" /\ x.task = NoTask /\ x.parent = parent
             /\ x.depth = depth /\ x.score = score
BY ConstFacts DEF NewNode, Node, NodePhase

\* The order of the phases.
LEMMA RankFacts ==
  /\ Rank("Pending") = 0 /\ Rank("Running") = 1 /\ Rank("Scored") = 2 /\ Rank("EvalFailed") = 2
  /\ Rank("Pruned") = 3 /\ Rank("Solution") = 4
  /\ \A p \in NodePhase : Rank(p) \in 0 .. 4 /\ (p # "Solution" => Rank(p) <= 3)
<1>1. /\ Rank("Pending") = 0 /\ Rank("Running") = 1 /\ Rank("Scored") = 2 /\ Rank("EvalFailed") = 2
      /\ Rank("Pruned") = 3 /\ Rank("Solution") = 4
  BY DEF Rank
<1>2. QED
  BY <1>1 DEF NodePhase

-----------------------------------------------------------------------------
(* What a step does to the tasks and to the object.                        *)

\* Answers arrive, or nothing happens.
Settling ==
  /\ UNCHANGED <<issued, taskNode>>
  /\ ledger' \in [TaskIds -> Queue!LedgerState]
  /\ \A t \in TaskIds : (ledger'[t] = "absent") <=> (ledger[t] = "absent")
  /\ \A t \in TaskIds : ledger[t] = "ok" => ledger'[t] = "ok"
  /\ OpenTasks' \subseteq OpenTasks

\* The tasks that are cancelled together are no longer open.
Cancelling(T) ==
  /\ UNCHANGED <<issued, taskNode>>
  /\ ledger' \in [TaskIds -> Queue!LedgerState]
  /\ \A t \in TaskIds : (ledger'[t] = "absent") <=> (ledger[t] = "absent")
  /\ \A t \in TaskIds : t \notin T => ledger'[t] = ledger[t]
  /\ OpenTasks' \subseteq OpenTasks \ T

LEMMA SettleFacts ==
  ASSUME TypeOK, UNCHANGED <<issued, taskNode>>,
         UNCHANGED ledger \/ \E t \in TaskIds, a \in Queue!Answer : Queue!Settle(t, a)
  PROVE  Settling
<1>1. CASE UNCHANGED ledger
  BY <1>1 DEF TypeOK, Settling, OpenTasks
<1>2. CASE \E t \in TaskIds, a \in Queue!Answer : Queue!Settle(t, a)
  <2>1. PICK t \in TaskIds, a \in Queue!Answer : Queue!Settle(t, a)
    BY <1>2
  <2>2. a \in {"ok", "failed"}
    BY DEF Queue!Answer
  <2>3. ledger[t] \in {"open", "cancelled"} /\ ledger' = [ledger EXCEPT ![t] = a]
    BY <2>1 DEF Queue!Settle
  <2>4. QED
    BY <2>2, <2>3 DEF TypeOK, Settling, OpenTasks, Queue!LedgerState, Queue!Answer
<1>3. QED
  BY <1>1, <1>2

LEMMA CancelFacts ==
  ASSUME TypeOK, NEW T, Queue!Cancel(T), T \subseteq TaskIds, UNCHANGED <<issued, taskNode>>
  PROVE  Cancelling(T)
BY DEF TypeOK, Cancelling, OpenTasks, Queue!Cancel, Queue!LedgerState, Queue!Answer

\* One more task, for a node or for the planner.
Submits(n) ==
  /\ issued' = issued + 1 /\ issued' \in TaskIds
  /\ taskNode' \in [TaskIds -> Nat] /\ taskNode'[issued'] = n
  /\ \A t \in TaskIds : t # issued' => taskNode'[t] = taskNode[t]
  /\ ledger' \in [TaskIds -> Queue!LedgerState]
  /\ ledger[issued'] = "absent" /\ ledger'[issued'] = "open"
  /\ \A t \in TaskIds : t # issued' => ledger'[t] = ledger[t]

LEMMA SubmitFacts ==
  ASSUME TypeOK, NEW n \in Nat, SubmitTask(n)
  PROVE  Submits(n)
<1>1. issued + 1 \in TaskIds
  BY ConstFacts DEF TypeOK, SubmitTask, TaskIds
<1>2. QED
  BY <1>1 DEF TypeOK, SubmitTask, Submits, Queue!Submit, Queue!LedgerState

\* Nothing but the object and the pass.
SameElsewhere == UNCHANGED <<ledger, issued, taskNode, team, late>>

QuietStep ==
  /\ UNCHANGED <<api, mem, pc>> /\ Settling
  /\ cacheFresh' => cache' = api'
  /\ \/ memFresh' = memFresh /\ faults' \in {faults, faults + 1}
     \/ ~memFresh' /\ faults' = faults + 1
  /\ team' # NoTeam => team # NoTeam /\ team' \in {team, team + 1}

DeleteStep ==
  /\ UNCHANGED <<mem, pc, faults>> /\ SameElsewhere
  /\ Keeps(api, api') /\ ~api.deleting /\ api'.deleting
  /\ ~cacheFresh' /\ ~memFresh'

\* A pass ends without storing anything.
EndStep ==
  /\ pc' = "idle" /\ mem' = NewRun /\ memFresh' = TRUE /\ SameElsewhere
  /\ Keeps(api, api') /\ api'.deleting = api.deleting
  /\ cacheFresh' => cache' = api'
  /\ \/ pc \in {"idle", "load"} /\ faults' \in {faults, faults + 1}
     \/ pc = "persist" /\ ~memFresh /\ faults' = faults
     \/ pc # "idle" /\ faults' = faults + 1

LoadStep ==
  /\ pc = "idle" /\ pc' = "load" /\ SameElsewhere
  /\ Keeps(api, api') /\ api'.deleting = api.deleting
  /\ cacheFresh' => cache' = api'
  /\ \/ memFresh' /\ mem' = api' /\ faults' = faults + 1
     \/ memFresh' /\ mem' = api' /\ faults' = faults /\ ~api.deleting
     \/ ~memFresh' /\ faults' = faults + 1

\* The team is gone.
OrphanStep ==
  /\ pc = "load" /\ pc' = "persist" /\ SameElsewhere
  /\ UNCHANGED <<api, cache, cacheFresh, memFresh, faults>>
  /\ ~Terminal(mem.phase) /\ EndedBy(mem, mem', "Failed", "Rejected")

SnapStep ==
  /\ pc = "load" /\ pc' = "collect" /\ SameElsewhere
  /\ memFresh /\ memFresh' = TRUE /\ ~Terminal(mem.phase) /\ UNCHANGED faults
  /\ team \in Generation /\ api'.gen = team /\ mem' = api'
  /\ api'.tree = api.tree /\ api'.phase = api.phase /\ api'.reason = api.reason /\ api'.deleting = api.deleting
  /\ cacheFresh' => cache' = api'

StoreStep ==
  /\ pc = "persist" /\ memFresh /\ SameElsewhere /\ UNCHANGED faults
  /\ api' = mem /\ pc' = "idle" /\ mem' = NewRun /\ memFresh' = TRUE
  /\ cacheFresh' => cache' = api'

\* A pass goes on.
WorkStep ==
  /\ Working /\ UNCHANGED <<api, cache, cacheFresh, memFresh, team, late>>
  /\ pc' \in {"submit", "plan", "answer", "resubmit", "persist"}
  /\ mem' \in RunRecord /\ mem'.gen = mem.gen /\ mem'.phase # ""
  /\ Extends(mem.tree, mem'.tree) /\ Unsolved(mem')
  /\ pc' # "persist" => mem'.phase = "Running" /\ mem'.tree.iterations = mem.tree.iterations
  /\ faults' \in {faults, faults + 1}

\* The types of what a step of the frame changes.
ObjectTypes ==
  /\ api \in RunRecord /\ cache \in RunRecord /\ mem \in RunRecord
  /\ cacheFresh \in BOOLEAN /\ memFresh \in BOOLEAN /\ wake \in BOOLEAN
  /\ pc \in {"idle", "load", "collect", "submit", "plan", "answer", "resubmit", "persist"}
  /\ faults \in 0 .. MaxFaults

LEMMA FaultFacts ==
  ASSUME TypeOK, Fault
  PROVE  faults' = faults + 1 /\ faults' \in 0 .. MaxFaults
BY ConstFacts DEF TypeOK, Fault

LEMMA TypesKept ==
  ASSUME TypeOK, ObjectTypes', SameElsewhere
  PROVE  TypeOK'
<1>1. UNCHANGED <<ledger, issued, taskNode, team>> /\ (late \in BOOLEAN => late' \in BOOLEAN)
  BY DEF SameElsewhere
<1>2. QED
  BY <1>1 DEF TypeOK, ObjectTypes

\* What the API server stores is seen by a cache that is up to date only.
LEMMA StoreFacts ==
  ASSUME NEW run, Store(run), cacheFresh \in BOOLEAN, cacheFresh => cache = api
  PROVE  /\ api' = run /\ cache' = cache /\ cacheFresh' \in BOOLEAN
         /\ cacheFresh' => cache' = api'
BY DEF Store

LEMMA UntouchedFacts ==
  ASSUME Untouched, cacheFresh \in BOOLEAN, cacheFresh => cache = api
  PROVE  /\ api' = api /\ cache' = cache /\ cacheFresh' \in BOOLEAN
         /\ cacheFresh' => cache' = api'
BY DEF Untouched

LEMMA ElsewhereFacts ==
  ASSUME Elsewhere
  PROVE  SameElsewhere
BY DEF Elsewhere, SameElsewhere, tasks

LEMMA PassEndsFacts ==
  ASSUME NEW again \in BOOLEAN, PassEnds(again), wake \in BOOLEAN
  PROVE  pc' = "idle" /\ mem' = NewRun /\ memFresh' = TRUE /\ wake' \in BOOLEAN
<1>1. (again \/ (pc # "idle" /\ wake)) \in BOOLEAN
  OBVIOUS
<1>2. QED
  BY <1>1 DEF PassEnds

\* A pass that ends with this is of kind EndStep.
LEMMA EndsSo ==
  ASSUME TypeOK, FrameInv, SameElsewhere, NEW again \in BOOLEAN, PassEnds(again),
         Keeps(api, api'), api'.deleting = api.deleting, cache' \in RunRecord, cacheFresh' \in BOOLEAN,
         cacheFresh' => cache' = api', faults' \in 0 .. MaxFaults,
         \/ pc \in {"idle", "load"} /\ faults' \in {faults, faults + 1}
         \/ pc = "persist" /\ ~memFresh /\ faults' = faults
         \/ pc # "idle" /\ faults' = faults + 1
  PROVE  EndStep /\ TypeOK'
<1>1. wake \in BOOLEAN
  BY DEF TypeOK
<1>2. pc' = "idle" /\ mem' = NewRun /\ memFresh' = TRUE /\ wake' \in BOOLEAN
  BY <1>1, PassEndsFacts
<1>3. api' \in RunRecord
  BY DEF Keeps
<1>4. ObjectTypes'
  BY <1>2, <1>3, NewRunFacts DEF ObjectTypes
<1>5. EndStep
  BY <1>2 DEF EndStep
<1>6. QED
  BY <1>4, <1>5, TypesKept

LEMMA KeepsItself ==
  ASSUME TypeOK, api' = api
  PROVE  Keeps(api, api') /\ api'.deleting = api.deleting
BY DEF TypeOK, Keeps

LEMMA GetFacts ==
  ASSUME TypeOK, Get
  PROVE  /\ pc = "idle" /\ faults' \in 0 .. MaxFaults
         /\ faults' = faults \/ faults' = faults + 1
         /\ ~cacheFresh => faults' = faults + 1
<1>1. CASE cacheFresh /\ UNCHANGED faults
  BY <1>1 DEF TypeOK, Get
<1>2. CASE ~cacheFresh /\ Fault
  BY <1>2, FaultFacts DEF Get
<1>3. QED
  BY <1>1, <1>2 DEF Get

LEMMA GoneKind ==
  ASSUME TypeOK, FrameInv, ReconcileGone
  PROVE  EndStep /\ TypeOK'
<1>1. SameElsewhere /\ Get /\ PassEnds(FALSE) /\ Untouched
  BY ElsewhereFacts DEF ReconcileGone, GetNotFound
<1>2. cacheFresh \in BOOLEAN /\ (cacheFresh => cache = api) /\ cache \in RunRecord
  BY DEF TypeOK, FrameInv
<1>3. api' = api /\ cache' = cache /\ cacheFresh' \in BOOLEAN /\ (cacheFresh' => cache' = api')
  BY <1>1, <1>2, UntouchedFacts
<1>4. Keeps(api, api') /\ api'.deleting = api.deleting
  BY <1>3, KeepsItself
<1>5. QED
  BY <1>1, <1>2, <1>3, <1>4, GetFacts, EndsSo

LEMMA DeletingKind ==
  ASSUME TypeOK, FrameInv, ReconcileDeleting
  PROVE  EndStep /\ TypeOK'
<1>1. SameElsewhere /\ Get /\ PassEnds(cache.finalizer /\ ~api.exists)
  BY ElsewhereFacts DEF ReconcileDeleting, FinalizeDeletion
<1>2. cacheFresh \in BOOLEAN /\ (cacheFresh => cache = api) /\ cache \in RunRecord /\ api \in RunRecord
  BY DEF TypeOK, FrameInv
<1>3. Store(WithoutFinalizer(api)) \/ Untouched
  BY DEF ReconcileDeleting, FinalizeDeletion
<1>4. /\ api' = WithoutFinalizer(api) \/ api' = api
      /\ cache' = cache /\ cacheFresh' \in BOOLEAN /\ (cacheFresh' => cache' = api')
  BY <1>2, <1>3, StoreFacts, UntouchedFacts
<1>5. Keeps(api, api') /\ api'.deleting = api.deleting
  BY <1>2, <1>4, KeepsItself, ObjectFacts
<1>6. (cache.finalizer /\ ~api.exists) \in BOOLEAN
  OBVIOUS
<1>7. QED
  BY <1>1, <1>2, <1>4, <1>5, <1>6, GetFacts, EndsSo

LEMMA ReleaseKind ==
  ASSUME TypeOK, FrameInv, ReleaseTerminal
  PROVE  EndStep /\ TypeOK'
<1>1. SameElsewhere /\ pc = "load" /\ PassEnds(~api.exists) /\ UNCHANGED faults
  BY ElsewhereFacts DEF ReleaseTerminal, RemoveFinalizer
<1>2. cacheFresh \in BOOLEAN /\ (cacheFresh => cache = api) /\ cache \in RunRecord /\ api \in RunRecord
  BY DEF TypeOK, FrameInv
<1>3. Store(WithoutFinalizer(api)) \/ Untouched
  BY DEF ReleaseTerminal, RemoveFinalizer
<1>4. /\ api' = WithoutFinalizer(api) \/ api' = api
      /\ cache' = cache /\ cacheFresh' \in BOOLEAN /\ (cacheFresh' => cache' = api')
  BY <1>2, <1>3, StoreFacts, UntouchedFacts
<1>5. Keeps(api, api') /\ api'.deleting = api.deleting
  BY <1>2, <1>4, KeepsItself, ObjectFacts
<1>6. (~api.exists) \in BOOLEAN
  OBVIOUS
<1>7. faults' = faults /\ faults' \in 0 .. MaxFaults
  BY <1>1 DEF TypeOK
<1>8. QED
  BY <1>1, <1>2, <1>4, <1>5, <1>6, <1>7, EndsSo

\* The passes that are given up with the object as it is.
LEMMA GiveUpKind ==
  ASSUME TypeOK, FrameInv, SnapshotConflict \/ SubmitError \/ Conflict \/ OperatorRestart
  PROVE  EndStep /\ TypeOK'
<1>1. SameElsewhere /\ PassEnds(TRUE) /\ api' = api
  BY ElsewhereFacts DEF SnapshotConflict, SubmitError, Conflict, UpdateConflict, OperatorRestart, Restart, object,
     Untouched
<1>2. cacheFresh \in BOOLEAN /\ (cacheFresh => cache = api) /\ cache \in RunRecord /\ api \in RunRecord
  BY DEF TypeOK, FrameInv
<1>3. cache' \in RunRecord /\ cacheFresh' \in BOOLEAN /\ (cacheFresh' => cache' = api')
  <2>1. UNCHANGED <<cache, cacheFresh>> \/ (cache' = api /\ cacheFresh' = TRUE)
    BY DEF SnapshotConflict, SubmitError, Conflict, UpdateConflict, OperatorRestart, Restart, object, Untouched
  <2>2. CASE UNCHANGED <<cache, cacheFresh>>
    BY <1>1, <1>2, <2>2
  <2>3. CASE cache' = api /\ cacheFresh' = TRUE
    BY <1>1, <1>2, <2>3
  <2>4. QED
    BY <2>1, <2>2, <2>3
<1>4. Keeps(api, api') /\ api'.deleting = api.deleting
  BY <1>1, KeepsItself
<1>5. /\ faults' \in 0 .. MaxFaults
      /\ \/ pc \in {"idle", "load"} /\ faults' \in {faults, faults + 1}
         \/ pc = "persist" /\ ~memFresh /\ faults' = faults
         \/ pc # "idle" /\ faults' = faults + 1
  <2>0. faults \in 0 .. MaxFaults
    BY DEF TypeOK
  <2>1. CASE SnapshotConflict
    BY <2>0, <2>1 DEF SnapshotConflict
  <2>2. CASE SubmitError
    BY <2>2, FaultFacts DEF SubmitError, Submitting
  <2>3. CASE Conflict
    BY <2>0, <2>3 DEF Conflict, UpdateConflict
  <2>4. CASE OperatorRestart
    BY <2>4, FaultFacts DEF OperatorRestart, Restart
  <2>5. QED
    BY <2>1, <2>2, <2>3, <2>4
<1>6. QED
  BY <1>1, <1>3, <1>4, <1>5, EndsSo

LEMMA LoadKind ==
  ASSUME TypeOK, FrameInv, LoadRun
  PROVE  (LoadStep \/ EndStep) /\ TypeOK'
<1>1. SameElsewhere /\ Get /\ cache.exists /\ ~cache.deleting
  BY ElsewhereFacts DEF LoadRun, EnsureFinalizer
<1>2. /\ cacheFresh \in BOOLEAN /\ (cacheFresh => cache = api) /\ cache \in RunRecord /\ api \in RunRecord
      /\ memFresh \in BOOLEAN
  BY DEF TypeOK, FrameInv
<1>3. /\ pc = "idle" /\ faults' \in 0 .. MaxFaults
      /\ faults' = faults \/ faults' = faults + 1
      /\ ~cacheFresh => faults' = faults + 1
  BY <1>1, GetFacts
<1>4. CASE /\ cache.finalizer
           /\ mem' = cache /\ memFresh' = cacheFresh /\ pc' = "load"
           /\ wake' = FALSE
           /\ Untouched
  <2>1. api' = api /\ cache' = cache /\ cacheFresh' \in BOOLEAN /\ (cacheFresh' => cache' = api')
    BY <1>2, <1>4, UntouchedFacts
  <2>2. Keeps(api, api') /\ api'.deleting = api.deleting
    BY <2>1, KeepsItself
  <2>3. CASE cacheFresh
    <3>1. mem' = api' /\ memFresh' /\ ~api.deleting
      BY <1>1, <1>2, <1>4, <2>1, <2>3
    <3>2. LoadStep
      BY <1>1, <1>3, <1>4, <2>1, <2>2, <3>1 DEF LoadStep
    <3>3. ObjectTypes'
      BY <1>2, <1>3, <1>4, <2>1 DEF ObjectTypes
    <3>4. QED
      BY <1>1, <3>2, <3>3, TypesKept
  <2>4. CASE ~cacheFresh
    <3>1. ~memFresh' /\ faults' = faults + 1
      BY <1>3, <1>4, <2>4
    <3>2. LoadStep
      BY <1>1, <1>3, <1>4, <2>1, <2>2, <3>1 DEF LoadStep
    <3>3. ObjectTypes'
      BY <1>2, <1>3, <1>4, <2>1 DEF ObjectTypes
    <3>4. QED
      BY <1>1, <3>2, <3>3, TypesKept
  <2>5. QED
    BY <2>3, <2>4
<1>5. CASE /\ ~cache.finalizer /\ api.exists
           /\ Store([api EXCEPT !.finalizer = TRUE])
           /\ mem' = api' /\ memFresh' = TRUE /\ pc' = "load"
           /\ wake' = FALSE
  <2>1. /\ api' = [api EXCEPT !.finalizer = TRUE] /\ cache' = cache /\ cacheFresh' \in BOOLEAN
        /\ (cacheFresh' => cache' = api')
    BY <1>2, <1>5, StoreFacts
  <2>2. Keeps(api, api') /\ api'.deleting = api.deleting
    BY <1>2, <2>1, ObjectFacts
  <2>3. api' \in RunRecord
    BY <2>2 DEF Keeps
  <2>4. LoadStep
    <3>1. faults' = faults => ~api.deleting
      <4>1. faults \in Nat
        BY ConstFacts DEF TypeOK
      <4>2. faults' = faults => cacheFresh
        BY <1>2, <1>3, <4>1
      <4>3. QED
        BY <1>1, <1>2, <4>2
    <3>2. \/ memFresh' /\ mem' = api' /\ faults' = faults + 1
          \/ memFresh' /\ mem' = api' /\ faults' = faults /\ ~api.deleting
      BY <1>3, <1>5, <3>1
    <3>3. QED
      BY <1>1, <1>3, <1>5, <2>1, <2>2, <3>2 DEF LoadStep
  <2>5. ObjectTypes'
    BY <1>2, <1>3, <1>5, <2>1, <2>3 DEF ObjectTypes
  <2>6. QED
    BY <1>1, <2>4, <2>5, TypesKept
<1>6. CASE ~cache.finalizer /\ ~api.exists /\ PassEnds(TRUE) /\ Untouched
  <2>1. api' = api /\ cache' = cache /\ cacheFresh' \in BOOLEAN /\ (cacheFresh' => cache' = api')
    BY <1>2, <1>6, UntouchedFacts
  <2>2. Keeps(api, api') /\ api'.deleting = api.deleting
    BY <2>1, KeepsItself
  <2>3. QED
    BY <1>1, <1>2, <1>3, <1>6, <2>1, <2>2, EndsSo
<1>7. QED
  BY <1>4, <1>5, <1>6 DEF LoadRun, EnsureFinalizer

LEMMA OrphanKind ==
  ASSUME TypeOK, FrameInv, TeamNotFound
  PROVE  OrphanStep /\ TypeOK'
<1>1. /\ pc = "load" /\ pc' = "persist" /\ SameElsewhere /\ ~Terminal(mem.phase)
      /\ UNCHANGED <<api, cache, cacheFresh, memFresh, wake, faults>>
      /\ mem' = Ends(mem, "Failed", "Rejected")
  BY ElsewhereFacts DEF TeamNotFound, object
<1>2. mem \in RunRecord
  BY DEF TypeOK
<1>3. EndedBy(mem, mem', "Failed", "Rejected")
  BY <1>1, <1>2, EndsIs DEF Reason
<1>4. OrphanStep
  BY <1>1, <1>3 DEF OrphanStep
<1>5. mem' \in RunRecord
  BY <1>3 DEF EndedBy
<1>6. ObjectTypes'
  BY <1>1, <1>5 DEF ObjectTypes, TypeOK
<1>7. QED
  BY <1>1, <1>4, <1>6, TypesKept

LEMMA SnapKind ==
  ASSUME TypeOK, FrameInv, SnapshotTeam
  PROVE  SnapStep /\ TypeOK'
<1>1. /\ pc = "load" /\ pc' = "collect" /\ SameElsewhere /\ ~Terminal(mem.phase) /\ memFresh
      /\ UNCHANGED <<memFresh, wake, faults>>
      /\ Store([api EXCEPT !.gen = team]) /\ mem' = api' /\ team # NoTeam
  BY ElsewhereFacts DEF SnapshotTeam
<1>2. cacheFresh \in BOOLEAN /\ (cacheFresh => cache = api) /\ cache \in RunRecord /\ api \in RunRecord
  BY DEF TypeOK, FrameInv
<1>3. team \in Generation
  BY <1>1 DEF TypeOK
<1>4. /\ api' = [api EXCEPT !.gen = team] /\ cache' = cache /\ cacheFresh' \in BOOLEAN
      /\ (cacheFresh' => cache' = api')
  BY <1>1, <1>2, StoreFacts
<1>5. /\ api' \in RunRecord /\ api'.tree = api.tree /\ api'.phase = api.phase
      /\ api'.reason = api.reason /\ api'.gen = team /\ api'.deleting = api.deleting
  BY <1>2, <1>3, <1>4, SnapIs
<1>6. memFresh' = TRUE
  BY <1>1 DEF TypeOK
<1>7. SnapStep
  BY <1>1, <1>3, <1>4, <1>5, <1>6 DEF SnapStep
<1>8. ObjectTypes'
  BY <1>1, <1>2, <1>4, <1>5, <1>6 DEF ObjectTypes, TypeOK
<1>9. QED
  BY <1>1, <1>7, <1>8, TypesKept

LEMMA StoreKind ==
  ASSUME TypeOK, FrameInv, Persist
  PROVE  StoreStep /\ TypeOK'
<1>1. SameElsewhere /\ pc = "persist" /\ memFresh /\ Store(mem) /\ PassEnds(mem.phase = "Running") /\ UNCHANGED faults
  BY ElsewhereFacts DEF Persist, UpdateStatus
<1>2. cacheFresh \in BOOLEAN /\ (cacheFresh => cache = api) /\ cache \in RunRecord /\ mem \in RunRecord
  BY DEF TypeOK, FrameInv
<1>3. api' = mem /\ cache' = cache /\ cacheFresh' \in BOOLEAN /\ (cacheFresh' => cache' = api')
  BY <1>1, <1>2, StoreFacts
<1>4. (mem.phase = "Running") \in BOOLEAN /\ wake \in BOOLEAN
  BY DEF TypeOK
<1>5. pc' = "idle" /\ mem' = NewRun /\ memFresh' = TRUE /\ wake' \in BOOLEAN
  BY <1>1, <1>4, PassEndsFacts
<1>6. StoreStep
  BY <1>1, <1>3, <1>5 DEF StoreStep
<1>7. ObjectTypes'
  BY <1>1, <1>2, <1>3, <1>5, NewRunFacts DEF ObjectTypes, TypeOK
<1>8. QED
  BY <1>1, <1>6, <1>7, TypesKept

LEMMA DeleteKind ==
  ASSUME TypeOK, FrameInv, UserDelete
  PROVE  DeleteStep /\ TypeOK'
<1>1. /\ SameElsewhere /\ ~api.deleting /\ api' = [api EXCEPT !.deleting = TRUE, !.exists = api.finalizer]
      /\ cacheFresh' = FALSE /\ memFresh' = FALSE /\ UNCHANGED <<cache, mem, pc, wake, faults>>
  BY ElsewhereFacts DEF UserDelete, Delete
<1>2. api \in RunRecord
  BY DEF TypeOK
<1>3. Keeps(api, api') /\ api'.deleting = TRUE
  BY <1>1, <1>2, ObjectFacts
<1>4. DeleteStep
  BY <1>1, <1>3 DEF DeleteStep
<1>5. api' \in RunRecord
  BY <1>3 DEF Keeps
<1>6. ObjectTypes'
  BY <1>1, <1>5 DEF ObjectTypes, TypeOK
<1>7. QED
  BY <1>1, <1>4, <1>6, TypesKept

LEMMA QuietKind ==
  ASSUME TypeOK, FrameInv,
         \/ CacheSync \/ UserEdit \/ DeadlinePasses \/ TeamEdited \/ TeamDeleted \/ UNCHANGED vars
         \/ \E t \in TaskIds, a \in Queue!Answer : Answer(t, a)
  PROVE  QuietStep /\ TypeOK'
<1>0. UNCHANGED <<api, mem, pc, issued, taskNode>>
  BY DEF CacheSync, Watch, UserEdit, Edit, DeadlinePasses, TeamEdited, TeamDeleted, vars, object, pass, tasks, Answer,
         Elsewhere
<1>1. Settling
  <2>1. UNCHANGED ledger \/ \E t \in TaskIds, a \in Queue!Answer : Queue!Settle(t, a)
    BY DEF CacheSync, Watch, UserEdit, Edit, DeadlinePasses, TeamEdited, TeamDeleted, vars, object, pass, tasks, Answer,
           Elsewhere
  <2>2. QED
    BY <1>0, <2>1, SettleFacts
<1>2. /\ faults' \in 0 .. MaxFaults /\ memFresh' \in BOOLEAN
      /\ \/ memFresh' = memFresh /\ faults' \in {faults, faults + 1}
         \/ ~memFresh' /\ faults' = faults + 1
  <2>0. faults \in 0 .. MaxFaults /\ memFresh \in BOOLEAN
    BY DEF TypeOK
  <2>1. CASE UserEdit
    <3>1. Fault /\ memFresh' = FALSE
      BY <2>1 DEF UserEdit, Edit
    <3>2. QED
      BY <3>1, FaultFacts
  <2>2. CASE TeamEdited \/ TeamDeleted
    <3>1. Fault /\ UNCHANGED memFresh
      BY <2>2 DEF TeamEdited, TeamDeleted, pass
    <3>2. QED
      BY <2>0, <3>1, FaultFacts
  <2>3. CASE ~(UserEdit \/ TeamEdited \/ TeamDeleted)
    <3>1. UNCHANGED <<faults, memFresh>>
      BY <2>3 DEF CacheSync, Watch, DeadlinePasses, vars, object, pass, tasks, Answer
    <3>2. QED
      BY <2>0, <3>1
  <2>4. QED
    BY <2>1, <2>2, <2>3
<1>3. /\ team' \in Generation \cup {NoTeam}
      /\ team' # NoTeam => team # NoTeam /\ team' \in {team, team + 1}
  <2>0. team \in Generation \cup {NoTeam}
    BY DEF TypeOK
  <2>1. CASE TeamEdited
    <3>1. team # NoTeam /\ team < Len(Config) /\ team' = team + 1
      BY <2>1 DEF TeamEdited
    <3>2. team \in 1 .. Len(Config) /\ Len(Config) \in Nat
      BY <2>0, <3>1, ConstFacts
    <3>3. team' \in 1 .. Len(Config)
      BY <3>1, <3>2
    <3>4. QED
      BY <3>1, <3>3, ConstFacts
  <2>2. CASE TeamDeleted
    BY <2>2 DEF TeamDeleted
  <2>3. CASE ~(TeamEdited \/ TeamDeleted)
    <3>1. UNCHANGED team
      BY <2>3 DEF CacheSync, Watch, UserEdit, Edit, DeadlinePasses, vars, object, pass, tasks, Answer, Elsewhere
    <3>2. QED
      BY <2>0, <3>1
  <2>4. QED
    BY <2>1, <2>2, <2>3
<1>4. cache' \in RunRecord /\ cacheFresh' \in BOOLEAN /\ (cacheFresh' => cache' = api')
  <2>0. /\ cacheFresh \in BOOLEAN /\ (cacheFresh => cache = api) /\ cache \in RunRecord /\ api \in RunRecord
        /\ api' = api
    BY <1>0 DEF TypeOK, FrameInv
  <2>1. CASE CacheSync
    <3>1. cache' = api /\ cacheFresh' = TRUE
      BY <2>1 DEF CacheSync, Watch
    <3>2. QED
      BY <2>0, <3>1
  <2>2. CASE UserEdit
    <3>1. cache' = cache /\ cacheFresh' = FALSE
      BY <2>2 DEF UserEdit, Edit
    <3>2. QED
      BY <2>0, <3>1
  <2>3. CASE ~(CacheSync \/ UserEdit)
    <3>1. UNCHANGED <<cache, cacheFresh>>
      BY <2>3 DEF DeadlinePasses, TeamEdited, TeamDeleted, vars, object, pass, tasks, Answer
    <3>2. QED
      BY <2>0, <3>1
  <2>4. QED
    BY <2>1, <2>2, <2>3
<1>5. wake' \in BOOLEAN /\ late' \in BOOLEAN
  <2>0. wake \in BOOLEAN /\ late \in BOOLEAN
    BY DEF TypeOK
  <2>1. /\ UNCHANGED wake \/ wake' = TRUE
        /\ UNCHANGED late \/ late' = TRUE
    BY DEF CacheSync, Watch, UserEdit, Edit, DeadlinePasses, TeamEdited, TeamDeleted, vars, object, pass, tasks, Answer,
           Elsewhere
  <2>2. wake' \in BOOLEAN
    BY <2>0, <2>1
  <2>3. late' \in BOOLEAN
    BY <2>0, <2>1
  <2>4. QED
    BY <2>2, <2>3
<1>6. QuietStep
  BY <1>0, <1>1, <1>2, <1>3, <1>4 DEF QuietStep
<1>7. TypeOK'
  <2>1. UNCHANGED <<api, mem, pc, issued, taskNode>> /\ ledger' \in [TaskIds -> Queue!LedgerState]
    BY <1>0, <1>1 DEF Settling
  <2>2. QED
    BY <1>2, <1>3, <1>4, <1>5, <2>1 DEF TypeOK
<1>8. QED
  BY <1>6, <1>7

-----------------------------------------------------------------------------
(* What the planner's answer makes of a tree.                              *)

LoopState == [tree : SearchTree, moved : BOOLEAN, stopped : BOOLEAN]

\* The actions of a tree with N nodes.
ActionOn(a, N) ==
  /\ a.action \in {"expand", "converge", "prune"} /\ a.node \in 1 .. N
  /\ a.score \in Scores \cup {NoScore}

\* Nodes are added, pruned and chosen, and a chosen one is known as the solution.
Grown(old, new) ==
  /\ new \in SearchTree /\ new.iterations = old.iterations
  /\ Len(old.nodes) <= Len(new.nodes)
  /\ \A n \in DOMAIN old.nodes :
       /\ new.nodes[n].parent = old.nodes[n].parent /\ new.nodes[n].task = old.nodes[n].task
       /\ new.nodes[n].phase = old.nodes[n].phase \/ new.nodes[n].phase \in {"Pruned", "Solution"}
  /\ \A n \in DOMAIN new.nodes \ DOMAIN old.nodes :
       new.nodes[n].phase = "Pending" /\ new.nodes[n].task = NoTask
  /\ new.solution = NoNode => InPhase(new, "Solution") = {}

\* st are the states after each of the first N actions.
Loop(st, tree, actions, maxNodes, N) ==
  /\ st = [k \in 0 .. N |-> st[k]]
  /\ st[0] = [tree |-> tree, moved |-> FALSE, stopped |-> FALSE]
  /\ \A k \in 1 .. N : st[k] = Apply(st[k - 1], actions[k], maxNodes)

LEMMA LoopExists ==
  ASSUME NEW tree, NEW actions, NEW maxNodes, Len(actions) \in Nat
  PROVE  \E st : Loop(st, tree, actions, maxNodes, Len(actions))
<1> DEFINE S == {N \in Nat : \E st : Loop(st, tree, actions, maxNodes, N)}
           first == [tree |-> tree, moved |-> FALSE, stopped |-> FALSE]
<1>1. 0 \in S
  <2> HIDE DEF first
  <2>1. [k \in 0 .. 0 |-> first][0] = first
    OBVIOUS
  <2>2. Loop([k \in 0 .. 0 |-> first], tree, actions, maxNodes, 0)
    BY <2>1 DEF Loop, first
  <2>3. QED
    BY <2>2
<1>2. ASSUME NEW N \in 0 .. Len(actions) - 1, N \in S PROVE N + 1 \in S
  <2>1. PICK st : Loop(st, tree, actions, maxNodes, N)
    BY <1>2
  <2> DEFINE next == Apply(st[N], actions[N + 1], maxNodes)
             new == [k \in 0 .. N + 1 |-> IF k = N + 1 THEN next ELSE st[k]]
  <2> HIDE DEF next
  <2>2. \A k \in 0 .. N : new[k] = st[k]
    OBVIOUS
  <2>3. new[N + 1] = next
    OBVIOUS
  <2>4. new = [k \in 0 .. N + 1 |-> new[k]]
    OBVIOUS
  <2> HIDE DEF new
  <2>5. ASSUME NEW k \in 1 .. N + 1 PROVE new[k] = Apply(new[k - 1], actions[k], maxNodes)
    <3>1. CASE k = N + 1
      <4>1. k - 1 = N
        BY <3>1
      <4>2. QED
        BY <2>2, <2>3, <3>1, <4>1 DEF next
    <3>2. CASE k \in 1 .. N
      <4>1. st[k] = Apply(st[k - 1], actions[k], maxNodes)
        BY <2>1, <3>2 DEF Loop
      <4>2. k - 1 \in 0 .. N
        BY <3>2
      <4>3. QED
        BY <2>2, <3>2, <4>1, <4>2
    <3>3. QED
      BY <3>1, <3>2
  <2>6. new[0] = first
    <3>1. st[0] = first
      BY <2>1 DEF Loop
    <3>2. 0 \in 0 .. N
      OBVIOUS
    <3>3. QED
      BY <2>2, <3>1, <3>2, Zenon
  <2>7. Loop(new, tree, actions, maxNodes, N + 1)
    BY <2>4, <2>5, <2>6 DEF Loop
  <2>8. QED
    BY <2>7
<1>3. \A N \in 0 .. Len(actions) : N \in S
  <2> HIDE DEF S
  <2> QED
    BY <1>1, <1>2, UpTo
<1>4. QED
  BY <1>3

LEMMA ApplyLoopIs ==
  ASSUME NEW tree, NEW actions, NEW maxNodes, Len(actions) \in Nat
  PROVE  Loop(ApplyLoop(tree, actions, maxNodes), tree, actions, maxNodes, Len(actions))
<1> DEFINE first == [tree |-> tree, moved |-> FALSE, stopped |-> FALSE]
           Is(f) == f = [k \in 0 .. Len(actions) |-> IF k = 0 THEN first ELSE Apply(f[k - 1], actions[k], maxNodes)]
<1>1. PICK st : Loop(st, tree, actions, maxNodes, Len(actions))
  BY LoopExists
<1>2. Is(st)
  <2>1. \A k \in 0 .. Len(actions) : st[k] = IF k = 0 THEN first ELSE Apply(st[k - 1], actions[k], maxNodes)
    <3> HIDE DEF first
    <3>1. st[0] = first /\ \A k \in 1 .. Len(actions) : st[k] = Apply(st[k - 1], actions[k], maxNodes)
      BY <1>1 DEF Loop, first
    <3>2. QED
      BY <3>1
  <2> HIDE DEF first
  <2>2. st = [k \in 0 .. Len(actions) |-> st[k]]
    BY <1>1 DEF Loop
  <2>3. QED
    BY <2>1, <2>2
<1>3. ApplyLoop(tree, actions, maxNodes) = CHOOSE f : Is(f)
  BY DEF ApplyLoop
<1> HIDE DEF Is
<1>4. Is(ApplyLoop(tree, actions, maxNodes))
  BY <1>2, <1>3
<1> DEFINE loop == ApplyLoop(tree, actions, maxNodes)
<1>5. loop = [k \in 0 .. Len(actions) |-> IF k = 0 THEN first ELSE Apply(loop[k - 1], actions[k], maxNodes)]
  BY <1>4 DEF Is
<1> HIDE DEF loop, first
<1>6. loop[0] = first /\ \A k \in 1 .. Len(actions) : loop[k] = Apply(loop[k - 1], actions[k], maxNodes)
  BY <1>5
<1>7. loop = [k \in 0 .. Len(actions) |-> loop[k]]
  BY <1>5
<1>8. QED
  BY <1>6, <1>7 DEF Loop, loop, first

LEMMA Appended ==
  ASSUME NEW S, NEW s \in Seq(S), NEW x \in S
  PROVE  /\ Append(s, x) \in Seq(S) /\ Len(s) \in Nat
         /\ Len(Append(s, x)) = Len(s) + 1 /\ DOMAIN Append(s, x) = 1 .. Len(s) + 1
         /\ \A n \in 1 .. Len(s) : Append(s, x)[n] = s[n]
         /\ Append(s, x)[Len(s) + 1] = x
<1>1. Len(s) \in Nat /\ DOMAIN s = 1 .. Len(s)
  OBVIOUS
<1>2. Append(s, x) \in Seq(S) /\ Len(Append(s, x)) = Len(s) + 1
  OBVIOUS
<1>3. DOMAIN Append(s, x) = 1 .. Len(s) + 1
  BY <1>1, <1>2
<1>4. \A n \in 1 .. Len(s) : Append(s, x)[n] = s[n]
  OBVIOUS
<1>5. Append(s, x)[Len(s) + 1] = x
  OBVIOUS
<1>6. QED
  BY <1>1, <1>2, <1>3, <1>4, <1>5

\* A node is added.
LEMMA GrowsBy ==
  ASSUME NEW old \in SearchTree, NEW tree \in SearchTree, Grown(old, tree), NEW x \in Node,
         x.phase = "Pending", x.task = NoTask, NEW new, new = [tree EXCEPT !.nodes = Append(tree.nodes, x)]
  PROVE  new \in SearchTree /\ Grown(old, new)
<1> DEFINE N == Len(tree.nodes)
           seq == Append(tree.nodes, x)
<1>1. tree.nodes \in Seq(Node) /\ N \in Nat /\ DOMAIN tree.nodes = 1 .. N
  BY TreeFacts
<1>2. Len(old.nodes) \in Nat /\ DOMAIN old.nodes = 1 .. Len(old.nodes)
  BY TreeFacts
<1>3. /\ seq \in Seq(Node) /\ Len(seq) = N + 1 /\ DOMAIN seq = 1 .. N + 1
      /\ \A n \in 1 .. N : seq[n] = tree.nodes[n]
      /\ seq[N + 1] = x
  BY <1>1, Appended
<1> HIDE DEF seq, N
<1>4. new = [tree EXCEPT !.nodes = seq]
  BY DEF seq
<1>5. /\ new \in SearchTree /\ new.nodes = seq /\ new.solution = tree.solution
      /\ new.iterations = tree.iterations
  BY <1>3, <1>4 DEF SearchTree
<1>6. Len(old.nodes) <= N /\ new.iterations = old.iterations
  BY <1>5 DEF Grown, N
<1>7. ASSUME NEW n \in DOMAIN old.nodes
      PROVE  /\ new.nodes[n].parent = old.nodes[n].parent /\ new.nodes[n].task = old.nodes[n].task
             /\ new.nodes[n].phase = old.nodes[n].phase \/ new.nodes[n].phase \in {"Pruned", "Solution"}
  <2>1. n \in 1 .. N
    BY <1>1, <1>2, <1>6
  <2>2. new.nodes[n] = tree.nodes[n]
    BY <1>3, <1>5, <2>1
  <2>3. QED
    BY <1>7, <2>2 DEF Grown
<1>8. ASSUME NEW n \in DOMAIN new.nodes \ DOMAIN old.nodes
      PROVE  new.nodes[n].phase = "Pending" /\ new.nodes[n].task = NoTask
  <2>1. CASE n = N + 1
    BY <1>3, <1>5, <2>1
  <2>2. CASE n # N + 1
    <3>1. n \in 1 .. N
      BY <1>1, <1>3, <1>5, <1>8, <2>2
    <3>2. new.nodes[n] = tree.nodes[n] /\ n \in DOMAIN tree.nodes \ DOMAIN old.nodes
      BY <1>1, <1>3, <1>5, <1>8, <3>1
    <3>3. QED
      BY <3>2 DEF Grown
  <2>3. QED
    BY <2>1, <2>2
<1>9. new.solution = NoNode => InPhase(new, "Solution") = {}
  <2>1. SUFFICES ASSUME new.solution = NoNode, NEW n \in InPhase(new, "Solution") PROVE FALSE
    OBVIOUS
  <2>2. n \in DOMAIN seq /\ seq[n].phase = "Solution"
    BY <1>5, <2>1 DEF InPhase
  <2>3. n \in 1 .. N
    BY <1>1, <1>3, <2>2
  <2>4. n \in InPhase(tree, "Solution")
    BY <1>1, <1>3, <2>2, <2>3 DEF InPhase
  <2>5. QED
    BY <1>5, <2>1, <2>4 DEF Grown
<1>10. Len(old.nodes) <= Len(new.nodes)
  BY <1>1, <1>2, <1>3, <1>5, <1>6
<1>11. QED
  BY <1>5, <1>6, <1>7, <1>8, <1>9, <1>10 DEF Grown

\* A node that was there is pruned or chosen.
LEMMA GrowsAt ==
  ASSUME NEW old \in SearchTree, NEW tree \in SearchTree, Grown(old, tree), NEW i \in 1 .. Len(old.nodes),
         NEW y \in Node, y.parent = tree.nodes[i].parent, y.task = tree.nodes[i].task,
         y.phase \in {"Pruned", "Solution"}, NEW new \in SearchTree,
         new.nodes = [tree.nodes EXCEPT ![i] = y], new.iterations = tree.iterations,
         new.solution # NoNode \/ (y.phase = "Pruned" /\ new.solution = tree.solution)
  PROVE  Grown(old, new)
<1>1. /\ tree.nodes \in Seq(Node) /\ Len(tree.nodes) \in Nat /\ DOMAIN tree.nodes = 1 .. Len(tree.nodes)
      /\ Len(old.nodes) \in Nat /\ DOMAIN old.nodes = 1 .. Len(old.nodes)
  BY TreeFacts
<1>2. Len(old.nodes) <= Len(tree.nodes) /\ new.iterations = old.iterations
  BY DEF Grown
<1>3. i \in DOMAIN tree.nodes
  BY <1>1, <1>2
<1>4. /\ DOMAIN new.nodes = DOMAIN tree.nodes /\ Len(new.nodes) = Len(tree.nodes) /\ new.nodes[i] = y
      /\ \A n \in DOMAIN tree.nodes : n # i => new.nodes[n] = tree.nodes[n]
  BY <1>1, <1>3
<1>5. ASSUME NEW n \in DOMAIN old.nodes
      PROVE  /\ new.nodes[n].parent = old.nodes[n].parent /\ new.nodes[n].task = old.nodes[n].task
             /\ new.nodes[n].phase = old.nodes[n].phase \/ new.nodes[n].phase \in {"Pruned", "Solution"}
  <2>1. /\ tree.nodes[n].parent = old.nodes[n].parent /\ tree.nodes[n].task = old.nodes[n].task
        /\ tree.nodes[n].phase = old.nodes[n].phase \/ tree.nodes[n].phase \in {"Pruned", "Solution"}
    BY <1>5 DEF Grown
  <2>2. n \in DOMAIN tree.nodes
    BY <1>1, <1>2
  <2>3. QED
    BY <1>4, <2>1, <2>2
<1>6. ASSUME NEW n \in DOMAIN new.nodes \ DOMAIN old.nodes
      PROVE  new.nodes[n].phase = "Pending" /\ new.nodes[n].task = NoTask
  <2>1. n # i /\ n \in DOMAIN tree.nodes \ DOMAIN old.nodes
    BY <1>1, <1>4, <1>6
  <2>2. QED
    BY <1>4, <2>1 DEF Grown
<1>7. new.solution = NoNode => InPhase(new, "Solution") = {}
  <2>1. SUFFICES ASSUME new.solution = NoNode, NEW n \in InPhase(new, "Solution") PROVE FALSE
    OBVIOUS
  <2>2. y.phase = "Pruned" /\ tree.solution = NoNode
    BY <2>1
  <2>3. n # i /\ n \in DOMAIN tree.nodes /\ tree.nodes[n].phase = "Solution"
    BY <1>4, <2>1, <2>2 DEF InPhase
  <2>4. QED
    BY <2>2, <2>3 DEF Grown, InPhase
<1>8. QED
  BY <1>2, <1>4, <1>5, <1>6, <1>7 DEF Grown

LEMMA ApplyKeeps ==
  ASSUME NEW old \in SearchTree, NEW st \in LoopState, Grown(old, st.tree), NEW a,
         ActionOn(a, Len(old.nodes)), NEW m \in Nat
  PROVE  Apply(st, a, m) \in LoopState /\ Grown(old, Apply(st, a, m).tree)
<1> DEFINE tree == st.tree
           nodes == st.tree.nodes
           new == Apply(st, a, m)
<1>1. /\ tree \in SearchTree /\ st.moved \in BOOLEAN /\ st.stopped \in BOOLEAN
      /\ st = [tree |-> tree, moved |-> st.moved, stopped |-> st.stopped]
  BY DEF LoopState
<1>2. /\ nodes \in Seq(Node) /\ Len(nodes) \in Nat /\ DOMAIN nodes = 1 .. Len(nodes)
      /\ \A n \in DOMAIN nodes : nodes[n] \in Node
  BY <1>1, TreeFacts
<1>3. a.node \in DOMAIN nodes /\ a.node \in Nat /\ a.node # NoNode
  <2>1. Len(old.nodes) \in Nat /\ Len(old.nodes) <= Len(nodes)
    BY TreeFacts DEF Grown
  <2>2. QED
    BY <1>2, <2>1, ConstFacts DEF ActionOn
<1>4. nodes[a.node] \in Node
  BY <1>2, <1>3
<1>5. CASE st.stopped
  <2>1. new = st
    BY <1>5 DEF Apply
  <2>2. QED
    BY <2>1
<1>6. CASE ~st.stopped /\ a.action = "expand"
  <2>1. CASE Len(nodes) >= m
    <3>1. new = [st EXCEPT !.stopped = TRUE]
      BY <1>6, <2>1 DEF Apply
    <3>2. new \in LoopState /\ new.tree = tree
      BY <1>1, <3>1 DEF LoopState
    <3>3. QED
      BY <3>2
  <2>2. CASE ~(Len(nodes) >= m)
    <3> DEFINE x == NewNode(a.node, nodes[a.node].depth + 1, a.score)
               grown == [tree EXCEPT !.nodes = Append(nodes, x)]
    <3>1. x \in Node /\ x.phase = "Pending" /\ x.task = NoTask
      <4>1. nodes[a.node].depth + 1 \in Nat
        BY <1>4, NodeFacts
      <4>2. a.score \in Scores \cup {NoScore}
        BY DEF ActionOn
      <4>3. QED
        BY <1>3, <4>1, <4>2, NewNodeFacts
    <3>2. new = [st EXCEPT !.moved = TRUE, !.tree.nodes = Append(@, x)]
      BY <1>6, <2>2 DEF Apply
    <3> HIDE DEF x
    <3>3. new = [tree |-> grown, moved |-> TRUE, stopped |-> st.stopped]
      BY <1>1, <3>2
    <3>4. grown \in SearchTree /\ Grown(old, grown)
      BY <1>1, <3>1, GrowsBy
    <3> HIDE DEF grown
    <3>5. new \in LoopState /\ new.tree = grown
      BY <1>1, <3>3, <3>4 DEF LoopState
    <3>6. QED
      BY <3>4, <3>5
  <2>3. QED
    BY <2>1, <2>2
<1>7. CASE ~st.stopped /\ a.action = "prune"
  <2>1. CASE st.moved
    <3>1. new = st
      BY <1>7, <2>1 DEF Apply
    <3>2. QED
      BY <3>1
  <2>2. CASE ~st.moved
    <3> DEFINE y == [nodes[a.node] EXCEPT !.phase = "Pruned"]
               grown == [tree EXCEPT !.nodes = [nodes EXCEPT ![a.node] = y]]
    <3>1. new = [st EXCEPT !.tree.nodes[a.node].phase = "Pruned"]
      BY <1>7, <2>2 DEF Apply
    <3>2. new = [tree |-> grown, moved |-> st.moved, stopped |-> st.stopped]
      BY <1>1, <3>1
    <3>3. y \in Node /\ y.parent = nodes[a.node].parent /\ y.task = nodes[a.node].task /\ y.phase = "Pruned"
      BY <1>4 DEF Node, NodePhase
    <3> HIDE DEF y
    <3>4. [nodes EXCEPT ![a.node] = y] \in Seq(Node)
      BY <1>2, <1>3, <3>3
    <3>5. /\ grown \in SearchTree /\ grown.nodes = [nodes EXCEPT ![a.node] = y] /\ grown.solution = tree.solution
          /\ grown.iterations = tree.iterations
      BY <1>1, <3>4, TreeIs, SMTT(30)
    <3> HIDE DEF grown
    <3>6. Grown(old, grown)
      BY <1>1, <3>3, <3>5, GrowsAt DEF ActionOn
    <3>7. new \in LoopState /\ new.tree = grown
      BY <1>1, <3>2, <3>5 DEF LoopState
    <3>8. QED
      BY <3>6, <3>7
  <2>3. QED
    BY <2>1, <2>2
<1>8. CASE ~st.stopped /\ a.action = "converge"
  <2> DEFINE chosen == [st EXCEPT !.tree.solution = a.node]
             solved == [tree EXCEPT !.solution = a.node]
  <2>1. chosen = [tree |-> solved, moved |-> st.moved, stopped |-> st.stopped]
    BY <1>1
  <2>2. /\ solved \in SearchTree /\ solved.nodes = nodes /\ solved.solution = a.node
        /\ solved.iterations = tree.iterations
    BY <1>1, <1>3 DEF SearchTree
  <2>3. CASE st.moved
    <3>1. new = chosen
      BY <1>8, <2>3 DEF Apply
    <3>2. new \in LoopState /\ new.tree = solved
      <4> HIDE DEF solved, chosen
      <4> QED
        BY <1>1, <2>1, <2>2, <3>1 DEF LoopState
    <3>3. Grown(old, solved)
      <4> HIDE DEF solved
      <4> QED
        BY <1>3, <2>2 DEF Grown
    <3>4. QED
      BY <3>2, <3>3
  <2>4. CASE ~st.moved
    <3> DEFINE sc == IF a.score = NoScore THEN nodes[a.node].score ELSE a.score
               y == [nodes[a.node] EXCEPT !.phase = "Solution", !.score = sc]
               grown == [solved EXCEPT !.nodes = [nodes EXCEPT ![a.node] = y]]
    <3>1. new = [chosen EXCEPT !.tree.nodes[a.node] =
                  [nodes[a.node] EXCEPT !.phase = "Solution", !.score = IF a.score = NoScore THEN @ ELSE a.score]]
      BY <1>8, <2>4 DEF Apply
    <3>2. sc \in Scores \cup {NoScore}
      BY <1>4, NodeFacts DEF ActionOn
    <3>3. y \in Node /\ y.parent = nodes[a.node].parent /\ y.task = nodes[a.node].task /\ y.phase = "Solution"
      <4> HIDE DEF sc
      <4> QED
        BY <1>4, <3>2 DEF Node, NodePhase
    <3>4. new = [tree |-> grown, moved |-> st.moved, stopped |-> st.stopped]
      <4> HIDE DEF solved
      <4>1. chosen.tree = solved /\ chosen.tree.nodes = nodes
        BY <2>1, <2>2
      <4>2. new = [chosen EXCEPT !.tree = [solved EXCEPT !.nodes = [nodes EXCEPT ![a.node] =
                     [nodes[a.node] EXCEPT !.phase = "Solution", !.score = sc]]]]
        <5>1. new = [chosen EXCEPT !.tree.nodes[a.node] = [nodes[a.node] EXCEPT !.phase = "Solution", !.score = sc]]
          BY <3>1
        <5>2. new = [chosen EXCEPT !.tree = [chosen.tree EXCEPT !.nodes = [chosen.tree.nodes EXCEPT ![a.node] =
                      [nodes[a.node] EXCEPT !.phase = "Solution", !.score = sc]]]]
          <6> HIDE DEF chosen, sc
          <6> QED
            BY <5>1
        <5>3. QED
          BY <4>1, <5>2
      <4>3. QED
        BY <2>1, <4>2
    <3> HIDE DEF y
    <3>5. [nodes EXCEPT ![a.node] = y] \in Seq(Node)
      BY <1>2, <1>3, <3>3
    <3>6. /\ grown \in SearchTree /\ grown.nodes = [nodes EXCEPT ![a.node] = y] /\ grown.solution = solved.solution
          /\ grown.iterations = solved.iterations
      <4> HIDE DEF solved
      <4> QED
        BY <2>2, <3>5, TreeIs, ZenonT(30)
    <3> HIDE DEF grown, solved
    <3>7. Grown(old, grown)
      BY <1>1, <1>3, <2>2, <3>3, <3>6, GrowsAt DEF ActionOn
    <3>8. new \in LoopState /\ new.tree = grown
      BY <1>1, <3>4, <3>6 DEF LoopState
    <3>9. QED
      BY <3>7, <3>8
  <2>5. QED
    BY <2>3, <2>4
<1>9. QED
  BY <1>1, <1>5, <1>6, <1>7, <1>8 DEF ActionOn

LEMMA LoopKeeps ==
  ASSUME NEW tree \in SearchTree, tree.solution = NoNode, InPhase(tree, "Solution") = {}, NEW m \in Nat,
         NEW actions, Len(actions) \in Nat,
         \A k \in 1 .. Len(actions) : ActionOn(actions[k], Len(tree.nodes))
  PROVE  Grown(tree, ApplyLoop(tree, actions, m)[Len(actions)].tree)
<1> DEFINE st == ApplyLoop(tree, actions, m)
           N == Len(actions)
           S == {k \in 0 .. N : st[k] \in LoopState /\ Grown(tree, st[k].tree)}
<1>1. Loop(st, tree, actions, m, N)
  BY ApplyLoopIs
<1> HIDE DEF st
<1>2. 0 \in S
  <2>1. st[0] = [tree |-> tree, moved |-> FALSE, stopped |-> FALSE]
    BY <1>1 DEF Loop
  <2>2. st[0] \in LoopState /\ st[0].tree = tree
    BY <2>1 DEF LoopState
  <2>3. Grown(tree, tree)
    BY TreeFacts DEF Grown
  <2>4. QED
    BY <2>2, <2>3
<1>3. ASSUME NEW k \in 0 .. N - 1, k \in S PROVE k + 1 \in S
  <2>1. k + 1 \in 1 .. N /\ (k + 1) - 1 = k
    OBVIOUS
  <2>2. st[k + 1] = Apply(st[k], actions[k + 1], m)
    BY <1>1, <2>1 DEF Loop
  <2>3. ActionOn(actions[k + 1], Len(tree.nodes))
    BY <2>1
  <2>4. st[k] \in LoopState /\ Grown(tree, st[k].tree)
    BY <1>3
  <2>5. st[k + 1] \in LoopState /\ Grown(tree, st[k + 1].tree)
    BY <2>2, <2>3, <2>4, ApplyKeeps
  <2>6. QED
    BY <2>1, <2>5
<1>4. \A k \in 0 .. N : k \in S
  <2> HIDE DEF S
  <2> QED
    BY <1>2, <1>3, UpTo
<1>5. N \in 0 .. N
  OBVIOUS
<1>6. QED
  BY <1>4, <1>5 DEF st

LEMMA AnswerFacts ==
  ASSUME NEW run \in RunRecord, run.gen \in Generation, run.tree.solution = NoNode,
         InPhase(run.tree, "Solution") = {}, NEW actions \in BoundedSeq(Actions(run), MaxActions),
         NEW new, new = ApplySearchActions(run, actions)
  PROVE  Retreed(run, new, new.tree) /\ Grown(run.tree, new.tree)
<1>1. Actions(run) # {} => \A a \in Actions(run) : ActionOn(a, Len(run.tree.nodes))
  <2>1. DOMAIN run.tree.nodes = 1 .. Len(run.tree.nodes)
    BY RunFacts, TreeFacts
  <2> DEFINE ids == DOMAIN run.tree.nodes
             given == IF Search(run).hasEvaluator THEN Scores \cup {NoScore} ELSE Scores
  <2>2. given \subseteq Scores \cup {NoScore}
    OBVIOUS
  <2>3. ASSUME NEW a \in Actions(run) PROVE ActionOn(a, Len(run.tree.nodes))
    <3>1. \/ a \in [action : {"expand", "converge"}, node : ids, score : given]
          \/ a \in [action : {"prune"}, node : ids, score : {NoScore}]
      BY <2>3 DEF Actions
    <3> HIDE DEF given
    <3>2. QED
      BY <2>1, <2>2, <3>1 DEF ActionOn
  <2>4. QED
    BY <2>3
<1>2. /\ Len(actions) \in Nat
      /\ \A k \in 1 .. Len(actions) : ActionOn(actions[k], Len(run.tree.nodes))
  <2>1. MaxActions \in Nat
    BY ConstFacts
  <2>2. PICK k \in 0 .. MaxActions : actions \in [1 .. k -> Actions(run)]
    BY <2>1 DEF BoundedSeq, SeqOf
  <2>3. k \in Nat /\ DOMAIN actions = 1 .. k /\ actions \in Seq(Actions(run))
    BY <2>1, <2>2
  <2>4. Len(actions) = k
    BY <2>3
  <2>5. QED
    BY <1>1, <2>2, <2>3, <2>4
<1> DEFINE m == Search(run).maxNodes
           tree == ApplyLoop(run.tree, actions, m)[Len(actions)].tree
<1>3. m \in Nat
  BY SpecFacts DEF Search
<1>4. Grown(run.tree, tree)
  BY <1>2, <1>3, RunFacts, LoopKeeps
<1>5. new = [run EXCEPT !.tree = tree]
  BY DEF ApplySearchActions
<1>6. tree \in SearchTree
  BY <1>4 DEF Grown
<1> HIDE DEF tree
<1>7. Retreed(run, new, tree)
  BY <1>5, <1>6, RetreedIs
<1>8. new.tree = tree
  BY <1>7 DEF Retreed
<1>9. QED
  BY <1>4, <1>7, <1>8

LEMMA GrownExtends ==
  ASSUME NEW old \in SearchTree, NEW new, Grown(old, new), InPhase(old, "Solution") = {}
  PROVE  Extends(old, new)
<1>1. /\ DOMAIN old.nodes = 1 .. Len(old.nodes) /\ DOMAIN new.nodes = 1 .. Len(new.nodes)
      /\ Len(old.nodes) \in Nat /\ Len(new.nodes) \in Nat
  BY TreeFacts DEF Grown
<1>2. SUFFICES ASSUME NEW n \in DOMAIN old.nodes
               PROVE  /\ n \in DOMAIN new.nodes /\ new.nodes[n].parent = old.nodes[n].parent
                      /\ Rank(new.nodes[n].phase) >= Rank(old.nodes[n].phase)
  BY DEF Extends
<1>3. n \in DOMAIN new.nodes
  BY <1>1 DEF Grown
<1>4. old.nodes[n].phase \in NodePhase /\ old.nodes[n].phase # "Solution"
  BY TreeFacts, NodeFacts DEF InPhase
<1>5. Rank(old.nodes[n].phase) \in 0 .. 4 /\ Rank(old.nodes[n].phase) <= 3
  BY <1>4, RankFacts
<1>6. new.nodes[n].parent = old.nodes[n].parent
  BY DEF Grown
<1>7. Rank(new.nodes[n].phase) >= Rank(old.nodes[n].phase)
  <2>1. CASE new.nodes[n].phase = old.nodes[n].phase
    BY <1>5, <2>1
  <2>2. CASE new.nodes[n].phase \in {"Pruned", "Solution"}
    BY <1>5, <2>2, RankFacts
  <2>3. QED
    BY <2>1, <2>2 DEF Grown
<1>8. QED
  BY <1>3, <1>6, <1>7

LEMMA ExtendsItself ==
  ASSUME NEW tree \in SearchTree
  PROVE  Extends(tree, tree)
<1>1. \A n \in DOMAIN tree.nodes : Rank(tree.nodes[n].phase) \in 0 .. 4
  BY TreeFacts, NodeFacts, RankFacts
<1>2. QED
  BY <1>1 DEF Extends

LEMMA ExtendsOn ==
  ASSUME NEW a \in SearchTree, NEW b \in SearchTree, NEW c \in SearchTree, Extends(a, b), Extends(b, c)
  PROVE  Extends(a, c)
<1>1. SUFFICES ASSUME NEW n \in DOMAIN a.nodes
               PROVE  /\ n \in DOMAIN c.nodes /\ c.nodes[n].parent = a.nodes[n].parent
                      /\ Rank(c.nodes[n].phase) >= Rank(a.nodes[n].phase)
  BY DEF Extends
<1>2. /\ n \in DOMAIN b.nodes /\ b.nodes[n].parent = a.nodes[n].parent
      /\ Rank(b.nodes[n].phase) >= Rank(a.nodes[n].phase)
  BY DEF Extends
<1>3. /\ n \in DOMAIN c.nodes /\ c.nodes[n].parent = b.nodes[n].parent
      /\ Rank(c.nodes[n].phase) >= Rank(b.nodes[n].phase)
  BY <1>2 DEF Extends
<1>4. Rank(a.nodes[n].phase) \in 0 .. 4 /\ Rank(b.nodes[n].phase) \in 0 .. 4 /\ Rank(c.nodes[n].phase) \in 0 .. 4
  BY <1>2, <1>3, TreeFacts, NodeFacts, RankFacts
<1>5. QED
  BY <1>2, <1>3, <1>4

\* The end of Collect and of PlannerAnswers.
LEMMA FinalizeFacts ==
  ASSUME NEW run \in RunRecord, run.phase = "Running", run.gen # NoTeam, run.reason = "",
         run.tree.solution = NoNode => InPhase(run.tree, "Solution") = {},
         NEW next, FinalizeOrGoOn(run, next)
  PROVE  /\ Unsolved(mem')
         /\ \/ pc' = "persist" /\ EndedBy(run, mem', "Succeeded", "Converged")
            \/ pc' = next /\ mem' = run
<1>1. CASE CheckConvergence(run)
  <2>1. mem' = Ends(run, "Succeeded", "Converged") /\ pc' = "persist"
    BY <1>1 DEF FinalizeOrGoOn
  <2>2. EndedBy(run, mem', "Succeeded", "Converged")
    BY <2>1, EndsIs DEF Reason
  <2>3. Unsolved(mem')
    BY <2>2 DEF Unsolved, EndedBy, Terminal
  <2>4. QED
    BY <2>1, <2>2, <2>3
<1>2. CASE ~CheckConvergence(run)
  <2>1. mem' = run /\ pc' = next
    BY <1>2 DEF FinalizeOrGoOn
  <2>2. run.tree.solution = NoNode
    BY <1>2 DEF CheckConvergence
  <2>3. Unsolved(mem')
    BY <2>1, <2>2 DEF Unsolved
  <2>4. QED
    BY <2>1, <2>3
<1>3. QED
  BY <1>1, <1>2

-----------------------------------------------------------------------------
(* What a pass collects and prunes.                                        *)

\* Running nodes are settled by the answers to their tasks.
Gathers(old, new) ==
  /\ new \in SearchTree /\ new.iterations = old.iterations /\ new.solution = old.solution
  /\ DOMAIN new.nodes = DOMAIN old.nodes
  /\ \A n \in DOMAIN old.nodes :
       LET o == old.nodes[n]
           w == new.nodes[n]
       IN  /\ w.parent = o.parent
           /\ \/ w.phase = o.phase /\ w.task = o.task
              \/ o.phase = "Running" /\ w.phase = "Scored" /\ ledger[o.task] = "ok" /\ w.task = NoTask
              \/ /\ o.phase = "Running" /\ w.phase = "EvalFailed" /\ ledger[o.task] # "open"
                 /\ w.task = NoTask

\* Scored nodes are pruned.
Prunes(old, new) ==
  /\ new \in SearchTree /\ new.iterations = old.iterations /\ new.solution = old.solution
  /\ DOMAIN new.nodes = DOMAIN old.nodes
  /\ \A n \in DOMAIN old.nodes :
       LET o == old.nodes[n]
           w == new.nodes[n]
       IN  /\ w.parent = o.parent /\ w.task = o.task /\ w.depth = o.depth
           /\ w.phase = o.phase \/ (o.phase = "Scored" /\ w.phase = "Pruned")

LEMMA GathersNothing ==
  ASSUME NEW tree \in SearchTree
  PROVE  Gathers(tree, tree) /\ Prunes(tree, tree)
BY DEF Gathers, Prunes

LEMMA CollectFacts ==
  ASSUME NEW tree \in SearchTree, NEW new, new = CollectSearchExecutorResults(tree)
  PROVE  Gathers(tree, new)
<1> DEFINE nodes == tree.nodes
           Res(n) == IF nodes[n].phase = "Running" THEN ledger[nodes[n].task] ELSE "open"
           Settled(n) == [nodes[n] EXCEPT !.phase = IF Res(n) = "ok" THEN "Scored" ELSE "EvalFailed", !.task = NoTask]
           list == [n \in DOMAIN nodes |-> IF Res(n) = "open" THEN nodes[n] ELSE Settled(n)]
<1>1. new = [tree EXCEPT !.nodes = list]
  BY DEF CollectSearchExecutorResults, Collected
<1>2. nodes \in Seq(Node) /\ \A n \in DOMAIN nodes : nodes[n] \in Node
  BY TreeFacts, SMTT(30)
<1>3. ASSUME NEW n \in DOMAIN nodes
      PROVE  /\ list[n] \in Node
             /\ LET o == nodes[n]
                    w == list[n]
                IN  /\ w.parent = o.parent
                    /\ \/ w.phase = o.phase /\ w.task = o.task
                       \/ o.phase = "Running" /\ w.phase = "Scored" /\ ledger[o.task] = "ok" /\ w.task = NoTask
                       \/ /\ o.phase = "Running" /\ w.phase = "EvalFailed" /\ ledger[o.task] # "open"
                          /\ w.task = NoTask
  <2>1. CASE Res(n) = "open"
    <3>1. list[n] = nodes[n]
      BY <2>1, ZenonT(30)
    <3>2. QED
      BY <1>2, <3>1
  <2>2. CASE Res(n) # "open"
    <3>1. nodes[n].phase = "Running" /\ ledger[nodes[n].task] # "open" /\ Res(n) = ledger[nodes[n].task]
      BY <2>2
    <3>2. list[n] = Settled(n)
      BY <2>2
    <3>3. nodes[n] \in Node /\ NoTask \in 0 .. MaxTasks
      BY <1>2, ConstFacts
    <3>4. CASE Res(n) = "ok"
      <4>1. list[n] = [nodes[n] EXCEPT !.phase = "Scored", !.task = NoTask]
        BY <3>2, <3>4
      <4> HIDE DEF list, Res, Settled, nodes
      <4>2. list[n] \in Node /\ list[n].parent = nodes[n].parent /\ list[n].phase = "Scored" /\ list[n].task = NoTask
        BY <3>3, <4>1 DEF Node, NodePhase
      <4>3. QED
        BY <3>1, <3>4, <4>2
    <3>5. CASE Res(n) # "ok"
      <4>1. list[n] = [nodes[n] EXCEPT !.phase = "EvalFailed", !.task = NoTask]
        BY <3>2, <3>5
      <4> HIDE DEF list, Res, Settled, nodes
      <4>2. /\ list[n] \in Node /\ list[n].parent = nodes[n].parent /\ list[n].phase = "EvalFailed"
            /\ list[n].task = NoTask
        BY <3>3, <4>1 DEF Node, NodePhase
      <4>3. QED
        BY <3>1, <4>2
    <3>6. QED
      BY <3>4, <3>5
  <2>3. QED
    BY <2>1, <2>2
<1>4. list = [n \in DOMAIN nodes |-> list[n]]
  OBVIOUS
<1> HIDE DEF list
<1>5. list \in Seq(Node) /\ DOMAIN list = DOMAIN nodes
  BY <1>2, <1>3, <1>4, NodesIs
<1>6. /\ new \in SearchTree /\ new.nodes = list /\ new.solution = tree.solution
      /\ new.iterations = tree.iterations
  BY <1>1, <1>5 DEF SearchTree
<1>7. QED
  BY <1>3, <1>5, <1>6 DEF Gathers

LEMMA NodesFinite ==
  ASSUME NEW tree \in SearchTree
  PROVE  /\ IsFiniteSet(DOMAIN tree.nodes) /\ Cardinality(DOMAIN tree.nodes) = Len(tree.nodes)
         /\ \A S : S \subseteq DOMAIN tree.nodes => IsFiniteSet(S) /\ Cardinality(S) \in Nat
<1>1. Len(tree.nodes) \in Nat /\ DOMAIN tree.nodes = 1 .. Len(tree.nodes)
  BY TreeFacts
<1>2. IsFiniteSet(1 .. Len(tree.nodes)) /\ Cardinality(1 .. Len(tree.nodes)) = Len(tree.nodes)
  <2>1. 1 \in Int /\ Len(tree.nodes) \in Int
    BY <1>1
  <2>2. QED
    BY <1>1, <2>1, FS_Interval
<1>3. \A S : S \subseteq DOMAIN tree.nodes => IsFiniteSet(S)
  BY <1>1, <1>2, FS_Subset
<1>4. QED
  BY <1>1, <1>2, <1>3, FS_CardinalityType

\* Few enough of each depth are left.
LEMMA BeamFacts ==
  ASSUME NEW tree \in SearchTree, NEW width \in Nat, NEW new \in BeamPruned(tree, width)
  PROVE  /\ Prunes(tree, new)
         /\ \A n \in DOMAIN new.nodes : Cardinality(Rivals(new, new.nodes[n].depth)) <= width
<1> DEFINE nodes == tree.nodes
           scored == UNION {Rivals(tree, nodes[n].depth) : n \in DOMAIN nodes}
<1>1. PICK kept \in {k \in SUBSET scored : KeepsBest(tree, width, k)} :
        new = [tree EXCEPT !.nodes = [n \in DOMAIN nodes |->
                 IF n \in scored \ kept THEN [nodes[n] EXCEPT !.phase = "Pruned"] ELSE nodes[n]]]
  BY DEF BeamPruned
<1> DEFINE list == [n \in DOMAIN nodes |->
                     IF n \in scored \ kept THEN [nodes[n] EXCEPT !.phase = "Pruned"] ELSE nodes[n]]
<1>2. nodes \in Seq(Node) /\ \A n \in DOMAIN nodes : nodes[n] \in Node
  BY TreeFacts
<1>3. \A n \in scored : n \in DOMAIN nodes /\ nodes[n].phase = "Scored"
  BY DEF Rivals, InPhase
<1>4. ASSUME NEW n \in DOMAIN nodes
      PROVE  /\ list[n] \in Node /\ list[n].parent = nodes[n].parent /\ list[n].task = nodes[n].task
             /\ list[n].depth = nodes[n].depth /\ list[n].score = nodes[n].score
             /\ n \in scored \ kept => list[n].phase = "Pruned" /\ nodes[n].phase = "Scored"
             /\ n \notin scored \ kept => list[n] = nodes[n]
  <2>1. CASE n \in scored \ kept
    <3>1. list[n] = [nodes[n] EXCEPT !.phase = "Pruned"] /\ nodes[n].phase = "Scored" /\ nodes[n] \in Node
      BY <1>2, <1>3, <2>1
    <3> HIDE DEF list, nodes, scored
    <3>2. QED
      BY <2>1, <3>1 DEF Node, NodePhase
  <2>2. CASE n \notin scored \ kept
    <3>1. list[n] = nodes[n] /\ nodes[n] \in Node
      BY <1>2, <2>2
    <3> HIDE DEF list, nodes, scored
    <3>2. QED
      BY <2>2, <3>1
  <2>3. QED
    BY <2>1, <2>2
<1>5. list = [n \in DOMAIN nodes |-> list[n]]
  OBVIOUS
<1>6. new = [tree EXCEPT !.nodes = list]
  BY <1>1
<1> HIDE DEF list
<1>7. list \in Seq(Node) /\ DOMAIN list = DOMAIN nodes
  BY <1>2, <1>4, <1>5, NodesIs
<1>8. /\ new \in SearchTree /\ new.nodes = list /\ new.solution = tree.solution
      /\ new.iterations = tree.iterations
  BY <1>6, <1>7 DEF SearchTree
<1>9. Prunes(tree, new)
  <2> HIDE DEF scored
  <2>1. \A n \in DOMAIN nodes : list[n].phase = nodes[n].phase \/ (nodes[n].phase = "Scored" /\ list[n].phase = "Pruned")
    BY <1>4
  <2>2. QED
    BY <1>4, <1>7, <1>8, <2>1 DEF Prunes
<1>10. ASSUME NEW n \in DOMAIN new.nodes
       PROVE  Cardinality(Rivals(new, new.nodes[n].depth)) <= width
  <2> DEFINE d == nodes[n].depth
             all == Rivals(tree, d)
  <2>1. n \in DOMAIN nodes /\ new.nodes[n].depth = d
    BY <1>4, <1>7, <1>8
  <2>2. all \subseteq scored
    BY <2>1
  <2>3. Rivals(new, d) \subseteq all \cap kept
    <3>1. SUFFICES ASSUME NEW m \in Rivals(new, d) PROVE m \in all \cap kept
      OBVIOUS
    <3>2. m \in DOMAIN nodes /\ list[m].phase = "Scored" /\ list[m].depth = d /\ list[m].score # NoScore
      BY <1>7, <1>8, <3>1 DEF Rivals, InPhase
    <3>3. m \notin scored \ kept
      <4> HIDE DEF scored
      <4> QED
        BY <1>4, <3>2
    <3>4. list[m] = nodes[m]
      <4> HIDE DEF scored
      <4> QED
        BY <1>4, <3>2, <3>3
    <3>5. m \in all
      BY <3>2, <3>4 DEF Rivals, InPhase
    <3>6. QED
      BY <2>2, <3>3, <3>5
  <2>4. all \subseteq DOMAIN nodes
    BY DEF Rivals, InPhase
  <2>5. IsFiniteSet(all) /\ Cardinality(all) \in Nat /\ IsFiniteSet(all \cap kept) /\ Cardinality(all \cap kept) \in Nat
    BY <2>4, NodesFinite
  <2>6. /\ IsFiniteSet(Rivals(new, d)) /\ Cardinality(Rivals(new, d)) \in Nat
        /\ Cardinality(Rivals(new, d)) <= Cardinality(all)
        /\ Cardinality(Rivals(new, d)) <= Cardinality(all \cap kept)
    <3>1. Rivals(new, d) \subseteq all
      BY <2>3
    <3>2. QED
      BY <2>3, <2>5, <3>1, FS_Subset, FS_CardinalityType
  <2>7. Cardinality(all) <= width \/ Cardinality(all \cap kept) = width
    <3>1. KeepsBest(tree, width, kept)
      OBVIOUS
    <3>2. d \in {nodes[k].depth : k \in DOMAIN nodes}
      BY <2>1
    <3>3. QED
      BY <3>1, <3>2 DEF KeepsBest
  <2> HIDE DEF all, d
  <2>8. Cardinality(Rivals(new, d)) <= width
    BY <2>5, <2>6, <2>7
  <2>9. QED
    BY <2>1, <2>8
<1>11. QED
  BY <1>9, <1>10

-----------------------------------------------------------------------------
(* The steps of a pass that work on the tree.                              *)

CollectStep ==
  /\ pc = "collect" /\ SameElsewhere
  /\ \E tree \in SearchTree : Gathers(InitSearchTree(mem).tree, tree) /\ Prunes(tree, mem'.tree)
  /\ mem'.tree.iterations = mem.tree.iterations
  /\ Beamed(mem')
  /\ \/ pc' = "submit" /\ mem'.phase = "Running"
     \/ pc' = "persist" /\ mem'.phase = "Succeeded"
  /\ mem'.reason \in {"", "Converged"}

\* A task for a node.
NodeStep ==
  /\ pc \in {"submit", "resubmit"} /\ pc' = pc /\ UNCHANGED <<faults, memFresh>>
  /\ Cardinality(InPhase(mem.tree, "Running")) < Search(mem).maxParallel
  /\ \E n \in InPhase(mem.tree, "Pending") :
       /\ Submits(n)
       /\ mem'.tree.nodes[n].phase = "Running" /\ mem'.tree.nodes[n].task = issued'
       /\ mem'.tree.nodes[n].depth = mem.tree.nodes[n].depth
       /\ \A m \in DOMAIN mem.tree.nodes : m # n => mem'.tree.nodes[m] = mem.tree.nodes[m]
  /\ DOMAIN mem'.tree.nodes = DOMAIN mem.tree.nodes
  /\ mem'.reason = ""

\* A task for the planner.
PlanStep ==
  /\ pc = "plan" /\ pc' = "answer" /\ Submits(NoNode) /\ mem' = mem /\ UNCHANGED <<faults, memFresh>>

\* The pass goes on with the copy as it is.
GoStep ==
  /\ mem' = mem /\ SameElsewhere /\ UNCHANGED <<faults, memFresh>>
  /\ \/ pc = "submit" /\ pc' = "persist"
     \/ pc = "submit" /\ pc' = "plan" /\ ~MaySubmit(mem) /\ InPhase(mem.tree, "Running") = {}
     \/ pc = "answer" /\ pc' = "resubmit"

CountStep ==
  /\ pc = "resubmit" /\ pc' = "persist" /\ SameElsewhere /\ UNCHANGED <<faults, memFresh>>
  /\ mem'.tree.nodes = mem.tree.nodes /\ mem'.tree.iterations = mem.tree.iterations + 1
  /\ mem'.reason = "" /\ mem'.phase = "Running"

FailStep ==
  /\ pc \in {"collect", "plan", "answer"} /\ pc' = "persist" /\ SameElsewhere
  /\ \E r \in {"Rejected", "PlannerFailure"} : EndedBy(mem, mem', "Failed", r)

InFlight == {mem.tree.nodes[n].task : n \in InPhase(mem.tree, "Running") \cup InPhase(mem.tree, "Pending")} \ {NoTask}

TimeoutStep ==
  /\ pc = "collect" /\ pc' = "persist" /\ UNCHANGED <<issued, taskNode, memFresh>>
  /\ EndedBy(mem, mem', "Failed", "Timeout")
  /\ \/ Cancelling(InFlight) /\ faults' = faults
     \/ UNCHANGED ledger /\ faults' = faults + 1

GrowStep ==
  /\ pc = "answer" /\ SameElsewhere /\ UNCHANGED <<faults, memFresh>>
  /\ Grown(mem.tree, mem'.tree)
  /\ \/ pc' = "resubmit" /\ mem'.phase = "Running"
     \/ pc' = "persist" /\ mem'.phase = "Succeeded"
  /\ mem'.reason \in {"", "Converged"}

\* What a pass may rely on.
LEMMA WorkingFacts ==
  ASSUME TypeOK, FrameInv, Working
  PROVE  /\ mem \in RunRecord /\ mem.tree \in SearchTree /\ mem.gen \in Generation /\ mem.gen # NoTeam
         /\ mem.reason = "" /\ mem.tree.solution = NoNode /\ InPhase(mem.tree, "Solution") = {}
         /\ mem.phase \in {"", "Running"} /\ (pc # "collect" => mem.phase = "Running")
         /\ mem.phase = "" => mem.tree.nodes = <<>>
         /\ faults \in 0 .. MaxFaults /\ faults \in Nat /\ issued \in Nat
<1>1. mem \in RunRecord /\ faults \in 0 .. MaxFaults /\ issued \in 0 .. MaxTasks
  BY DEF TypeOK
<1>2. /\ ~Terminal(mem.phase) /\ mem.gen # NoTeam /\ Unsolved(mem)
      /\ pc # "collect" => mem.phase = "Running"
  BY DEF FrameInv, Grounded
<1>3. mem.tree \in SearchTree /\ mem.gen \in Generation
  BY <1>1, <1>2, RunFacts
<1>4. mem.phase \in {"", "Running"}
  BY <1>1, <1>2, RunFacts DEF Terminal
<1>5. /\ mem.reason = "" /\ mem.tree.solution = NoNode /\ InPhase(mem.tree, "Solution") = {}
      /\ mem.phase = "" => mem.tree.nodes = <<>>
  BY <1>2 DEF Unsolved
<1>6. faults \in Nat /\ issued \in Nat
  BY <1>1, ConstFacts
<1>7. QED
  BY <1>1, <1>2, <1>3, <1>4, <1>5, <1>6

\* A pass that ends the run.
LEMMA EndedWork ==
  ASSUME TypeOK, FrameInv, Working, UNCHANGED <<api, cache, cacheFresh, memFresh, team, late>>, pc' = "persist",
         NEW phase \in {"Succeeded", "Failed"}, NEW reason \in Reason, EndedBy(mem, mem', phase, reason),
         faults' \in {faults, faults + 1}
  PROVE  WorkStep
<1>1. /\ mem' \in RunRecord /\ mem'.tree = mem.tree /\ mem'.phase = phase /\ mem'.gen = mem.gen
  BY DEF EndedBy
<1>2. Extends(mem.tree, mem'.tree)
  BY <1>1, WorkingFacts, ExtendsItself
<1>3. Unsolved(mem')
  BY <1>1, WorkingFacts DEF Unsolved, Terminal
<1>4. QED
  BY <1>1, <1>2, <1>3 DEF WorkStep

\* A pass that goes on with the same tree.
LEMMA SameWork ==
  ASSUME TypeOK, FrameInv, Working, pc # "collect", UNCHANGED <<api, cache, cacheFresh, memFresh, team, late, mem>>,
         pc' \in {"plan", "answer", "resubmit", "persist"}, faults' \in {faults, faults + 1}
  PROVE  WorkStep
<1>1. Extends(mem.tree, mem'.tree)
  BY WorkingFacts, ExtendsItself
<1>2. Unsolved(mem')
  BY WorkingFacts DEF Unsolved, Terminal
<1>3. QED
  BY <1>1, <1>2, WorkingFacts DEF WorkStep

\* The types after a step of a pass.
LEMMA WorkTypes ==
  ASSUME TypeOK, WorkStep, UNCHANGED wake, faults' \in 0 .. MaxFaults,
         ledger' \in [TaskIds -> Queue!LedgerState], issued' \in 0 .. MaxTasks, taskNode' \in [TaskIds -> Nat]
  PROVE  TypeOK'
<1>1. UNCHANGED <<api, cache, cacheFresh, memFresh, team, late, wake>> /\ mem' \in RunRecord
  BY DEF WorkStep
<1>2. pc' \in {"idle", "load", "collect", "submit", "plan", "answer", "resubmit", "persist"}
  BY DEF WorkStep
<1>3. QED
  BY <1>1, <1>2 DEF TypeOK

LEMMA SameTypes ==
  ASSUME TypeOK, WorkStep, UNCHANGED wake, faults' \in 0 .. MaxFaults, SameElsewhere
  PROVE  TypeOK'
<1>1. ledger' \in [TaskIds -> Queue!LedgerState] /\ issued' \in 0 .. MaxTasks /\ taskNode' \in [TaskIds -> Nat]
  BY DEF TypeOK, SameElsewhere
<1>2. QED
  BY <1>1, WorkTypes

LEMMA RejectKind ==
  ASSUME TypeOK, FrameInv, Reject
  PROVE  WorkStep /\ FailStep /\ TypeOK'
<1>1. /\ pc = "collect" /\ pc' = "persist" /\ SameElsewhere
      /\ UNCHANGED <<api, cache, cacheFresh, memFresh, wake, faults>>
      /\ mem' = Ends(mem, "Failed", "Rejected")
  BY ElsewhereFacts DEF Reject, object
<1>2. Working /\ UNCHANGED <<team, late>>
  BY <1>1 DEF Working, SameElsewhere
<1>3. "Rejected" \in Reason /\ faults \in 0 .. MaxFaults
  BY DEF Reason, TypeOK
<1>4. EndedBy(mem, mem', "Failed", "Rejected")
  BY <1>1, <1>2, <1>3, WorkingFacts, EndsIs
<1>5. WorkStep
  BY <1>1, <1>2, <1>3, <1>4, EndedWork
<1>6. QED
  BY <1>1, <1>3, <1>4, <1>5, SameTypes DEF FailStep

LEMMA PlannerFailKind ==
  ASSUME TypeOK, FrameInv, PlannerCallFails \/ PlannerInvalid
  PROVE  WorkStep /\ FailStep /\ TypeOK'
<1>1. /\ pc \in {"plan", "answer"} /\ pc' = "persist" /\ SameElsewhere
      /\ UNCHANGED <<api, cache, cacheFresh, memFresh, wake>>
      /\ mem' = Ends(mem, "Failed", "PlannerFailure")
  BY ElsewhereFacts DEF PlannerCallFails, PlannerInvalid, PlannerFailure, object
<1>2. Working /\ UNCHANGED <<team, late>>
  BY <1>1 DEF Working, SameElsewhere
<1>3. faults' \in 0 .. MaxFaults /\ faults' \in {faults, faults + 1}
  <2>1. CASE PlannerCallFails
    BY <2>1, FaultFacts DEF PlannerCallFails
  <2>2. CASE PlannerInvalid
    BY <2>2 DEF PlannerInvalid, TypeOK
  <2>3. QED
    BY <2>1, <2>2
<1>4. EndedBy(mem, mem', "Failed", "PlannerFailure")
  BY <1>1, <1>2, WorkingFacts, EndsIs DEF Reason
<1>5. WorkStep
  BY <1>1, <1>2, <1>3, <1>4, EndedWork DEF Reason
<1>6. QED
  BY <1>1, <1>3, <1>4, <1>5, SameTypes DEF FailStep

LEMMA InFlightFacts ==
  ASSUME TypeOK
  PROVE  InFlight \subseteq TaskIds
<1>1. mem.tree \in SearchTree
  BY RunFacts DEF TypeOK
<1>2. \A n \in DOMAIN mem.tree.nodes : mem.tree.nodes[n].task \in 0 .. MaxTasks
  BY <1>1, TreeFacts, NodeFacts
<1>3. \A t \in 0 .. MaxTasks : t # NoTask => t \in TaskIds
  BY ConstFacts DEF TaskIds
<1>4. QED
  BY <1>2, <1>3 DEF InFlight, InPhase

LEMMA TimeoutKind ==
  ASSUME TypeOK, FrameInv, EnforceRunTimeout
  PROVE  WorkStep /\ TimeoutStep /\ TypeOK'
<1>1. /\ pc = "collect" /\ pc' = "persist"
      /\ UNCHANGED <<api, cache, cacheFresh, memFresh, wake, late, team, issued, taskNode>>
      /\ mem' = Ends(mem, "Failed", "Timeout") /\ CancelSearchTasks(mem)
  BY DEF EnforceRunTimeout, object
<1>2. Working
  BY <1>1 DEF Working
<1>3. EndedBy(mem, mem', "Failed", "Timeout")
  BY <1>1, <1>2, WorkingFacts, EndsIs DEF Reason
<1>4. \/ Cancelling(InFlight) /\ faults' = faults
      \/ UNCHANGED ledger /\ faults' = faults + 1
  <2>1. CASE Queue!Cancel(InFlight) /\ UNCHANGED faults
    BY <1>1, <2>1, InFlightFacts, CancelFacts
  <2>2. CASE Fault /\ UNCHANGED ledger
    BY <2>2, FaultFacts
  <2>3. QED
    BY <1>1, <2>1, <2>2 DEF CancelSearchTasks, InFlight
<1>5. faults' \in 0 .. MaxFaults /\ faults' \in {faults, faults + 1}
  <2>1. CASE UNCHANGED faults
    BY <2>1 DEF TypeOK
  <2>2. CASE Fault
    BY <2>2, FaultFacts
  <2>3. QED
    BY <1>1, <2>1, <2>2 DEF CancelSearchTasks
<1>6. ledger' \in [TaskIds -> Queue!LedgerState]
  BY <1>4 DEF Cancelling, TypeOK
<1>7. WorkStep
  BY <1>1, <1>2, <1>3, <1>5, EndedWork DEF Reason
<1>8. issued' \in 0 .. MaxTasks /\ taskNode' \in [TaskIds -> Nat]
  BY <1>1 DEF TypeOK
<1>9. TypeOK'
  BY <1>1, <1>5, <1>6, <1>7, <1>8, WorkTypes
<1>10. QED
  BY <1>1, <1>3, <1>4, <1>7, <1>9 DEF TimeoutStep

LEMMA GoKind ==
  ASSUME TypeOK, FrameInv, WaitOrPlan \/ PlannerSilent
  PROVE  WorkStep /\ GoStep /\ TypeOK'
<1>1. SameElsewhere /\ UNCHANGED <<api, cache, cacheFresh, mem, memFresh, wake, faults>>
  BY ElsewhereFacts DEF WaitOrPlan, PlannerSilent, object
<1>2. \/ pc = "submit" /\ pc' = "persist"
      \/ pc = "submit" /\ pc' = "plan" /\ ~MaySubmit(mem) /\ InPhase(mem.tree, "Running") = {}
      \/ pc = "answer" /\ pc' = "resubmit"
  BY DEF WaitOrPlan, PlannerSilent
<1>3. Working /\ pc # "collect" /\ pc' \in {"plan", "answer", "resubmit", "persist"} /\ UNCHANGED <<team, late>>
  BY <1>1, <1>2 DEF Working, SameElsewhere
<1>4. faults' \in 0 .. MaxFaults
  BY <1>1 DEF TypeOK
<1>5. WorkStep
  BY <1>1, <1>3, SameWork
<1>6. GoStep
  BY <1>1, <1>2 DEF GoStep
<1>7. QED
  BY <1>1, <1>4, <1>5, <1>6, SameTypes

LEMMA PlanKind ==
  ASSUME TypeOK, FrameInv, SubmitPlanner
  PROVE  WorkStep /\ PlanStep /\ TypeOK'
<1>1. /\ pc = "plan" /\ pc' = "answer" /\ SubmitTask(NoNode)
      /\ UNCHANGED <<api, cache, cacheFresh, mem, memFresh, wake, faults, late, team>>
  BY DEF SubmitPlanner, object
<1>2. Submits(NoNode)
  BY <1>1, ConstFacts, SubmitFacts
<1>3. WorkStep
  BY <1>1, SameWork DEF Working
<1>4. /\ ledger' \in [TaskIds -> Queue!LedgerState] /\ issued' \in 0 .. MaxTasks
      /\ taskNode' \in [TaskIds -> Nat]
  BY <1>2, ConstFacts DEF Submits
<1>5. faults' \in 0 .. MaxFaults
  BY <1>1 DEF TypeOK
<1>6. QED
  BY <1>1, <1>2, <1>3, <1>4, <1>5, WorkTypes DEF PlanStep

LEMMA CountKind ==
  ASSUME TypeOK, FrameInv, EndIteration
  PROVE  WorkStep /\ CountStep /\ TypeOK'
<1>1. /\ pc = "resubmit" /\ pc' = "persist" /\ SameElsewhere
      /\ UNCHANGED <<api, cache, cacheFresh, memFresh, wake, faults>>
      /\ mem' = [mem EXCEPT !.tree.iterations = @ + 1]
  BY ElsewhereFacts DEF EndIteration, object
<1>2. Working /\ UNCHANGED <<team, late>> /\ pc # "collect"
  BY <1>1 DEF Working, SameElsewhere
<1>3. /\ mem \in RunRecord /\ mem.tree \in SearchTree /\ mem.phase = "Running" /\ mem.gen # NoTeam
      /\ mem.reason = "" /\ mem.tree.solution = NoNode /\ InPhase(mem.tree, "Solution") = {}
  BY <1>2, WorkingFacts
<1> DEFINE tree == [mem.tree EXCEPT !.iterations = @ + 1]
<1>4. mem' = [mem EXCEPT !.tree = tree]
  BY <1>1
<1>5. /\ tree \in SearchTree /\ tree.nodes = mem.tree.nodes /\ tree.solution = mem.tree.solution
      /\ tree.iterations = mem.tree.iterations + 1
  <2>0. mem.tree.iterations \in Nat
    BY <1>3 DEF SearchTree
  <2>1. mem.tree.iterations + 1 \in Nat
    BY <2>0
  <2>2. PICK k \in Nat : k = mem.tree.iterations + 1
    BY <2>1
  <2>3. tree = [mem.tree EXCEPT !.iterations = k]
    BY <2>2
  <2> HIDE DEF tree
  <2>4. QED
    BY <1>3, <2>2, <2>3 DEF SearchTree
<1> HIDE DEF tree
<1>6. Retreed(mem, mem', tree)
  BY <1>3, <1>4, <1>5, RetreedIs
<1>7. /\ mem' \in RunRecord /\ mem'.tree = tree /\ mem'.phase = "Running" /\ mem'.reason = ""
      /\ mem'.gen = mem.gen
  BY <1>3, <1>6 DEF Retreed
<1>8. Extends(mem.tree, mem'.tree)
  <2>1. Extends(mem.tree, mem.tree)
    BY <1>3, ExtendsItself
  <2>2. QED
    BY <1>5, <1>7, <2>1 DEF Extends
<1>9. Unsolved(mem')
  BY <1>3, <1>5, <1>7 DEF Unsolved, InPhase
<1>10. WorkStep
  BY <1>1, <1>2, <1>7, <1>8, <1>9 DEF WorkStep
<1>11. CountStep
  BY <1>1, <1>5, <1>7 DEF CountStep
<1>12. faults' \in 0 .. MaxFaults
  BY <1>1 DEF TypeOK
<1>13. QED
  BY <1>1, <1>10, <1>11, <1>12, SameTypes

\* The first Pending node.
LEMMA MinFacts ==
  ASSUME NEW S, S \subseteq Nat, S # {}
  PROVE  Min(S) \in S /\ \A n \in S : Min(S) <= n
<1>1. \E n \in S : \A m \in S : n <= m
  BY LeastNumber
<1>2. QED
  BY <1>1 DEF Min

LEMMA NodeKind ==
  ASSUME TypeOK, FrameInv, SubmitNode
  PROVE  WorkStep /\ NodeStep /\ TypeOK'
<1> DEFINE n == Min(InPhase(mem.tree, "Pending"))
           nodes == mem.tree.nodes
<1>1. /\ pc \in {"submit", "resubmit"} /\ pc' = pc /\ MaySubmit(mem) /\ SubmitTask(n)
      /\ UNCHANGED <<api, cache, cacheFresh, memFresh, wake, faults, late, team>>
      /\ mem' = [mem EXCEPT !.tree.nodes[n] = [@ EXCEPT !.phase = "Running", !.task = issued + 1]]
  BY DEF SubmitNode, Submitting, object
<1>2. Working /\ pc # "collect"
  BY <1>1 DEF Working
<1>3. /\ mem \in RunRecord /\ mem.tree \in SearchTree /\ mem.phase = "Running" /\ mem.gen # NoTeam
      /\ mem.reason = "" /\ mem.tree.solution = NoNode /\ InPhase(mem.tree, "Solution") = {}
  BY <1>2, WorkingFacts
<1>4. /\ nodes \in Seq(Node) /\ DOMAIN nodes = 1 .. Len(nodes) /\ Len(nodes) \in Nat
      /\ \A m \in DOMAIN nodes : nodes[m] \in Node /\ m \in Nat
  BY <1>3, TreeFacts
<1>5. n \in InPhase(mem.tree, "Pending")
  <2>1. InPhase(mem.tree, "Pending") \subseteq Nat
    BY <1>4 DEF InPhase
  <2>2. InPhase(mem.tree, "Pending") # {}
    BY <1>1 DEF MaySubmit
  <2>3. QED
    BY <2>1, <2>2, MinFacts
<1> HIDE DEF n
<1>6. n \in DOMAIN nodes /\ n \in Nat /\ nodes[n] \in Node /\ nodes[n].phase = "Pending"
  BY <1>4, <1>5 DEF InPhase
<1>7. Submits(n)
  BY <1>1, <1>6, SubmitFacts
<1>8. issued' = issued + 1 /\ issued' \in 0 .. MaxTasks
  BY <1>7, ConstFacts DEF Submits
<1> DEFINE y == [nodes[n] EXCEPT !.phase = "Running", !.task = issued']
           list == [nodes EXCEPT ![n] = y]
           tree == [mem.tree EXCEPT !.nodes = list]
<1>9. mem' = [mem EXCEPT !.tree = tree]
  BY <1>1, <1>8
<1>10. /\ y \in Node /\ y.parent = nodes[n].parent /\ y.depth = nodes[n].depth /\ y.phase = "Running"
       /\ y.task = issued'
  BY <1>6, <1>8 DEF Node, NodePhase
<1> HIDE DEF y
<1>11. /\ list \in Seq(Node) /\ DOMAIN list = DOMAIN nodes /\ list[n] = y
       /\ \A m \in DOMAIN nodes : m # n => list[m] = nodes[m]
  BY <1>4, <1>6, <1>10
<1> HIDE DEF list
<1>12. /\ tree \in SearchTree /\ tree.nodes = list /\ tree.solution = mem.tree.solution
       /\ tree.iterations = mem.tree.iterations
  BY <1>3, <1>11 DEF SearchTree
<1> HIDE DEF tree
<1>13. Retreed(mem, mem', tree)
  BY <1>3, <1>9, <1>12, RetreedIs
<1>14. /\ mem' \in RunRecord /\ mem'.tree = tree /\ mem'.phase = "Running" /\ mem'.reason = ""
       /\ mem'.gen = mem.gen
  BY <1>3, <1>13 DEF Retreed
<1>15. Extends(mem.tree, mem'.tree)
  <2>1. SUFFICES ASSUME NEW m \in DOMAIN nodes
                 PROVE  /\ m \in DOMAIN list /\ list[m].parent = nodes[m].parent
                        /\ Rank(list[m].phase) >= Rank(nodes[m].phase)
    BY <1>12, <1>14 DEF Extends
  <2>2. Rank(nodes[m].phase) \in 0 .. 4
    BY <1>4, NodeFacts, RankFacts
  <2>3. CASE m = n
    BY <1>6, <1>10, <1>11, <2>3, RankFacts
  <2>4. CASE m # n
    BY <1>11, <2>2, <2>4
  <2>5. QED
    BY <2>3, <2>4
<1>16. Unsolved(mem')
  <2>1. InPhase(tree, "Solution") = {}
    <3>1. SUFFICES ASSUME NEW m \in DOMAIN nodes PROVE list[m].phase # "Solution"
      BY <1>11, <1>12 DEF InPhase
    <3>2. nodes[m].phase # "Solution"
      BY <1>3 DEF InPhase
    <3>3. QED
      BY <1>10, <1>11, <3>2
  <2>2. QED
    BY <1>3, <1>12, <1>14, <2>1 DEF Unsolved
<1>17. WorkStep
  BY <1>1, <1>2, <1>12, <1>14, <1>15, <1>16 DEF WorkStep
<1>18. NodeStep
  BY <1>1, <1>5, <1>7, <1>10, <1>11, <1>12, <1>14 DEF NodeStep, MaySubmit
<1>19. faults' \in 0 .. MaxFaults
  BY <1>1 DEF TypeOK
<1>20. ledger' \in [TaskIds -> Queue!LedgerState] /\ taskNode' \in [TaskIds -> Nat]
  BY <1>7 DEF Submits
<1>21. QED
  BY <1>1, <1>8, <1>17, <1>18, <1>19, <1>20, WorkTypes

LEMMA GrowKind ==
  ASSUME TypeOK, FrameInv, PlannerAnswers
  PROVE  WorkStep /\ GrowStep /\ TypeOK'
<1>1. /\ pc = "answer" /\ SameElsewhere
      /\ UNCHANGED <<api, cache, cacheFresh, memFresh, wake, faults>>
  BY ElsewhereFacts DEF PlannerAnswers, object
<1>2. Working /\ UNCHANGED <<team, late>> /\ pc # "collect"
  BY <1>1 DEF Working, SameElsewhere
<1>3. /\ mem \in RunRecord /\ mem.tree \in SearchTree /\ mem.phase = "Running" /\ mem.gen # NoTeam
      /\ mem.gen \in Generation
      /\ mem.reason = "" /\ mem.tree.solution = NoNode /\ InPhase(mem.tree, "Solution") = {}
  BY <1>2, WorkingFacts
<1>4. PICK actions \in BoundedSeq(Actions(mem), MaxActions) :
        FinalizeOrGoOn(ApplySearchActions(mem, actions), "resubmit")
  BY DEF PlannerAnswers
<1> DEFINE run == ApplySearchActions(mem, actions)
<1>5. Retreed(mem, run, run.tree) /\ Grown(mem.tree, run.tree)
  BY <1>3, AnswerFacts
<1>6. FinalizeOrGoOn(run, "resubmit")
  BY <1>4
<1> HIDE DEF run
<1>7. run \in RunRecord /\ run.phase = "Running" /\ run.reason = "" /\ run.gen = mem.gen
  BY <1>3, <1>5 DEF Retreed
<1>8. run.tree.solution = NoNode => InPhase(run.tree, "Solution") = {}
  BY <1>5 DEF Grown
<1>9. /\ Unsolved(mem')
      /\ \/ pc' = "persist" /\ EndedBy(run, mem', "Succeeded", "Converged")
         \/ pc' = "resubmit" /\ mem' = run
  BY <1>3, <1>6, <1>7, <1>8, FinalizeFacts
<1>10. /\ mem' \in RunRecord /\ mem'.tree = run.tree /\ mem'.gen = mem.gen /\ mem'.phase # ""
       /\ mem'.reason \in {"", "Converged"}
       /\ \/ pc' = "resubmit" /\ mem'.phase = "Running"
          \/ pc' = "persist" /\ mem'.phase = "Succeeded"
  BY <1>7, <1>9 DEF EndedBy
<1>11. Extends(mem.tree, mem'.tree)
  BY <1>3, <1>5, <1>10, GrownExtends
<1>12. mem'.tree.iterations = mem.tree.iterations
  BY <1>5, <1>10 DEF Grown
<1>13. WorkStep
  BY <1>1, <1>2, <1>9, <1>10, <1>11, <1>12 DEF WorkStep
<1>14. GrowStep
  BY <1>1, <1>5, <1>10 DEF GrowStep
<1>15. faults' \in 0 .. MaxFaults
  BY <1>1 DEF TypeOK
<1>16. QED
  BY <1>1, <1>13, <1>14, <1>15, SameTypes

LEMMA EmptyList == DOMAIN <<>> = {}
OBVIOUS

LEMMA OneNode ==
  ASSUME NEW x \in Node
  PROVE  <<x>> \in Seq(Node) /\ DOMAIN <<x>> = {1} /\ <<x>>[1] = x
<1>1. <<x>> \in Seq(Node) /\ Len(<<x>>) = 1 /\ <<x>>[1] = x
  OBVIOUS
<1>2. DOMAIN <<x>> = 1 .. 1
  BY <1>1
<1>3. QED
  BY <1>1, <1>2

LEMMA RootFacts ==
  /\ NewNode(NoNode, 0, NoScore) \in Node /\ NewNode(NoNode, 0, NoScore).phase = "Pending"
  /\ NewNode(NoNode, 0, NoScore).task = NoTask
BY ConstFacts DEF NewNode, Node, NodePhase

LEMMA InitTreeFacts ==
  ASSUME NEW run \in RunRecord, run.phase \in {"", "Running"}, run.phase = "" => run.tree.nodes = <<>>,
         run.tree.solution = NoNode, InPhase(run.tree, "Solution") = {}
  PROVE  LET new == InitSearchTree(run)
         IN  /\ new \in RunRecord /\ new.phase = "Running" /\ new.reason = run.reason /\ new.gen = run.gen
             /\ new.tree.iterations = run.tree.iterations /\ new.tree.solution = NoNode
             /\ InPhase(new.tree, "Solution") = {} /\ Extends(run.tree, new.tree)
             /\ \/ new.tree = run.tree
                \/ /\ run.tree.nodes = <<>> /\ DOMAIN new.tree.nodes = {1}
                   /\ new.tree.nodes[1].phase = "Pending" /\ new.tree.nodes[1].task = NoTask
<1> DEFINE new == InitSearchTree(run)
<1>0. run.tree \in SearchTree
  BY RunFacts
<1>1. CASE run.phase # ""
  <2>1. new = run
    BY <1>1 DEF InitSearchTree
  <2>2. QED
    BY <1>0, <1>1, <2>1, ExtendsItself
<1>2. CASE run.phase = ""
  <2> DEFINE x == NewNode(NoNode, 0, NoScore)
             list == <<x>>
             tree == [run.tree EXCEPT !.nodes = list]
  <2>1. x \in Node /\ x.phase = "Pending" /\ x.task = NoTask
    BY RootFacts
  <2>2. new = [run EXCEPT !.phase = "Running", !.tree.nodes = list]
    BY <1>2 DEF InitSearchTree
  <2> HIDE DEF x
  <2>3. list \in Seq(Node) /\ DOMAIN list = {1} /\ list[1] = x
    BY <2>1, OneNode
  <2> HIDE DEF list
  <2>4. new = [run EXCEPT !.phase = "Running", !.tree = tree]
    BY <2>2
  <2>5. /\ tree \in SearchTree /\ tree.nodes = list /\ tree.solution = run.tree.solution
        /\ tree.iterations = run.tree.iterations
    BY <1>0, <2>3 DEF SearchTree
  <2> HIDE DEF tree
  <2>6. /\ new \in RunRecord /\ new.phase = "Running" /\ new.reason = run.reason /\ new.gen = run.gen
        /\ new.tree = tree
    BY <2>4, <2>5 DEF RunRecord
  <2> HIDE DEF new
  <2>7. run.tree.nodes = <<>> /\ DOMAIN run.tree.nodes = {}
    BY <1>2, EmptyList
  <2>8. Extends(run.tree, new.tree)
    BY <2>7 DEF Extends
  <2>9. InPhase(new.tree, "Solution") = {}
    BY <2>1, <2>3, <2>5, <2>6 DEF InPhase
  <2>10. QED
    BY <2>1, <2>3, <2>5, <2>6, <2>7, <2>8, <2>9 DEF new
<1>3. QED
  BY <1>1, <1>2

LEMMA GathersExtends ==
  ASSUME NEW old \in SearchTree, NEW new, Gathers(old, new) \/ Prunes(old, new), InPhase(old, "Solution") = {}
  PROVE  Extends(old, new) /\ new.solution = old.solution /\ InPhase(new, "Solution") = {}
<1>1. /\ \A n \in DOMAIN old.nodes : old.nodes[n].phase \in NodePhase /\ old.nodes[n].phase # "Solution"
      /\ \A n \in DOMAIN old.nodes : Rank(old.nodes[n].phase) \in 0 .. 4
  BY TreeFacts, NodeFacts, RankFacts DEF InPhase
<1>2. DOMAIN new.nodes = DOMAIN old.nodes /\ new.solution = old.solution
  BY DEF Gathers, Prunes
<1>3. ASSUME NEW n \in DOMAIN old.nodes
      PROVE  /\ new.nodes[n].parent = old.nodes[n].parent /\ new.nodes[n].phase # "Solution"
             /\ Rank(new.nodes[n].phase) >= Rank(old.nodes[n].phase)
  <2>1. /\ new.nodes[n].parent = old.nodes[n].parent
        /\ \/ new.nodes[n].phase = old.nodes[n].phase
           \/ old.nodes[n].phase = "Running" /\ new.nodes[n].phase = "Scored"
           \/ old.nodes[n].phase = "Running" /\ new.nodes[n].phase = "EvalFailed"
           \/ old.nodes[n].phase = "Scored" /\ new.nodes[n].phase = "Pruned"
    BY <1>3 DEF Gathers, Prunes
  <2>2. QED
    BY <1>1, <2>1, RankFacts
<1>4. QED
  BY <1>2, <1>3 DEF Extends, InPhase

LEMMA CollectKind ==
  ASSUME TypeOK, FrameInv, Collect
  PROVE  WorkStep /\ CollectStep /\ TypeOK'
<1>1. /\ pc = "collect" /\ SameElsewhere
      /\ UNCHANGED <<api, cache, cacheFresh, memFresh, wake>>
  BY ElsewhereFacts DEF Collect, object
<1>2. Working /\ UNCHANGED <<team, late>>
  BY <1>1 DEF Working, SameElsewhere
<1>3. /\ mem \in RunRecord /\ mem.tree \in SearchTree /\ mem.gen # NoTeam /\ mem.gen \in Generation
      /\ mem.reason = "" /\ mem.tree.solution = NoNode /\ InPhase(mem.tree, "Solution") = {}
      /\ mem.phase \in {"", "Running"} /\ (mem.phase = "" => mem.tree.nodes = <<>>)
  BY <1>2, WorkingFacts
<1> DEFINE run == InitSearchTree(mem)
<1>4. /\ run \in RunRecord /\ run.phase = "Running" /\ run.reason = "" /\ run.gen = mem.gen
      /\ run.tree.iterations = mem.tree.iterations /\ run.tree.solution = NoNode
      /\ InPhase(run.tree, "Solution") = {} /\ Extends(mem.tree, run.tree)
  BY <1>3, InitTreeFacts
<1>5. PICK tree \in {run.tree, CollectSearchExecutorResults(run.tree)} :
        /\ UNCHANGED faults \/ Fault
        /\ \E beam \in IF Search(run).beamWidth = 0 THEN {tree} ELSE BeamPruned(tree, Search(run).beamWidth) :
             FinalizeOrGoOn([run EXCEPT !.tree = beam], "submit")
  BY DEF Collect
<1>6. PICK beam \in IF Search(run).beamWidth = 0 THEN {tree} ELSE BeamPruned(tree, Search(run).beamWidth) :
             FinalizeOrGoOn([run EXCEPT !.tree = beam], "submit")
  BY <1>5
<1> HIDE DEF run
<1>7. run.tree \in SearchTree
  BY <1>4, RunFacts
<1>8. Gathers(run.tree, tree) /\ tree \in SearchTree
  BY <1>7, GathersNothing, CollectFacts DEF Gathers
<1>9. Search(run) = Config[mem.gen] /\ Search(run).beamWidth \in Nat
  BY <1>3, <1>4, SpecFacts DEF Search
<1>10. /\ Prunes(tree, beam)
       /\ Search(run).beamWidth > 0 =>
            \A n \in DOMAIN beam.nodes : Cardinality(Rivals(beam, beam.nodes[n].depth)) <= Search(run).beamWidth
  <2>1. CASE Search(run).beamWidth = 0
    BY <1>6, <1>8, <2>1, GathersNothing
  <2>2. CASE Search(run).beamWidth # 0
    BY <1>6, <1>8, <1>9, <2>2, BeamFacts
  <2>3. QED
    BY <2>1, <2>2
<1>11. beam \in SearchTree
  BY <1>10 DEF Prunes
<1> DEFINE r2 == [run EXCEPT !.tree = beam]
<1>12. FinalizeOrGoOn(r2, "submit")
  BY <1>6
<1>13. Retreed(run, r2, beam)
  BY <1>4, <1>11, RetreedIs
<1> HIDE DEF r2
<1>14. /\ r2 \in RunRecord /\ r2.phase = "Running" /\ r2.reason = "" /\ r2.gen = mem.gen
       /\ r2.tree = beam
  BY <1>4, <1>13 DEF Retreed
<1>15. /\ Extends(run.tree, tree) /\ tree.solution = NoNode /\ InPhase(tree, "Solution") = {}
  BY <1>4, <1>7, <1>8, GathersExtends
<1>16. /\ Extends(tree, beam) /\ beam.solution = NoNode /\ InPhase(beam, "Solution") = {}
  BY <1>8, <1>10, <1>15, GathersExtends
<1>17. /\ Unsolved(mem')
       /\ \/ pc' = "persist" /\ EndedBy(r2, mem', "Succeeded", "Converged")
          \/ pc' = "submit" /\ mem' = r2
  BY <1>3, <1>12, <1>14, <1>16, FinalizeFacts
<1>18. /\ mem' \in RunRecord /\ mem'.tree = beam /\ mem'.gen = mem.gen /\ mem'.phase # ""
       /\ mem'.reason \in {"", "Converged"}
       /\ \/ pc' = "submit" /\ mem'.phase = "Running"
          \/ pc' = "persist" /\ mem'.phase = "Succeeded"
  BY <1>14, <1>17 DEF EndedBy
<1>19. Extends(mem.tree, mem'.tree)
  <2>1. Extends(mem.tree, tree)
    BY <1>3, <1>4, <1>7, <1>8, <1>15, ExtendsOn
  <2>2. Extends(mem.tree, beam)
    BY <1>3, <1>8, <1>11, <1>16, <2>1, ExtendsOn
  <2>3. QED
    BY <1>18, <2>2
<1>20. mem'.tree.iterations = mem.tree.iterations
  BY <1>4, <1>8, <1>10, <1>18 DEF Gathers, Prunes
<1>21. faults' \in 0 .. MaxFaults /\ faults' \in {faults, faults + 1}
  <2>1. CASE UNCHANGED faults
    BY <2>1 DEF TypeOK
  <2>2. CASE Fault
    BY <2>2, FaultFacts
  <2>3. QED
    BY <1>5, <2>1, <2>2
<1>22. WorkStep
  BY <1>1, <1>2, <1>17, <1>18, <1>19, <1>20, <1>21 DEF WorkStep
<1>23. Beamed(mem')
  <2>1. Search(mem') = Search(run)
    BY <1>9, <1>18 DEF Search
  <2>2. QED
    BY <1>10, <1>18, <2>1 DEF Beamed
<1>24. CollectStep
  BY <1>1, <1>8, <1>10, <1>18, <1>20, <1>23 DEF CollectStep, run
<1>25. QED
  BY <1>1, <1>21, <1>22, <1>24, SameTypes

\* The steps that work on the tree, by what they do.
PassStep ==
  /\ WorkStep
  /\ \/ CollectStep \/ NodeStep \/ PlanStep \/ GoStep \/ CountStep \/ FailStep \/ TimeoutStep \/ GrowStep

KnownStep ==
  \/ QuietStep \/ DeleteStep \/ EndStep \/ LoadStep \/ OrphanStep \/ SnapStep \/ StoreStep \/ PassStep

LEMMA EveryKind ==
  ASSUME TypeOK, FrameInv, [Next]_vars
  PROVE  KnownStep /\ TypeOK'
<1>1. CASE Reconcile
  <2>1. CASE ReconcileGone \/ ReconcileDeleting \/ LoadRun \/ ReleaseTerminal
    BY <2>1, GoneKind, DeletingKind, LoadKind, ReleaseKind DEF KnownStep
  <2>2. CASE TeamNotFound \/ SnapshotTeam \/ Persist
    BY <2>2, OrphanKind, SnapKind, StoreKind DEF KnownStep
  <2>3. CASE SnapshotConflict \/ SubmitError \/ Conflict
    BY <2>3, GiveUpKind DEF KnownStep
  <2>4. CASE Reject \/ EnforceRunTimeout \/ Collect \/ SubmitNode
    BY <2>4, RejectKind, TimeoutKind, CollectKind, NodeKind DEF KnownStep, PassStep
  <2>5. CASE WaitOrPlan \/ PlannerSilent
    BY <2>5, GoKind DEF KnownStep, PassStep
  <2>6. CASE PlannerCallFails \/ PlannerInvalid
    BY <2>6, PlannerFailKind DEF KnownStep, PassStep
  <2>7. CASE EndIteration \/ SubmitPlanner \/ PlannerAnswers
    BY <2>7, CountKind, PlanKind, GrowKind DEF KnownStep, PassStep
  <2>8. QED
    BY <1>1, <2>1, <2>2, <2>3, <2>4, <2>5, <2>6, <2>7 DEF Reconcile
<1>2. CASE Environment \/ UNCHANGED vars
  <2>1. CASE OperatorRestart
    BY <2>1, GiveUpKind DEF KnownStep
  <2>2. CASE UserDelete
    BY <2>2, DeleteKind DEF KnownStep
  <2>3. CASE \/ CacheSync \/ UserEdit \/ DeadlinePasses \/ TeamEdited \/ TeamDeleted \/ UNCHANGED vars
             \/ \E t \in TaskIds, a \in Queue!Answer : Answer(t, a)
    BY <2>3, QuietKind DEF KnownStep
  <2>4. QED
    BY <1>2, <2>1, <2>2, <2>3 DEF Environment
<1>3. QED
  BY <1>1, <1>2 DEF Next

-----------------------------------------------------------------------------
(* The frame: the copies of the run and their trees.                       *)

LEMMA UnsolvedKept ==
  ASSUME NEW old, NEW new, Unsolved(old), Keeps(old, new)
  PROVE  Unsolved(new)
BY DEF Unsolved, Keeps

LEMMA InitFacts == Init => TypeOK /\ FrameInv
<1>1. SUFFICES ASSUME Init PROVE TypeOK /\ FrameInv
  OBVIOUS
<1>2. /\ api = NewRun /\ cache = NewRun /\ cacheFresh = TRUE /\ mem = NewRun /\ memFresh = TRUE
      /\ pc = "idle" /\ wake = TRUE /\ faults = 0 /\ late = FALSE /\ team = 1
      /\ ledger = [t \in TaskIds |-> "absent"] /\ issued = 0 /\ taskNode = [t \in TaskIds |-> NoNode]
  BY <1>1 DEF Init, ObjectInit, Queue!Init
<1>3. TypeOK
  <2>1. 0 \in 0 .. MaxFaults /\ 0 \in 0 .. MaxTasks /\ 1 \in Generation /\ NoNode \in Nat
    BY ConstFacts
  <2>2. ledger \in [TaskIds -> Queue!LedgerState] /\ taskNode \in [TaskIds -> Nat]
    BY <1>2, <2>1 DEF Queue!LedgerState
  <2>3. QED
    BY <1>2, <2>1, <2>2, NewRunFacts DEF TypeOK
<1>4. Unsolved(NewRun)
  BY NewRunFacts DEF Unsolved, InPhase
<1>5. NewRun.gen <= 1
  BY ConstFacts DEF NewRun
<1>6. FrameInv
  BY <1>2, <1>4, <1>5 DEF FrameInv, Working, Grounded
<1>7. QED
  BY <1>3, <1>6

\* What FrameInv says, part by part.
CopyPart ==
  /\ cacheFresh => cache = api
  /\ pc = "load" /\ memFresh => mem = api
  /\ Unsolved(api)
  /\ Grounded => Unsolved(mem)
  /\ team # NoTeam => api.gen <= team

WorkPart ==
  Working => /\ ~Terminal(api.phase) /\ ~Terminal(mem.phase)
             /\ mem.gen = api.gen /\ mem.gen # NoTeam
             /\ mem.tree.iterations = api.tree.iterations
             /\ Extends(api.tree, mem.tree)
             /\ pc # "collect" => mem.phase = "Running"

StorePart ==
  pc = "persist" /\ memFresh => /\ ~Terminal(api.phase) /\ mem.gen = api.gen
                                /\ Extends(api.tree, mem.tree)
                                /\ mem.phase # ""

LEMMA FrameParts == FrameInv <=> CopyPart /\ WorkPart /\ StorePart
BY DEF FrameInv, CopyPart, WorkPart, StorePart

LEMMA FrameStep ==
  ASSUME TypeOK, TypeOK', FrameInv, KnownStep
  PROVE  FrameInv'
<1>0. CopyPart /\ WorkPart /\ StorePart
  BY FrameParts
<1>a. /\ api \in RunRecord /\ mem \in RunRecord /\ api' \in RunRecord /\ mem' \in RunRecord
      /\ api.tree \in SearchTree /\ mem.tree \in SearchTree /\ api'.tree \in SearchTree /\ mem'.tree \in SearchTree
      /\ memFresh \in BOOLEAN /\ memFresh' \in BOOLEAN
      /\ api.gen \in Nat /\ team \in Nat
  <2>1. /\ api \in RunRecord /\ mem \in RunRecord /\ api' \in RunRecord /\ mem' \in RunRecord
        /\ memFresh \in BOOLEAN /\ memFresh' \in BOOLEAN
    BY DEF TypeOK
  <2>2. team \in Nat
    BY ConstFacts DEF TypeOK
  <2>3. /\ api.tree \in SearchTree /\ mem.tree \in SearchTree /\ api'.tree \in SearchTree /\ mem'.tree \in SearchTree
        /\ api.gen \in Nat
    BY <2>1, RunFacts
  <2>4. QED
    BY <2>1, <2>2, <2>3
<1>1. CASE QuietStep
  <2>1. /\ UNCHANGED <<api, mem, pc>> /\ (cacheFresh' => cache' = api') /\ (memFresh' => memFresh)
        /\ team' # NoTeam => team # NoTeam /\ team' \in {team, team + 1}
    BY <1>1, <1>a DEF QuietStep
  <2>2. CopyPart'
    <3>1. team' # NoTeam => api'.gen <= team'
      BY <1>0, <1>a, <2>1 DEF CopyPart
    <3>2. Grounded' => Grounded
      BY <2>1 DEF Grounded, Working
    <3>3. QED
      BY <1>0, <2>1, <3>1, <3>2 DEF CopyPart
  <2>3. WorkPart' /\ StorePart'
    BY <1>0, <2>1 DEF WorkPart, StorePart, Working
  <2>4. QED
    BY <2>2, <2>3 DEF FrameInv, CopyPart, WorkPart, StorePart
<1>2. CASE DeleteStep
  <2>1. UNCHANGED <<mem, pc, team>> /\ ~cacheFresh' /\ ~memFresh' /\ Keeps(api, api')
    BY <1>2 DEF DeleteStep, SameElsewhere
  <2>2. api'.tree = api.tree /\ api'.gen = api.gen /\ api'.phase = api.phase
    BY <2>1 DEF Keeps
  <2>3. CopyPart'
    <3>1. Unsolved(api')
      BY <1>0, <2>1, UnsolvedKept DEF CopyPart
    <3>2. Grounded' => Grounded
      BY <2>1 DEF Grounded, Working
    <3>3. QED
      BY <1>0, <2>1, <2>2, <3>1, <3>2 DEF CopyPart
  <2>4. WorkPart' /\ StorePart'
    BY <1>0, <2>1, <2>2 DEF WorkPart, StorePart, Working
  <2>5. QED
    BY <2>3, <2>4 DEF FrameInv, CopyPart, WorkPart, StorePart
<1>3. CASE EndStep
  <2>1. pc' = "idle" /\ (cacheFresh' => cache' = api') /\ Keeps(api, api') /\ UNCHANGED team
    BY <1>3 DEF EndStep, SameElsewhere
  <2>2. Unsolved(api') /\ api'.gen = api.gen
    BY <1>0, <2>1, UnsolvedKept DEF CopyPart, Keeps
  <2>3. QED
    BY <1>0, <2>1, <2>2 DEF FrameInv, CopyPart, Grounded, Working
<1>4. CASE LoadStep
  <2>1. /\ pc' = "load" /\ (cacheFresh' => cache' = api') /\ Keeps(api, api') /\ UNCHANGED team
        /\ memFresh' => mem' = api'
    BY <1>4 DEF LoadStep, SameElsewhere
  <2>2. Unsolved(api') /\ api'.gen = api.gen
    BY <1>0, <2>1, UnsolvedKept DEF CopyPart, Keeps
  <2>3. Grounded' => Unsolved(mem')
    BY <2>1, <2>2 DEF Grounded, Working
  <2>4. QED
    BY <1>0, <2>1, <2>2, <2>3 DEF FrameInv, CopyPart, Working
<1>5. CASE OrphanStep
  <2>1. /\ pc = "load" /\ pc' = "persist" /\ UNCHANGED <<api, cache, cacheFresh, memFresh, team>>
        /\ ~Terminal(mem.phase) /\ mem'.tree = mem.tree /\ mem'.gen = mem.gen /\ mem'.phase = "Failed"
        /\ mem'.reason = "Rejected"
    BY <1>5 DEF OrphanStep, EndedBy, SameElsewhere
  <2>2. Unsolved(mem')
    BY <2>1 DEF Unsolved, Terminal
  <2>3. memFresh => mem = api
    BY <1>0, <2>1 DEF CopyPart
  <2>4. StorePart'
    BY <1>a, <2>1, <2>3, ExtendsItself DEF StorePart
  <2>5. CopyPart' /\ WorkPart'
    BY <1>0, <2>1, <2>2 DEF CopyPart, WorkPart, Working
  <2>6. QED
    BY <2>4, <2>5 DEF FrameInv, CopyPart, WorkPart, StorePart
<1>6. CASE SnapStep
  <2>1. /\ pc = "load" /\ pc' = "collect" /\ memFresh /\ ~Terminal(mem.phase) /\ team \in Generation /\ UNCHANGED team
        /\ api'.gen = team /\ mem' = api' /\ api'.tree = api.tree /\ api'.phase = api.phase
        /\ api'.reason = api.reason /\ (cacheFresh' => cache' = api')
    BY <1>6 DEF SnapStep, SameElsewhere
  <2>2. team # NoTeam
    BY <2>1, ConstFacts
  <2>3. mem = api /\ ~Terminal(api.phase)
    BY <1>0, <2>1 DEF CopyPart
  <2>4. Unsolved(api')
    BY <1>0, <2>1, <2>2 DEF CopyPart, Unsolved
  <2>5. CopyPart'
    BY <1>a, <2>1, <2>4 DEF CopyPart
  <2>6. WorkPart' /\ StorePart'
    BY <1>a, <2>1, <2>2, <2>3, ExtendsItself DEF WorkPart, StorePart
  <2>7. QED
    BY <2>5, <2>6 DEF FrameInv, CopyPart, WorkPart, StorePart
<1>7. CASE StoreStep
  <2>1. pc = "persist" /\ memFresh /\ pc' = "idle" /\ api' = mem /\ UNCHANGED team /\ (cacheFresh' => cache' = api')
    BY <1>7 DEF StoreStep, SameElsewhere
  <2>2. Unsolved(api') /\ api'.gen = api.gen
    BY <1>0, <2>1 DEF CopyPart, StorePart, Grounded
  <2>3. QED
    BY <1>0, <2>1, <2>2 DEF FrameInv, CopyPart, Working, Grounded
<1>8. CASE WorkStep
  <2>1. /\ Working /\ UNCHANGED <<api, cache, cacheFresh, memFresh, team>>
        /\ pc' \in {"submit", "plan", "answer", "resubmit", "persist"}
        /\ mem'.gen = mem.gen /\ mem'.phase # "" /\ Extends(mem.tree, mem'.tree) /\ Unsolved(mem')
        /\ pc' # "persist" => mem'.phase = "Running" /\ mem'.tree.iterations = mem.tree.iterations
    BY <1>8 DEF WorkStep
  <2>2. Extends(api.tree, mem'.tree)
    BY <1>0, <1>a, <2>1, ExtendsOn DEF WorkPart
  <2>3. CopyPart'
    BY <1>0, <2>1 DEF CopyPart
  <2>4. WorkPart' /\ StorePart'
    BY <1>0, <2>1, <2>2 DEF WorkPart, StorePart, Working, Terminal
  <2>5. QED
    BY <2>3, <2>4 DEF FrameInv, CopyPart, WorkPart, StorePart
<1>9. QED
  BY <1>1, <1>2, <1>3, <1>4, <1>5, <1>6, <1>7, <1>8 DEF KnownStep, PassStep

\* A step of the stored tree.
Forward ==
  \A n \in DOMAIN api.tree.nodes :
    /\ n \in DOMAIN api'.tree.nodes
    /\ api'.tree.nodes[n].parent = api.tree.nodes[n].parent
    /\ Rank(api'.tree.nodes[n].phase) >= Rank(api.tree.nodes[n].phase)

LEMMA ForwardStep ==
  ASSUME TypeOK, FrameInv, KnownStep
  PROVE  Forward
<1>1. api \in RunRecord /\ api.tree \in SearchTree
  BY RunFacts DEF TypeOK
<1>2. Extends(api.tree, api'.tree)
  <2>1. CASE StoreStep
    BY <2>1 DEF StoreStep, FrameInv
  <2>2. CASE ~StoreStep
    <3>1. api'.tree = api.tree
      BY <2>2 DEF KnownStep, PassStep, QuietStep, DeleteStep, EndStep, LoadStep, OrphanStep, SnapStep, WorkStep, Keeps
    <3>2. QED
      BY <1>1, <3>1, ExtendsItself
  <2>3. QED
    BY <2>1, <2>2
<1>3. QED
  BY <1>2 DEF Forward, Extends

\* Whatever passes are lost, repeated or refused: a stored node never leaves the
\* tree or its place in it, and its phase only moves forward, so that no node is
\* worked on twice.  For any configuration, planner answers and faults.
THEOREM StoredNodesMoveForward == Spec => NodesMoveForward
<1>1. Init => TypeOK /\ FrameInv
  BY InitFacts
<1>2. TypeOK /\ FrameInv /\ [Next]_vars => TypeOK' /\ FrameInv'
  BY EveryKind, FrameStep
<1>3. TypeOK /\ FrameInv /\ [Next]_vars =>
        [\A n \in DOMAIN api.tree.nodes :
           /\ n \in DOMAIN api'.tree.nodes
           /\ api'.tree.nodes[n].parent = api.tree.nodes[n].parent
           /\ Rank(api'.tree.nodes[n].phase) >= Rank(api.tree.nodes[n].phase)]_vars
  BY EveryKind, ForwardStep DEF Forward
<1>4. QED
  BY <1>1, <1>2, <1>3, PTL DEF Spec, NodesMoveForward

-----------------------------------------------------------------------------
(* Tasks and the nodes they belong to.                                     *)

\* Tasks stay what they are.
LEMMA OwnedKept ==
  ASSUME NEW nodes, NEW i \in Nat, NEW j \in Nat, i <= j, NEW by, NEW by2,
         \A t \in 1 .. i : by2[t] = by[t], OwnedIn(nodes, i, by)
  PROVE  OwnedIn(nodes, j, by2)
BY DEF OwnedIn

LEMMA AnsweredKept ==
  ASSUME NEW nodes, NEW i \in Nat, NEW j \in Nat, i <= j, NEW by, NEW by2, NEW led, NEW led2,
         \A t \in 1 .. i : by2[t] = by[t], AnsweredIn(nodes, i, by, led),
         \A n \in DOMAIN nodes, t \in 1 .. i :
           nodes[n].phase = "Scored" /\ by[t] = n /\ led[t] = "ok" => led2[t] = "ok"
  PROVE  AnsweredIn(nodes, j, by2, led2)
<1>1. SUFFICES ASSUME NEW n \in DOMAIN nodes, nodes[n].phase = "Scored"
               PROVE  \E t \in 1 .. j : by2[t] = n /\ led2[t] = "ok"
  BY DEF AnsweredIn
<1>2. PICK t \in 1 .. i : by[t] = n /\ led[t] = "ok"
  BY <1>1 DEF AnsweredIn
<1>3. t \in 1 .. j /\ by2[t] = n /\ led2[t] = "ok"
  BY <1>1, <1>2
<1>4. QED
  BY <1>3

\* What can happen to the tasks in one step.
TaskMove ==
  \/ Settling
  \/ \E n \in Nat : Submits(n)
  \/ Cancelling(InFlight) /\ pc = "collect"

LEMMA TaskMoves ==
  ASSUME TypeOK, KnownStep
  PROVE  TaskMove
<1>1. SameElsewhere => Settling
  BY DEF SameElsewhere, Settling, TypeOK, OpenTasks
<1>2. CASE QuietStep
  BY <1>2 DEF QuietStep, TaskMove
<1>3. CASE DeleteStep \/ EndStep \/ LoadStep \/ OrphanStep \/ SnapStep \/ StoreStep
  BY <1>1, <1>3 DEF DeleteStep, EndStep, LoadStep, OrphanStep, SnapStep, StoreStep, TaskMove
<1>4. CASE CollectStep \/ GoStep \/ CountStep \/ FailStep \/ GrowStep
  BY <1>1, <1>4 DEF CollectStep, GoStep, CountStep, FailStep, GrowStep, TaskMove
<1>5. CASE NodeStep
  <2>1. PICK n \in InPhase(mem.tree, "Pending") : Submits(n)
    BY <1>5 DEF NodeStep
  <2>2. n \in Nat
    BY TreeFacts, RunFacts DEF TypeOK, InPhase
  <2>3. QED
    BY <2>1, <2>2 DEF TaskMove
<1>6. CASE PlanStep
  BY <1>6, ConstFacts DEF PlanStep, TaskMove
<1>7. CASE TimeoutStep
  <2>1. CASE Cancelling(InFlight)
    BY <1>7, <2>1 DEF TimeoutStep, TaskMove
  <2>2. CASE UNCHANGED ledger
    <3>1. UNCHANGED <<issued, taskNode>>
      BY <1>7 DEF TimeoutStep
    <3>2. Settling
      BY <2>2, <3>1 DEF Settling, TypeOK, OpenTasks
    <3>3. QED
      BY <3>2 DEF TaskMove
  <2>3. QED
    BY <1>7, <2>1, <2>2 DEF TimeoutStep
<1>8. QED
  BY <1>2, <1>3, <1>4, <1>5, <1>6, <1>7 DEF KnownStep, PassStep

LedgerPart == \A t \in TaskIds : (ledger[t] = "absent") <=> (t > issued)

LEMMA LedgerStep ==
  ASSUME TypeOK, LedgerPart, TaskMove
  PROVE  /\ LedgerPart' /\ issued \in Nat /\ issued' \in Nat /\ issued <= issued'
         /\ \A t \in 1 .. issued : taskNode'[t] = taskNode[t]
<1>1. issued \in Nat /\ issued \in 0 .. MaxTasks /\ \A t \in 1 .. issued : t \in TaskIds
  BY ConstFacts DEF TypeOK, TaskIds
<1>2. TaskIds \subseteq Nat
  BY DEF TaskIds
<1>3. CASE Settling \/ Cancelling(InFlight)
  <2>1. issued' = issued /\ taskNode' = taskNode
    BY <1>3 DEF Settling, Cancelling
  <2>2. \A t \in TaskIds : (ledger'[t] = "absent") <=> (ledger[t] = "absent")
    BY <1>3 DEF Settling, Cancelling
  <2>3. QED
    BY <1>1, <2>1, <2>2 DEF LedgerPart
<1>4. CASE \E n \in Nat : Submits(n)
  <2>1. PICK n \in Nat : Submits(n)
    BY <1>4
  <2>2. issued' = issued + 1 /\ issued' \in Nat
    BY <1>1, <2>1 DEF Submits
  <2>3. \A t \in 1 .. issued : taskNode'[t] = taskNode[t]
    BY <1>1, <2>1, <2>2 DEF Submits
  <2>4. LedgerPart'
    <3>1. SUFFICES ASSUME NEW t \in TaskIds PROVE (ledger'[t] = "absent") <=> (t > issued')
      BY DEF LedgerPart
    <3>2. CASE t = issued'
      BY <2>1, <2>2, <3>2 DEF Submits
    <3>3. CASE t # issued'
      BY <1>1, <1>2, <2>1, <2>2, <3>3 DEF Submits, LedgerPart
    <3>4. QED
      BY <3>2, <3>3
  <2>5. QED
    BY <1>1, <2>2, <2>3, <2>4
<1>5. QED
  BY <1>3, <1>4 DEF TaskMove

\* A tree that keeps its place when the tasks change.
NowOwned(nodes) == OwnedIn(nodes, issued', taskNode') /\ AnsweredIn(nodes, issued', taskNode', ledger')

\* What was known of the stored tree and of the copy is still true of them.
LEMMA OwnedStays ==
  ASSUME TypeOK, FrameInv, TreeInv, TaskMove
  PROVE  NowOwned(api.tree.nodes) /\ (Grounded => NowOwned(mem.tree.nodes))
<1>1. /\ LedgerPart /\ OwnedIn(api.tree.nodes, issued, taskNode) /\ AnsweredIn(api.tree.nodes, issued, taskNode, ledger)
      /\ Grounded => /\ OwnedIn(mem.tree.nodes, issued, taskNode)
                     /\ AnsweredIn(mem.tree.nodes, issued, taskNode, ledger)
  BY DEF TreeInv, Owned, LedgerPart
<1>2. /\ issued \in Nat /\ issued' \in Nat /\ issued <= issued'
      /\ \A t \in 1 .. issued : taskNode'[t] = taskNode[t]
  BY <1>1, LedgerStep
<1>3. issued \in 0 .. MaxTasks /\ (\A t \in 1 .. issued : t \in TaskIds) /\ LedgerPart
  BY <1>1, ConstFacts DEF TypeOK, TaskIds
<1>4. CASE Settling \/ \E n \in Nat : Submits(n)
  <2>1. \A t \in 1 .. issued : ledger[t] = "ok" => ledger'[t] = "ok"
    <3>1. CASE Settling
      BY <1>3, <3>1 DEF Settling
    <3>2. CASE \E n \in Nat : Submits(n)
      <4>1. PICK n \in Nat : Submits(n)
        BY <3>2
      <4>2. ledger[issued'] = "absent" /\ \A t \in TaskIds : t # issued' => ledger'[t] = ledger[t]
        BY <4>1 DEF Submits
      <4>3. QED
        BY <1>3, <4>2
    <3>3. QED
      BY <1>4, <3>1, <3>2
  <2>2. \A nodes : OwnedIn(nodes, issued, taskNode) => OwnedIn(nodes, issued', taskNode')
    BY <1>2, OwnedKept
  <2>3. \A nodes : AnsweredIn(nodes, issued, taskNode, ledger) => AnsweredIn(nodes, issued', taskNode', ledger')
    BY <1>2, <2>1, AnsweredKept
  <2>4. QED
    BY <1>1, <2>2, <2>3 DEF NowOwned
<1>5. CASE Cancelling(InFlight) /\ pc = "collect"
  <2>1. Working /\ Grounded
    BY <1>5 DEF Working, Grounded
  <2>2. mem.tree \in SearchTree /\ api.tree \in SearchTree
    BY RunFacts DEF TypeOK
  <2>3. \A t \in 1 .. issued : t \notin InFlight => ledger'[t] = ledger[t]
    BY <1>3, <1>5 DEF Cancelling
  <2>4. ASSUME NEW t \in InFlight
        PROVE  /\ taskNode[t] \in DOMAIN mem.tree.nodes
               /\ mem.tree.nodes[taskNode[t]].phase = "Running"
    <3>1. PICK n \in DOMAIN mem.tree.nodes : t = mem.tree.nodes[n].task /\ t # NoTask
      BY <2>4 DEF InFlight, InPhase
    <3>2. taskNode[t] = n /\ mem.tree.nodes[n].phase = "Running"
      BY <1>1, <2>1, <3>1 DEF OwnedIn
    <3>3. QED
      BY <3>2
  <2>5. \A n \in DOMAIN mem.tree.nodes, t \in 1 .. issued :
           mem.tree.nodes[n].phase = "Scored" /\ taskNode[t] = n /\ ledger[t] = "ok" => ledger'[t] = "ok"
    BY <2>3, <2>4
  <2>6. \A n \in DOMAIN api.tree.nodes, t \in 1 .. issued :
           api.tree.nodes[n].phase = "Scored" /\ taskNode[t] = n /\ ledger[t] = "ok" => ledger'[t] = "ok"
    <3>1. SUFFICES ASSUME NEW n \in DOMAIN api.tree.nodes, api.tree.nodes[n].phase = "Scored",
                          mem.tree.nodes[n].phase = "Running"
                   PROVE  FALSE
      BY <2>3, <2>4
    <3>2. Rank(mem.tree.nodes[n].phase) >= Rank(api.tree.nodes[n].phase)
      BY <2>1 DEF FrameInv, Extends
    <3>3. QED
      BY <3>1, <3>2, RankFacts
  <2>7. OwnedIn(api.tree.nodes, issued', taskNode') /\ OwnedIn(mem.tree.nodes, issued', taskNode')
    BY <1>1, <1>2, <2>1, OwnedKept
  <2>8. AnsweredIn(api.tree.nodes, issued', taskNode', ledger')
    BY <1>1, <1>2, <2>6, AnsweredKept
  <2>9. AnsweredIn(mem.tree.nodes, issued', taskNode', ledger')
    BY <1>1, <1>2, <2>1, <2>5, AnsweredKept
  <2>10. QED
    BY <2>7, <2>8, <2>9 DEF NowOwned
<1>6. QED
  BY <1>4, <1>5 DEF TaskMove

\* Collecting: an answered node is known by the task it waited for.
LEMMA GathersOwned ==
  ASSUME NEW old \in SearchTree, NEW new, Gathers(old, new), NEW i \in Nat, NEW by,
         OwnedIn(old.nodes, i, by), AnsweredIn(old.nodes, i, by, ledger)
  PROVE  OwnedIn(new.nodes, i, by) /\ AnsweredIn(new.nodes, i, by, ledger)
<1>1. DOMAIN new.nodes = DOMAIN old.nodes
  BY DEF Gathers
<1>2. ASSUME NEW n \in DOMAIN old.nodes
      PROVE  \/ new.nodes[n].phase = old.nodes[n].phase /\ new.nodes[n].task = old.nodes[n].task
             \/ /\ old.nodes[n].phase = "Running" /\ new.nodes[n].phase = "Scored"
                /\ ledger[old.nodes[n].task] = "ok" /\ new.nodes[n].task = NoTask
             \/ old.nodes[n].phase = "Running" /\ new.nodes[n].phase = "EvalFailed" /\ new.nodes[n].task = NoTask
  BY <1>2 DEF Gathers
<1>3. OwnedIn(new.nodes, i, by)
  BY <1>1, <1>2 DEF OwnedIn
<1>4. ASSUME NEW n \in DOMAIN old.nodes, new.nodes[n].phase = "Scored"
      PROVE  \E t \in 1 .. i : by[t] = n /\ ledger[t] = "ok"
  <2>1. CASE old.nodes[n].phase = "Scored"
    BY <1>4, <2>1 DEF AnsweredIn
  <2>2. CASE old.nodes[n].phase = "Running" /\ ledger[old.nodes[n].task] = "ok"
    <3>1. old.nodes[n].task \in 1 .. i /\ by[old.nodes[n].task] = n
      BY <2>2 DEF OwnedIn
    <3>2. QED
      BY <2>2, <3>1
  <2>3. QED
    BY <1>2, <1>4, <2>1, <2>2
<1>5. QED
  BY <1>1, <1>3, <1>4 DEF AnsweredIn

LEMMA PrunesOwned ==
  ASSUME NEW old \in SearchTree, NEW new, Prunes(old, new), NEW i \in Nat, NEW by, NEW led,
         OwnedIn(old.nodes, i, by), AnsweredIn(old.nodes, i, by, led)
  PROVE  OwnedIn(new.nodes, i, by) /\ AnsweredIn(new.nodes, i, by, led)
<1>1. DOMAIN new.nodes = DOMAIN old.nodes
  BY DEF Prunes
<1>2. ASSUME NEW n \in DOMAIN old.nodes
      PROVE  /\ new.nodes[n].task = old.nodes[n].task
             /\ new.nodes[n].phase = old.nodes[n].phase \/ (old.nodes[n].phase = "Scored" /\ new.nodes[n].phase = "Pruned")
  BY <1>2 DEF Prunes
<1>3. QED
  BY <1>1, <1>2 DEF OwnedIn, AnsweredIn

LEMMA InitTreeOwned ==
  ASSUME TypeOK, FrameInv, Working, Owned(mem), NEW new, new = InitSearchTree(mem)
  PROVE  /\ OwnedIn(new.tree.nodes, issued, taskNode) /\ AnsweredIn(new.tree.nodes, issued, taskNode, ledger)
         /\ new.tree \in SearchTree /\ RunningNodes(new) = RunningNodes(mem)
         /\ \A n \in RunningNodes(mem) : new.tree.nodes[n] = mem.tree.nodes[n]
<1>1. /\ mem \in RunRecord
      /\ mem.tree.solution = NoNode /\ InPhase(mem.tree, "Solution") = {}
      /\ mem.phase \in {"", "Running"} /\ (mem.phase = "" => mem.tree.nodes = <<>>)
  BY WorkingFacts
<1>2. /\ new \in RunRecord
      /\ \/ new.tree = mem.tree
         \/ /\ mem.tree.nodes = <<>> /\ DOMAIN new.tree.nodes = {1}
            /\ new.tree.nodes[1].phase = "Pending" /\ new.tree.nodes[1].task = NoTask
  BY <1>1, InitTreeFacts
<1>3. new.tree \in SearchTree
  BY <1>2, RunFacts
<1>4. CASE new.tree = mem.tree
  BY <1>3, <1>4 DEF RunningNodes, Owned
<1>5. CASE /\ mem.tree.nodes = <<>> /\ DOMAIN new.tree.nodes = {1}
           /\ new.tree.nodes[1].phase = "Pending" /\ new.tree.nodes[1].task = NoTask
  <2>1. OwnedIn(new.tree.nodes, issued, taskNode) /\ AnsweredIn(new.tree.nodes, issued, taskNode, ledger)
    BY <1>5 DEF OwnedIn, AnsweredIn
  <2>2. RunningNodes(new) = {} /\ RunningNodes(mem) = {}
    BY <1>5, EmptyList DEF RunningNodes, InPhase
  <2>3. QED
    BY <1>3, <2>1, <2>2
<1>6. QED
  BY <1>2, <1>4, <1>5

\* The planner's actions: no node is at work.
LEMMA GrownOwned ==
  ASSUME NEW old \in SearchTree, NEW new, Grown(old, new), InPhase(old, "Running") = {},
         NEW i \in Nat, NEW by, NEW led, OwnedIn(old.nodes, i, by), AnsweredIn(old.nodes, i, by, led)
  PROVE  OwnedIn(new.nodes, i, by) /\ AnsweredIn(new.nodes, i, by, led) /\ InPhase(new, "Running") = {}
<1>1. ASSUME NEW n \in DOMAIN old.nodes
      PROVE  /\ new.nodes[n].task = old.nodes[n].task /\ old.nodes[n].phase # "Running" /\ old.nodes[n].task = NoTask
             /\ new.nodes[n].phase = old.nodes[n].phase \/ new.nodes[n].phase \in {"Pruned", "Solution"}
  BY <1>1 DEF Grown, InPhase, OwnedIn
<1>2. \A n \in DOMAIN new.nodes \ DOMAIN old.nodes : new.nodes[n].phase = "Pending" /\ new.nodes[n].task = NoTask
  BY DEF Grown
<1>3. \A n \in DOMAIN new.nodes : new.nodes[n].task = NoTask /\ new.nodes[n].phase # "Running"
  BY <1>1, <1>2
<1>4. \A n \in DOMAIN new.nodes : new.nodes[n].phase = "Scored" => n \in DOMAIN old.nodes /\ old.nodes[n].phase = "Scored"
  BY <1>1, <1>2
<1>5. QED
  BY <1>3, <1>4 DEF OwnedIn, AnsweredIn, InPhase

\* A task for a node.
LEMMA NodeOwned ==
  ASSUME TypeOK, FrameInv, TreeInv, NodeStep
  PROVE  NowOwned(mem'.tree.nodes)
<1>1. Working /\ Grounded
  BY DEF NodeStep, Working, Grounded
<1>2. PICK n \in InPhase(mem.tree, "Pending") :
        /\ Submits(n)
        /\ mem'.tree.nodes[n].phase = "Running" /\ mem'.tree.nodes[n].task = issued'
        /\ \A m \in DOMAIN mem.tree.nodes : m # n => mem'.tree.nodes[m] = mem.tree.nodes[m]
  BY DEF NodeStep
<1>3. DOMAIN mem'.tree.nodes = DOMAIN mem.tree.nodes
  BY DEF NodeStep
<1>4. n \in Nat /\ n \in DOMAIN mem.tree.nodes
  BY TreeFacts, RunFacts DEF TypeOK, InPhase
<1>5. NowOwned(mem.tree.nodes)
  BY <1>1, <1>2, <1>4, OwnedStays DEF TaskMove
<1>6. issued' \in 1 .. issued' /\ issued' # NoTask /\ taskNode'[issued'] = n
  BY <1>2, ConstFacts DEF Submits, TaskIds
<1>7. OwnedIn(mem'.tree.nodes, issued', taskNode')
  BY <1>2, <1>3, <1>5, <1>6 DEF NowOwned, OwnedIn
<1>8. AnsweredIn(mem'.tree.nodes, issued', taskNode', ledger')
  BY <1>2, <1>3, <1>5 DEF NowOwned, AnsweredIn
<1>9. QED
  BY <1>7, <1>8 DEF NowOwned

\* A node that goes to work is no rival of any other.
LEMMA NodeBeamed ==
  ASSUME TypeOK, FrameInv, WorkStep, NodeStep, Beamed(mem)
  PROVE  Beamed(mem')
<1>1. Working
  BY DEF NodeStep, Working
<1>2. PICK n \in InPhase(mem.tree, "Pending") :
        /\ mem'.tree.nodes[n].phase = "Running" /\ mem'.tree.nodes[n].depth = mem.tree.nodes[n].depth
        /\ \A m \in DOMAIN mem.tree.nodes : m # n => mem'.tree.nodes[m] = mem.tree.nodes[m]
  BY DEF NodeStep
<1>3. DOMAIN mem'.tree.nodes = DOMAIN mem.tree.nodes
  BY DEF NodeStep
<1>4. n \in DOMAIN mem.tree.nodes /\ mem.tree.nodes[n].phase = "Pending"
  BY DEF InPhase
<1>5. \A d : Rivals(mem'.tree, d) = Rivals(mem.tree, d)
  BY <1>2, <1>3, <1>4 DEF Rivals, InPhase
<1>6. Search(mem') = Search(mem)
  BY DEF WorkStep, Search
<1>7. \A m \in DOMAIN mem.tree.nodes : mem'.tree.nodes[m].depth = mem.tree.nodes[m].depth
  BY <1>2
<1>8. QED
  BY <1>3, <1>5, <1>6, <1>7 DEF Beamed

\* The invariant, part by part.
OwnPart == Owned(api) /\ (Grounded => Owned(mem))
BeamPart == pc \in {"submit", "plan"} => Beamed(mem)
SettledPart == pc \in {"plan", "answer"} => InPhase(mem.tree, "Pending") \cup InPhase(mem.tree, "Running") = {}

LEMMA TreeParts == TreeInv <=> LedgerPart /\ OwnPart /\ BeamPart /\ SettledPart
BY DEF TreeInv, LedgerPart, OwnPart, BeamPart, SettledPart

LEMMA InitTree == Init => TreeInv
<1>1. SUFFICES ASSUME Init PROVE TreeInv
  OBVIOUS
<1>2. api = NewRun /\ pc = "idle" /\ ledger = [t \in TaskIds |-> "absent"] /\ issued = 0
  BY <1>1 DEF Init, ObjectInit, Queue!Init
<1>3. DOMAIN api.tree.nodes = {}
  BY <1>2, NewRunFacts
<1>4. Owned(api)
  BY <1>3 DEF Owned, OwnedIn, AnsweredIn
<1>5. LedgerPart
  BY <1>2 DEF LedgerPart, TaskIds
<1>6. QED
  BY <1>2, <1>4, <1>5, TreeParts DEF OwnPart, BeamPart, SettledPart, Grounded, Working

\* The copy of a pass after a step that works on it.
LEMMA PassOwned ==
  ASSUME TypeOK, TypeOK', FrameInv, TreeInv, PassStep
  PROVE  NowOwned(mem'.tree.nodes)
<1>1. Working /\ Grounded /\ WorkStep
  BY DEF PassStep, WorkStep, Grounded
<1>2. KnownStep
  BY DEF KnownStep
<1>3. NowOwned(mem.tree.nodes)
  BY <1>1, <1>2, TaskMoves, OwnedStays
<1>4. /\ mem \in RunRecord /\ mem.tree \in SearchTree
      /\ mem.tree.solution = NoNode /\ InPhase(mem.tree, "Solution") = {}
      /\ mem.phase \in {"", "Running"} /\ (mem.phase = "" => mem.tree.nodes = <<>>)
      /\ issued \in Nat
  BY <1>1, WorkingFacts
<1>5. OwnedIn(mem.tree.nodes, issued, taskNode) /\ AnsweredIn(mem.tree.nodes, issued, taskNode, ledger)
  BY <1>1 DEF TreeInv, Owned
<1>6. CASE CollectStep
  <2>1. UNCHANGED <<issued, taskNode, ledger>>
    BY <1>6 DEF CollectStep, SameElsewhere
  <2> DEFINE run == InitSearchTree(mem)
             old == run.tree
  <2>2. old \in SearchTree /\ OwnedIn(old.nodes, issued, taskNode) /\ AnsweredIn(old.nodes, issued, taskNode, ledger)
    BY <1>1, <1>5, InitTreeOwned DEF Owned
  <2>3. PICK tree \in SearchTree : Gathers(old, tree) /\ Prunes(tree, mem'.tree)
    BY <1>6 DEF CollectStep
  <2> HIDE DEF old, run
  <2>4. OwnedIn(tree.nodes, issued, taskNode) /\ AnsweredIn(tree.nodes, issued, taskNode, ledger)
    BY <1>4, <2>2, <2>3, GathersOwned
  <2>5. OwnedIn(mem'.tree.nodes, issued, taskNode) /\ AnsweredIn(mem'.tree.nodes, issued, taskNode, ledger)
    BY <1>4, <2>3, <2>4, PrunesOwned
  <2>6. QED
    BY <2>1, <2>5 DEF NowOwned
<1>7. CASE NodeStep
  BY <1>7, NodeOwned
<1>8. CASE PlanStep \/ GoStep \/ CountStep \/ FailStep \/ TimeoutStep
  <2>1. mem'.tree.nodes = mem.tree.nodes
    BY <1>8 DEF PlanStep, GoStep, CountStep, FailStep, TimeoutStep, EndedBy
  <2>2. QED
    BY <1>3, <2>1
<1>9. CASE GrowStep
  <2>1. UNCHANGED <<issued, taskNode, ledger>> /\ pc = "answer" /\ Grown(mem.tree, mem'.tree)
    BY <1>9 DEF GrowStep, SameElsewhere
  <2>2. InPhase(mem.tree, "Running") = {}
    BY <2>1 DEF TreeInv
  <2>3. OwnedIn(mem'.tree.nodes, issued, taskNode) /\ AnsweredIn(mem'.tree.nodes, issued, taskNode, ledger)
    BY <1>4, <1>5, <2>1, <2>2, GrownOwned
  <2>4. QED
    BY <2>1, <2>3 DEF NowOwned
<1>10. QED
  BY <1>6, <1>7, <1>8, <1>9 DEF PassStep

LEMMA TreeStep ==
  ASSUME TypeOK, TypeOK', FrameInv, TreeInv, KnownStep
  PROVE  TreeInv'
<1>1. LedgerPart /\ OwnPart /\ BeamPart /\ SettledPart
  BY TreeParts
<1>2. TaskMove
  BY TaskMoves
<1>3. NowOwned(api.tree.nodes) /\ (Grounded => NowOwned(mem.tree.nodes))
  BY <1>2, OwnedStays
<1>4. LedgerPart'
  BY <1>1, <1>2, LedgerStep
<1>5. /\ NowOwned(api'.tree.nodes) => Owned(api)'
      /\ NowOwned(mem'.tree.nodes) => Owned(mem)'
  BY DEF NowOwned, Owned
<1>a. memFresh \in BOOLEAN /\ memFresh' \in BOOLEAN
  BY DEF TypeOK
<1>6. CASE QuietStep \/ DeleteStep
  <2>1. /\ UNCHANGED <<mem, pc>> /\ api'.tree = api.tree /\ (memFresh' => memFresh)
    BY <1>6, <1>a DEF QuietStep, DeleteStep, Keeps
  <2>2. Grounded' => Grounded
    BY <2>1 DEF Grounded, Working
  <2>3. OwnPart'
    BY <1>3, <1>5, <2>1, <2>2 DEF OwnPart
  <2>4. BeamPart' /\ SettledPart'
    BY <1>1, <2>1 DEF BeamPart, SettledPart, Beamed, Search, Rivals, InPhase
  <2>5. QED
    BY <1>4, <2>3, <2>4 DEF TreeInv, LedgerPart, OwnPart, BeamPart, SettledPart
<1>7. CASE EndStep \/ StoreStep
  <2>1. pc' = "idle" /\ NowOwned(api'.tree.nodes)
    BY <1>3, <1>7 DEF EndStep, StoreStep, Keeps, Grounded
  <2>2. OwnPart' /\ BeamPart' /\ SettledPart'
    BY <1>5, <2>1 DEF OwnPart, BeamPart, SettledPart, Grounded, Working
  <2>3. QED
    BY <1>4, <2>2 DEF TreeInv, LedgerPart, OwnPart, BeamPart, SettledPart
<1>8. CASE LoadStep \/ SnapStep \/ OrphanStep
  <2>1. pc' \in {"load", "collect", "persist"} /\ api'.tree = api.tree
    BY <1>8 DEF LoadStep, SnapStep, OrphanStep, Keeps
  <2>2. Grounded' => NowOwned(mem'.tree.nodes)
    <3>1. CASE LoadStep \/ SnapStep
      BY <1>3, <2>1, <3>1 DEF LoadStep, SnapStep, Grounded, Working
    <3>2. CASE OrphanStep
      BY <1>3, <3>2 DEF OrphanStep, EndedBy, Grounded, Working
    <3>3. QED
      BY <1>8, <3>1, <3>2
  <2>3. OwnPart' /\ BeamPart' /\ SettledPart'
    BY <1>3, <1>5, <2>1, <2>2 DEF OwnPart, BeamPart, SettledPart
  <2>4. QED
    BY <1>4, <2>3 DEF TreeInv, LedgerPart, OwnPart, BeamPart, SettledPart
<1>9. CASE PassStep
  <2>1. Working /\ WorkStep /\ api' = api
    BY <1>9 DEF PassStep, WorkStep
  <2>2. OwnPart'
    BY <1>3, <1>5, <1>9, <2>1, PassOwned DEF OwnPart
  <2>3. BeamPart' /\ SettledPart'
    <3>1. CASE CollectStep
      BY <3>1 DEF CollectStep, BeamPart, SettledPart, Beamed, Search, Rivals, InPhase
    <3>2. CASE NodeStep
      <4>1. pc' = pc /\ pc \in {"submit", "resubmit"}
        BY <3>2 DEF NodeStep
      <4>2. pc = "submit" => Beamed(mem')
        BY <1>1, <2>1, <3>2, NodeBeamed DEF BeamPart
      <4>3. QED
        BY <4>1, <4>2 DEF BeamPart, SettledPart, Beamed, Search, Rivals, InPhase
    <3>3. CASE PlanStep
      BY <1>1, <3>3 DEF PlanStep, BeamPart, SettledPart, InPhase
    <3>4. CASE GoStep
      <4>1. mem' = mem /\ (pc' \in {"submit", "plan"} => pc = "submit")
        BY <3>4 DEF GoStep
      <4>2. BeamPart'
        BY <1>1, <4>1 DEF BeamPart, Beamed, Search, Rivals, InPhase
      <4>3. CASE pc' = "plan"
        <5>1. ~MaySubmit(mem) /\ InPhase(mem.tree, "Running") = {}
          BY <3>4, <4>3 DEF GoStep
        <5>2. Search(mem).maxParallel \in Nat \ {0}
          BY <2>1, WorkingFacts, SpecFacts DEF Search
        <5>3. Cardinality(InPhase(mem.tree, "Running")) < Search(mem).maxParallel
          BY <5>1, <5>2, FS_EmptySet
        <5>4. InPhase(mem.tree, "Pending") = {}
          BY <5>1, <5>3 DEF MaySubmit
        <5>5. SettledPart'
          BY <4>1, <5>1, <5>4 DEF SettledPart, InPhase
        <5>6. QED
          BY <4>2, <5>5
      <4>4. CASE pc' # "plan"
        BY <3>4, <4>2, <4>4 DEF GoStep, SettledPart
      <4>5. QED
        BY <4>3, <4>4
    <3>5. CASE CountStep \/ FailStep \/ TimeoutStep \/ GrowStep
      BY <3>5 DEF CountStep, FailStep, TimeoutStep, GrowStep, BeamPart, SettledPart
    <3>6. QED
      BY <1>9, <3>1, <3>2, <3>3, <3>4, <3>5 DEF PassStep
  <2>4. QED
    BY <1>4, <2>2, <2>3 DEF TreeInv, LedgerPart, OwnPart, BeamPart, SettledPart
<1>10. QED
  BY <1>6, <1>7, <1>8, <1>9 DEF KnownStep

LEMMA TreeIsConsistentNow ==
  ASSUME TypeOK, TreeInv
  PROVE  TreeIsConsistent
<1>1. TaskBelongsToNode
  BY DEF TreeInv, Owned, OwnedIn, TaskBelongsToNode
<1>2. PlannerSeesResults
  <2>1. SUFFICES ASSUME pc = "plan"
                 PROVE  /\ InPhase(mem.tree, "Pending") \cup InPhase(mem.tree, "Running") = {}
                        /\ \A n \in InPhase(mem.tree, "Scored") :
                             \E t \in 1 .. issued : taskNode[t] = n /\ ledger[t] = "ok"
                        /\ Search(mem).beamWidth > 0 =>
                             \A n \in DOMAIN mem.tree.nodes :
                               Cardinality(Rivals(mem.tree, mem.tree.nodes[n].depth)) <= Search(mem).beamWidth
    BY DEF PlannerSeesResults
  <2>2. Grounded
    BY <2>1 DEF Grounded, Working
  <2>3. \A n \in InPhase(mem.tree, "Scored") : \E t \in 1 .. issued : taskNode[t] = n /\ ledger[t] = "ok"
    BY <2>2 DEF TreeInv, Owned, AnsweredIn, InPhase
  <2>4. QED
    BY <2>1, <2>3 DEF TreeInv, Beamed
<1>3. QED
  BY <1>1, <1>2 DEF TreeIsConsistent

\* Results reach the node they were computed for, and the planner is asked only
\* when every node is settled, every Scored one was answered and the beam holds:
\* whatever passes are lost or refused, and however the team is edited meanwhile.
THEOREM SearchTreeIsConsistent == Spec => []TreeIsConsistent
<1>1. Init => TypeOK /\ FrameInv /\ TreeInv
  BY InitFacts, InitTree
<1>2. TypeOK /\ FrameInv /\ TreeInv /\ [Next]_vars => TypeOK' /\ FrameInv' /\ TreeInv'
  BY EveryKind, FrameStep, TreeStep
<1>3. TypeOK /\ FrameInv /\ TreeInv => TreeIsConsistent
  BY TreeIsConsistentNow
<1>4. QED
  BY <1>1, <1>2, <1>3, PTL DEF Spec

-----------------------------------------------------------------------------
(* The planner's tasks.                                                    *)

LEMMA SomeTasks ==
  ASSUME NEW i \in Nat, NEW S, S \subseteq 1 .. i
  PROVE  IsFiniteSet(S) /\ Cardinality(S) \in Nat
<1>1. IsFiniteSet(1 .. i)
  <2>1. 1 \in Int /\ i \in Int
    OBVIOUS
  <2>2. QED
    BY <2>1, FS_Interval
<1>2. IsFiniteSet(S)
  BY <1>1, FS_Subset
<1>3. QED
  BY <1>2, FS_CardinalityType

\* The numbers the bounds are made of.
LEMMA Numbers ==
  ASSUME TypeOK
  PROVE  /\ faults \in Nat /\ issued \in Nat /\ Deleting \in 0 .. 1 /\ Paid \in 0 .. 1 /\ Asked \in 0 .. 1
         /\ Ended(api) \in 0 .. 1 /\ Ended(mem) \in 0 .. 1
         /\ api.tree.iterations \in Nat /\ mem.tree.iterations \in Nat
         /\ Cardinality(PlannerTasks) \in Nat /\ IsFiniteSet(PlannerTasks)
<1>1. faults \in Nat /\ issued \in Nat
  BY ConstFacts DEF TypeOK
<1>2. api.tree.iterations \in Nat /\ mem.tree.iterations \in Nat
  BY RunFacts, TreeFacts DEF TypeOK
<1>3. Cardinality(PlannerTasks) \in Nat /\ IsFiniteSet(PlannerTasks)
  BY <1>1, SomeTasks DEF PlannerTasks
<1>4. Deleting \in 0 .. 1 /\ Paid \in 0 .. 1 /\ Asked \in 0 .. 1 /\ Ended(api) \in 0 .. 1 /\ Ended(mem) \in 0 .. 1
  BY DEF Deleting, Paid, Asked, Ended
<1>5. QED
  BY <1>1, <1>2, <1>3, <1>4

\* Only SubmitPlanner adds a task for the planner.
LEMMA PlannerTasksAre ==
  ASSUME TypeOK, TypeOK', KnownStep
  PROVE  /\ ~PlanStep => PlannerTasks' = PlannerTasks
         /\ PlanStep => Cardinality(PlannerTasks') = Cardinality(PlannerTasks) + 1
<1>1. issued \in Nat /\ issued \in 0 .. MaxTasks /\ \A t \in 1 .. issued : t \in TaskIds
  BY ConstFacts DEF TypeOK, TaskIds
<1>2. ASSUME NEW n \in Nat, Submits(n)
      PROVE  PlannerTasks' = IF n = NoNode THEN PlannerTasks \cup {issued + 1} ELSE PlannerTasks
  <2>1. issued' = issued + 1 /\ taskNode'[issued + 1] = n
    BY <1>2 DEF Submits
  <2>2. \A t \in 1 .. issued : taskNode'[t] = taskNode[t]
    BY <1>1, <1>2, <2>1 DEF Submits
  <2>3. 1 .. issued' = (1 .. issued) \cup {issued + 1}
    BY <1>1, <2>1
  <2>4. QED
    BY <2>1, <2>2, <2>3 DEF PlannerTasks
<1>3. CASE PlanStep
  <2>1. PlannerTasks' = PlannerTasks \cup {issued + 1}
    BY <1>2, <1>3, ConstFacts DEF PlanStep
  <2>2. issued + 1 \notin PlannerTasks
    BY <1>1 DEF PlannerTasks
  <2>3. QED
    BY <1>3, <2>1, <2>2, Numbers, FS_AddElement
<1>4. CASE NodeStep
  <2>1. PICK n \in InPhase(mem.tree, "Pending") : Submits(n)
    BY <1>4 DEF NodeStep
  <2>2. n \in Nat /\ n # NoNode
    <3>1. mem.tree \in SearchTree
      BY RunFacts DEF TypeOK
    <3>2. n \in 1 .. Len(mem.tree.nodes) /\ Len(mem.tree.nodes) \in Nat
      BY <3>1, TreeFacts DEF InPhase
    <3>3. QED
      BY <3>2, ConstFacts
  <2>3. ~PlanStep
    BY <1>4 DEF NodeStep, PlanStep
  <2>4. QED
    BY <1>2, <2>1, <2>2, <2>3
<1>5. CASE ~PlanStep /\ ~NodeStep
  <2>1. UNCHANGED <<issued, taskNode>>
    <3>1. SameElsewhere \/ Settling => UNCHANGED <<issued, taskNode>>
      BY DEF SameElsewhere, Settling
    <3>2. QED
      BY <1>5, <3>1 DEF KnownStep, PassStep, QuietStep, DeleteStep, EndStep, LoadStep, OrphanStep, SnapStep, StoreStep,
                        CollectStep, GoStep, CountStep, FailStep, TimeoutStep, GrowStep
  <2>2. QED
    BY <1>5, <2>1 DEF PlannerTasks
<1>6. QED
  BY <1>3, <1>4, <1>5

\* The invariant, by the place of the pass.
PlanIdle == pc = "idle" => Cardinality(PlannerTasks) <= api.tree.iterations + faults + Deleting + Ended(api)
PlanBusy == pc # "idle" => Cardinality(PlannerTasks) + Paid <= api.tree.iterations + faults + Asked + Ended(api)
PlanStore == pc = "persist" /\ memFresh => Cardinality(PlannerTasks) <= mem.tree.iterations + faults + Ended(mem)

LEMMA PlannerParts == PlannerInv <=> PlanIdle /\ PlanBusy /\ PlanStore
BY DEF PlannerInv, PlanIdle, PlanBusy, PlanStore

LEMMA InitPlanner == Init => PlannerInv
<1>1. SUFFICES ASSUME Init PROVE PlannerInv
  OBVIOUS
<1>2. api = NewRun /\ pc = "idle" /\ issued = 0 /\ faults = 0
  BY <1>1 DEF Init, ObjectInit
<1>3. PlannerTasks = {}
  BY <1>2 DEF PlannerTasks
<1>4. Cardinality(PlannerTasks) = 0
  BY <1>3, FS_EmptySet
<1>5. api.tree.iterations = 0 /\ Deleting \in Nat /\ Ended(api) \in Nat
  BY <1>2, NewRunFacts DEF Deleting, Ended
<1>6. QED
  BY <1>2, <1>4, <1>5, PlannerParts DEF PlanIdle, PlanBusy, PlanStore

LEMMA PlannerStep ==
  ASSUME TypeOK, TypeOK', FrameInv, PlannerInv, KnownStep
  PROVE  PlannerInv'
<1> DEFINE C == Cardinality(PlannerTasks)
           it == api.tree.iterations
<1>1. PlanIdle /\ PlanBusy /\ PlanStore
  BY PlannerParts
<1>2. /\ C \in Nat /\ it \in Nat /\ faults \in Nat /\ Deleting \in 0 .. 1 /\ Paid \in 0 .. 1 /\ Asked \in 0 .. 1
      /\ Ended(api) \in 0 .. 1 /\ mem.tree.iterations \in Nat /\ Ended(mem) \in 0 .. 1
  BY Numbers
<1>3. /\ Deleting' \in 0 .. 1 /\ Paid' \in 0 .. 1 /\ Asked' \in 0 .. 1
      /\ Ended(api)' \in 0 .. 1 /\ Ended(mem)' \in 0 .. 1
  BY DEF Ended, Paid, Asked, Deleting
<1>4. (~PlanStep => C' = C) /\ (PlanStep => C' = C + 1)
  BY PlannerTasksAre
<1>a. memFresh \in BOOLEAN /\ memFresh' \in BOOLEAN /\ api.deleting \in BOOLEAN
  BY RunFacts DEF TypeOK
<1>b. /\ ~memFresh /\ ~api.deleting => Paid = 1
      /\ api.deleting => Deleting = 1 /\ Paid = 0
      /\ ~api.deleting => Deleting = 0
      /\ memFresh => Paid = 0
  BY DEF Paid, Deleting
<1>c. /\ ~api'.deleting => Deleting' = 0
      /\ api'.deleting => Deleting' = 1 /\ Paid' = 0
      /\ memFresh' => Paid' = 0
      /\ memFresh' = memFresh /\ api'.deleting = api.deleting => Paid' = Paid
      /\ api'.deleting = api.deleting => Deleting' = Deleting
      /\ api'.phase = api.phase => Ended(api)' = Ended(api)
      /\ mem'.phase = mem.phase => Ended(mem)' = Ended(mem)
      /\ pc' = pc => Asked' = Asked
  BY DEF Paid, Deleting, Ended, Asked
<1>d. /\ pc \in {"idle", "load", "collect", "submit", "plan"} => Asked = 0
      /\ pc' \in {"idle", "load", "collect", "submit", "plan"} => Asked' = 0
      /\ pc' \in {"answer", "resubmit", "persist"} => Asked' = 1
  BY DEF Asked
<1> HIDE DEF C, it
<1>5. SUFFICES PlanIdle' /\ PlanBusy' /\ PlanStore'
  BY DEF PlannerInv, PlanIdle, PlanBusy, PlanStore
<1>6. /\ pc = "idle" => C <= it + faults + Deleting + Ended(api)
      /\ pc # "idle" => C + Paid <= it + faults + Asked + Ended(api)
      /\ pc = "persist" /\ memFresh => C <= mem.tree.iterations + faults + Ended(mem)
  BY <1>1 DEF PlanIdle, PlanBusy, PlanStore, C, it
<1>7. /\ (pc' = "idle" => C' <= it' + faults' + Deleting' + Ended(api)') => PlanIdle'
      /\ (pc' # "idle" => C' + Paid' <= it' + faults' + Asked' + Ended(api)') => PlanBusy'
      /\ (pc' = "persist" /\ memFresh' => C' <= mem'.tree.iterations + faults' + Ended(mem)') => PlanStore'
  BY DEF PlanIdle, PlanBusy, PlanStore, C, it
<1>8. CASE QuietStep
  <2>1. /\ UNCHANGED <<api, mem, pc>>
        /\ \/ memFresh' = memFresh /\ faults' \in {faults, faults + 1}
           \/ ~memFresh' /\ faults' = faults + 1
    BY <1>8 DEF QuietStep
  <2>2. C' = C /\ it' = it
    BY <1>4, <1>8, <2>1 DEF PlanStep, it
  <2>3. Deleting' = Deleting /\ Ended(api)' = Ended(api) /\ Ended(mem)' = Ended(mem) /\ Asked' = Asked
    BY <1>c, <2>1
  <2>4. CASE memFresh' = memFresh /\ faults' \in {faults, faults + 1}
    <3>1. Paid' = Paid
      BY <1>c, <2>1, <2>4
    <3>2. QED
      BY <1>2, <1>6, <1>7, <2>1, <2>2, <2>3, <2>4, <3>1
  <2>5. CASE ~memFresh' /\ faults' = faults + 1
    BY <1>2, <1>3, <1>6, <1>7, <2>1, <2>2, <2>3, <2>5
  <2>6. QED
    BY <2>1, <2>4, <2>5
<1>9. CASE DeleteStep
  <2>1. /\ UNCHANGED <<mem, pc, faults>> /\ api'.tree = api.tree /\ api'.phase = api.phase
        /\ ~api.deleting /\ api'.deleting /\ ~memFresh'
    BY <1>9 DEF DeleteStep, Keeps
  <2>2. C' = C /\ it' = it
    BY <1>4, <2>1 DEF PlanStep, it
  <2>3. Ended(api)' = Ended(api) /\ Asked' = Asked /\ Paid' = 0 /\ Deleting' = 1 /\ Deleting = 0
    BY <1>b, <1>c, <2>1
  <2>4. QED
    BY <1>2, <1>3, <1>6, <1>7, <2>1, <2>2, <2>3
<1>10. CASE EndStep
  <2>1. /\ pc' = "idle" /\ api'.tree = api.tree /\ api'.phase = api.phase /\ api'.deleting = api.deleting
        /\ \/ pc \in {"idle", "load"} /\ faults' \in {faults, faults + 1}
           \/ pc = "persist" /\ ~memFresh /\ faults' = faults
           \/ pc # "idle" /\ faults' = faults + 1
    BY <1>10 DEF EndStep, Keeps
  <2>2. C' = C /\ it' = it
    BY <1>4, <2>1 DEF PlanStep, it
  <2>3. Ended(api)' = Ended(api) /\ Deleting' = Deleting
    BY <1>c, <2>1
  <2>4. CASE pc \in {"idle", "load"} /\ faults' \in {faults, faults + 1}
    BY <1>2, <1>6, <1>7, <1>d, <2>1, <2>2, <2>3, <2>4
  <2>5. CASE pc = "persist" /\ ~memFresh /\ faults' = faults
    <3>1. Paid + Deleting >= 1
      BY <1>2, <1>a, <1>b, <2>5
    <3>2. QED
      BY <1>2, <1>6, <1>7, <2>1, <2>2, <2>3, <2>5, <3>1
  <2>6. CASE pc # "idle" /\ faults' = faults + 1
    BY <1>2, <1>6, <1>7, <2>1, <2>2, <2>3, <2>6
  <2>7. QED
    BY <2>1, <2>4, <2>5, <2>6
<1>11. CASE LoadStep
  <2>1. /\ pc = "idle" /\ pc' = "load"
        /\ api'.tree = api.tree /\ api'.phase = api.phase /\ api'.deleting = api.deleting
        /\ \/ memFresh' /\ faults' = faults + 1
           \/ memFresh' /\ faults' = faults /\ ~api.deleting
           \/ ~memFresh' /\ faults' = faults + 1
    BY <1>11 DEF LoadStep, Keeps
  <2>2. C' = C /\ it' = it
    BY <1>4, <2>1 DEF PlanStep, it
  <2>3. Ended(api)' = Ended(api) /\ Deleting' = Deleting
    BY <1>c, <2>1
  <2>4. CASE memFresh'
    BY <1>2, <1>3, <1>6, <1>7, <1>b, <1>c, <2>1, <2>2, <2>3, <2>4
  <2>5. CASE ~memFresh'
    <3>1. Paid' + Deleting <= 1
      <4>1. CASE api.deleting
        BY <1>2, <1>c, <2>1, <4>1
      <4>2. CASE ~api.deleting
        BY <1>3, <1>b, <4>2
      <4>3. QED
        BY <4>1, <4>2
    <3>2. QED
      BY <1>2, <1>3, <1>6, <1>7, <2>1, <2>2, <2>3, <2>5, <3>1
  <2>6. QED
    BY <2>4, <2>5
<1>12. CASE OrphanStep
  <2>1. /\ pc = "load" /\ pc' = "persist" /\ UNCHANGED <<api, memFresh, faults>>
        /\ ~Terminal(mem.phase) /\ mem'.tree = mem.tree /\ mem'.phase = "Failed"
    BY <1>12 DEF OrphanStep, EndedBy
  <2>2. C' = C /\ it' = it
    BY <1>4, <2>1 DEF PlanStep, it
  <2>3. Ended(api)' = Ended(api) /\ Paid' = Paid /\ Asked = 0 /\ Asked' = 1
    BY <1>c, <1>d, <2>1
  <2>4. Ended(mem)' = 1
    BY <2>1 DEF Ended, Terminal
  <2>5. memFresh => mem = api
    BY <2>1 DEF FrameInv
  <2>6. memFresh => mem'.tree.iterations = it
    BY <2>1, <2>5 DEF it
  <2>7. QED
    BY <1>2, <1>6, <1>7, <2>1, <2>2, <2>3, <2>4, <2>6
<1>13. CASE SnapStep
  <2>1. /\ pc = "load" /\ pc' = "collect" /\ memFresh /\ memFresh' /\ UNCHANGED faults
        /\ api'.tree = api.tree /\ api'.phase = api.phase /\ api'.deleting = api.deleting
    BY <1>13 DEF SnapStep
  <2>2. C' = C /\ it' = it
    BY <1>4, <2>1 DEF PlanStep, it
  <2>3. Ended(api)' = Ended(api) /\ Paid' = 0 /\ Asked = 0 /\ Asked' = 0
    BY <1>c, <1>d, <2>1
  <2>4. QED
    BY <1>2, <1>6, <1>7, <2>1, <2>2, <2>3
<1>14. CASE StoreStep
  <2>1. pc = "persist" /\ memFresh /\ UNCHANGED faults /\ api' = mem /\ pc' = "idle"
    BY <1>14 DEF StoreStep
  <2>2. C' = C /\ it' = mem.tree.iterations /\ Ended(api)' = Ended(mem)
    BY <1>4, <2>1 DEF PlanStep, it, Ended
  <2>3. QED
    BY <1>2, <1>3, <1>6, <1>7, <2>1, <2>2
<1>15. CASE PassStep
  <2>1. /\ Working /\ pc # "idle" /\ pc' # "idle" /\ UNCHANGED <<api, memFresh>> /\ faults' \in {faults, faults + 1}
    BY <1>15 DEF PassStep, WorkStep, Working
  <2>2. it' = it /\ Paid' = Paid /\ Ended(api)' = Ended(api)
    BY <1>c, <2>1 DEF it
  <2>3. Ended(api) = 0 /\ mem.tree.iterations = it
    BY <2>1 DEF FrameInv, Ended, it
  <2>4. memFresh => Paid = 0
    BY <1>b
  <2>5. C + Paid <= it + faults + Asked
    BY <1>2, <1>6, <2>1, <2>3
  <2>a. PlanIdle'
    BY <1>7, <2>1
  <2>b. PICK g \in Nat : g = faults' /\ g >= faults
    BY <1>2, <2>1
  <2>c. (C' + Paid <= it + g + Asked') => PlanBusy'
    BY <1>2, <1>3, <1>7, <2>b, <2>2, <2>3
  <2>d. (pc' = "persist" /\ memFresh => C' <= mem'.tree.iterations + g + Ended(mem)') => PlanStore'
    BY <1>7, <2>1, <2>b
  <2>e. /\ C \in Nat /\ it \in Nat /\ faults \in Nat /\ Paid \in Nat /\ Asked \in Nat /\ Asked <= 1
        /\ Asked' \in Nat /\ Ended(mem)' \in Nat
    BY <1>2, <1>3
  <2>f. g \in Nat /\ g >= faults
    BY <2>b
  <2>6. CASE CollectStep
    <3>1. pc = "collect" /\ pc' \in {"submit", "persist"} /\ mem'.tree.iterations = it
      BY <2>3, <2>6 DEF CollectStep
    <3>2. C' = C /\ Asked = 0
      BY <1>4, <1>d, <3>1 DEF PlanStep
    <3>a. PICK a \in Nat, e \in Nat : a = Asked' /\ e = Ended(mem)'
      BY <2>e
    <3>b. C + Paid <= it + g + a /\ (memFresh => C <= it + g + e)
      BY <2>e, <2>4, <2>5, <2>f, <3>2
    <3>3. C' + Paid <= it + g + Asked' /\ (memFresh => C' <= it + g + Ended(mem)')
      BY <3>2, <3>a, <3>b
    <3>4. QED
      BY <2>a, <2>c, <2>d, <3>1, <3>3
  <2>7. CASE NodeStep
    <3>1. pc' = pc /\ pc \in {"submit", "resubmit"} /\ g = faults
      BY <2>7, <2>b DEF NodeStep
    <3>2. C' = C /\ Asked' = Asked
      BY <1>4, <1>c, <3>1 DEF PlanStep
    <3>3. C' + Paid <= it + g + Asked'
      BY <2>e, <2>5, <3>1, <3>2
    <3>4. QED
      BY <2>a, <2>c, <2>d, <3>1, <3>3
  <2>8. CASE PlanStep
    <3>1. pc = "plan" /\ pc' = "answer" /\ g = faults
      BY <2>8, <2>b DEF PlanStep
    <3>2. C' = C + 1 /\ Asked' = 1 /\ Asked = 0
      BY <1>4, <1>d, <2>8, <3>1
    <3>3. C' + Paid <= it + g + Asked'
      BY <2>e, <2>5, <3>1, <3>2
    <3>4. QED
      BY <2>a, <2>c, <2>d, <3>1, <3>3
  <2>9. CASE GoStep
    <3>1. /\ mem' = mem /\ g = faults
          /\ \/ pc = "submit" /\ pc' \in {"persist", "plan"}
             \/ pc = "answer" /\ pc' = "resubmit"
      BY <2>9, <2>b DEF GoStep
    <3>2. C' = C /\ mem'.tree.iterations = it
      BY <1>4, <2>3, <3>1 DEF PlanStep
    <3>3. Asked' >= Asked /\ (pc' = "persist" => Asked = 0)
      BY <1>2, <1>3, <1>d, <3>1
    <3>a. PICK a \in Nat : a = Asked' /\ a >= Asked
      BY <2>e, <3>3
    <3>b. a \in Nat /\ a >= Asked /\ g = faults
      BY <3>1, <3>a
    <3>c. C + Paid <= it + g + a
      BY <2>e, <2>5, <3>b
    <3>4. C' + Paid <= it + g + Asked'
      BY <3>2, <3>a, <3>c
    <3>5. pc' = "persist" /\ memFresh => C' <= it + g + Ended(mem)'
      BY <2>e, <2>4, <2>5, <3>1, <3>2, <3>3
    <3>6. QED
      BY <2>a, <2>c, <2>d, <3>2, <3>4, <3>5
  <2>10. CASE CountStep
    <3>1. pc = "resubmit" /\ pc' = "persist" /\ mem'.tree.iterations = it + 1
      BY <2>3, <2>10 DEF CountStep
    <3>2. C' = C /\ Asked' = 1
      BY <1>4, <1>d, <3>1 DEF PlanStep
    <3>3. C' + Paid <= it + g + Asked' /\ (memFresh => C' <= it + 1 + g + Ended(mem)')
      BY <2>e, <2>4, <2>5, <2>f, <3>2
    <3>4. QED
      BY <2>a, <2>c, <2>d, <3>1, <3>3
  <2>11. CASE FailStep \/ TimeoutStep
    <3>1. /\ pc \in {"collect", "plan", "answer"} /\ pc' = "persist" /\ mem'.tree = mem.tree
          /\ mem'.phase = "Failed" /\ mem'.tree.iterations = it
      BY <2>3, <2>11 DEF FailStep, TimeoutStep, EndedBy
    <3>2. ~PlanStep
      BY <3>1 DEF PlanStep
    <3>3. C' = C /\ Asked' = 1 /\ Ended(mem)' = 1
      BY <1>4, <1>d, <3>1, <3>2 DEF Ended, Terminal
    <3>4. C' + Paid <= it + g + Asked' /\ (memFresh => C' <= it + g + Ended(mem)')
      BY <2>e, <2>4, <2>5, <2>f, <3>3
    <3>5. QED
      BY <2>a, <2>c, <2>d, <3>1, <3>4
  <2>12. CASE GrowStep
    <3>1. /\ pc = "answer" /\ mem'.tree.iterations = it
          /\ \/ pc' = "resubmit" /\ mem'.phase = "Running"
             \/ pc' = "persist" /\ mem'.phase = "Succeeded"
      BY <2>3, <2>12 DEF GrowStep, Grown
    <3>2. C' = C /\ Asked' = 1 /\ (pc' = "persist" => Ended(mem)' = 1)
      BY <1>4, <1>d, <3>1 DEF PlanStep, Ended, Terminal
    <3>3. C' + Paid <= it + g + Asked'
      BY <2>e, <2>5, <2>f, <3>2
    <3>4. pc' = "persist" /\ memFresh => C' <= it + g + Ended(mem)'
      BY <2>e, <2>4, <2>5, <2>f, <3>2
    <3>5. QED
      BY <2>a, <2>c, <2>d, <3>1, <3>3, <3>4
  <2>13. QED
    BY <1>15, <2>6, <2>7, <2>8, <2>9, <2>10, <2>11, <2>12 DEF PassStep
<1>16. QED
  BY <1>8, <1>9, <1>10, <1>11, <1>12, <1>13, <1>14, <1>15 DEF KnownStep

LEMMA PlannerIsBounded ==
  ASSUME TypeOK, FrameInv, PlannerInv
  PROVE  PlannerBound
<1> DEFINE C == Cardinality(PlannerTasks)
<1>1. PlanIdle /\ PlanBusy
  BY PlannerParts
<1>2. /\ C \in Nat /\ api.tree.iterations \in Nat /\ faults \in Nat /\ Deleting \in 0 .. 1 /\ Paid \in 0 .. 1
      /\ Asked \in 0 .. 1 /\ Ended(api) \in 0 .. 1
  BY Numbers
<1>3. LostPasses = faults + Deleting
  BY DEF LostPasses, Deleting
<1>4. pc # "idle" => Asked + Ended(api) <= 1 + Deleting + Paid
  <2>1. CASE Asked = 0
    BY <1>2, <2>1
  <2>2. CASE Asked # 0 /\ ~Terminal(api.phase)
    BY <1>2, <2>2 DEF Ended
  <2>3. CASE Asked # 0 /\ Terminal(api.phase)
    <3>1. pc = "persist" /\ ~memFresh
      BY <2>3 DEF Asked, FrameInv, Working
    <3>2. Deleting + Paid >= 1
      <4>1. CASE api.deleting
        BY <1>2, <4>1 DEF Deleting
      <4>2. CASE ~api.deleting
        BY <1>2, <3>1, <4>2 DEF Paid
      <4>3. QED
        BY <4>1, <4>2
    <3>3. QED
      BY <1>2, <3>2
  <2>4. QED
    BY <2>1, <2>2, <2>3
<1>5. C <= api.tree.iterations + 1 + LostPasses
  BY <1>1, <1>2, <1>3, <1>4 DEF PlanIdle, PlanBusy
<1>6. QED
  BY <1>5 DEF PlannerBound, PlannerTasks

-----------------------------------------------------------------------------
(* The limit on tasks and the tasks in the queue.                          *)

\* The limits of the first g generations have a largest one.
LEMMA ParFacts ==
  ASSUME NEW g \in Generation
  PROVE  /\ Par(g) \in Nat /\ \A k \in 1 .. g : Config[k].maxParallel <= Par(g)
         /\ \E k \in 1 .. g : Par(g) = Config[k].maxParallel
<1> DEFINE N == Len(Config)
           Limits(h) == {Config[k].maxParallel : k \in 1 .. h}
           T == {h \in 0 .. N : h # 0 => \E x \in Limits(h) : \A y \in Limits(h) : x >= y}
<1>1. N \in Nat /\ Generation = 1 .. N /\ g # NoTeam /\ g \in 1 .. N
  BY ConstFacts
<1>2. \A k \in 1 .. N : Config[k].maxParallel \in Nat
  BY <1>1, SpecFacts
<1>3. 0 \in T
  BY <1>1
<1>4. ASSUME NEW h \in 0 .. N - 1, h \in T
      PROVE  h + 1 \in T
  <2>1. h + 1 \in 1 .. N /\ h + 1 # 0 /\ h \in Nat
    BY <1>1
  <2> DEFINE m == Config[h + 1].maxParallel
  <2>2. m \in Nat
    BY <1>2, <2>1
  <2>3. 1 .. (h + 1) = (1 .. h) \cup {h + 1}
    BY <2>1
  <2>4. Limits(h + 1) = Limits(h) \cup {m}
    BY <2>3
  <2>5. \A y \in Limits(h) : y \in Nat
    <3>1. \A k \in 1 .. h : k \in 1 .. N
      BY <1>1, <2>1
    <3>2. QED
      BY <1>2, <3>1
  <2>6. \E x \in Limits(h + 1) : \A y \in Limits(h + 1) : x >= y
    <3> HIDE DEF Limits, m
    <3>1. CASE h = 0
      <4>1. Limits(h) = {}
        BY <3>1 DEF Limits
      <4>2. QED
        BY <2>2, <2>4, <4>1
    <3>2. CASE h # 0
      <4>1. PICK x \in Limits(h) : \A y \in Limits(h) : x >= y
        BY <1>4, <3>2
      <4>2. CASE x >= m
        BY <2>2, <2>4, <2>5, <4>1, <4>2
      <4>3. CASE ~(x >= m)
        <5>1. x \in Nat /\ m >= x
          BY <2>2, <2>5, <4>1, <4>3
        <5>2. \A y \in Limits(h) : m >= y
          BY <2>2, <2>5, <4>1, <5>1
        <5>3. m \in Limits(h + 1) /\ m >= m
          BY <2>2, <2>4
        <5>4. \A y \in Limits(h + 1) : m >= y
          BY <2>4, <5>2, <5>3
        <5>5. QED
          BY <5>3, <5>4
      <4>4. QED
        BY <4>2, <4>3
    <3>3. QED
      BY <3>1, <3>2
  <2>7. QED
    BY <2>1, <2>6
<1> HIDE DEF T
<1>5. \A h \in 0 .. N : h \in T
  <2>1. \A h \in 0 .. N - 1 : h \in T => h + 1 \in T
    BY <1>4
  <2>2. QED
    BY <1>1, <1>3, <2>1, UpTo
<1>6. \E x \in Limits(g) : \A y \in Limits(g) : x >= y
  <2>1. g \in T /\ g # 0
    BY <1>1, <1>5
  <2> HIDE DEF Limits
  <2>2. QED
    BY <2>1 DEF T
<1>7. Par(g) = Max(Limits(g))
  BY <1>1 DEF Par
<1> HIDE DEF Limits
<1>8. Par(g) \in Limits(g) /\ \A y \in Limits(g) : Par(g) >= y
  BY <1>6, <1>7 DEF Max
<1>9. \A k \in 1 .. g : k \in 1 .. N
  BY <1>1
<1>10. PICK k \in 1 .. g : Par(g) = Config[k].maxParallel
  BY <1>8 DEF Limits
<1>11. Par(g) \in Nat
  BY <1>2, <1>9, <1>10
<1>12. ASSUME NEW j \in 1 .. g PROVE Config[j].maxParallel <= Par(g)
  <2>1. Par(g) >= Config[j].maxParallel
    BY <1>8 DEF Limits
  <2>2. Config[j].maxParallel \in Nat
    BY <1>2, <1>9
  <2>3. QED
    BY <1>11, <2>1, <2>2
<1>13. QED
  BY <1>10, <1>11, <1>12

\* An edit of the team never lowers it.
LEMMA ParGrows ==
  ASSUME NEW g \in Generation \cup {NoTeam}, NEW h \in Generation, g <= h
  PROVE  Par(g) \in Nat /\ Par(h) \in Nat /\ Par(g) <= Par(h)
<1>1. Par(h) \in Nat /\ \A k \in 1 .. h : Config[k].maxParallel <= Par(h)
  BY ParFacts
<1>2. CASE g = NoTeam
  BY <1>1, <1>2 DEF Par
<1>3. CASE g # NoTeam
  <2>1. g \in Generation /\ g \in Nat /\ h \in Nat
    BY <1>3, ConstFacts
  <2>2. Par(g) \in Nat
    BY <2>1, ParFacts
  <2>3. PICK k \in 1 .. g : Par(g) = Config[k].maxParallel
    BY <2>1, ParFacts
  <2>4. k \in 1 .. h
    BY <2>1, <2>3
  <2>5. QED
    BY <1>1, <2>2, <2>3, <2>4
<1>4. QED
  BY <1>2, <1>3

LEMMA Multiples ==
  ASSUME NEW P \in Nat, NEW f \in Nat
  PROVE  /\ P * f \in Nat /\ P * (f + 1) = P * f + P /\ P * (f + 0) = P * f /\ P * 0 = 0 /\ P * 1 = P
         /\ \A Q \in Nat : P <= Q => P * f <= Q * f
<1>1. /\ P * f \in Nat /\ P * (f + 1) = P * f + P /\ P * (f + 0) = P * f /\ P * 0 = 0 /\ P * 1 = P
  OBVIOUS
<1>2. ASSUME NEW Q \in Nat, P <= Q PROVE P * f <= Q * f
  BY <1>2
<1>3. QED
  BY <1>1, <1>2

\* A task of a node at work, and one for each of them at most.
LEMMA TaskOfNode ==
  ASSUME NEW tree \in SearchTree, NEW ex, IsFiniteSet(ex)
  PROVE  Cardinality(ex) <= Cardinality(LooseIn(tree.nodes, ex)) + Cardinality(InPhase(tree, "Running"))
<1> DEFINE L == LooseIn(tree.nodes, ex)
           R == InPhase(tree, "Running")
           K == ex \ L
           f == [t \in K |-> CHOOSE n \in R : tree.nodes[n].task = t]
<1>1. IsFiniteSet(R) /\ Cardinality(R) \in Nat
  BY NodesFinite DEF InPhase
<1>2. IsFiniteSet(L) /\ IsFiniteSet(K) /\ L \subseteq ex
  BY FS_Subset DEF LooseIn
<1>3. \A t \in K : \E n \in R : tree.nodes[n].task = t
  BY DEF LooseIn, InPhase
<1> HIDE DEF L, R
<1>4. \A t \in K : f[t] \in R /\ tree.nodes[f[t]].task = t
  BY <1>3
<1>5. f \in Injection(K, R)
  <2>1. f \in [K -> R]
    BY <1>4
  <2>2. \A s, t \in K : f[s] = f[t] => s = t
    BY <1>4
  <2>3. QED
    BY <2>1, <2>2 DEF Injection, IsInjective
<1>6. Cardinality(K) <= Cardinality(R)
  BY <1>1, <1>5, FS_Injection
<1> HIDE DEF f
<1>7. Cardinality(ex \ L) = Cardinality(ex) - Cardinality(ex \cap L)
  BY FS_Difference
<1>8. ex \cap L = L
  BY <1>2
<1>9. Cardinality(ex) \in Nat /\ Cardinality(L) \in Nat /\ Cardinality(K) \in Nat
  BY <1>2, FS_CardinalityType
<1>10. Cardinality(K) = Cardinality(ex) - Cardinality(L)
  BY <1>7, <1>8
<1> HIDE DEF K
<1>11. Cardinality(ex) <= Cardinality(L) + Cardinality(R)
  BY <1>1, <1>6, <1>9, <1>10
<1>12. QED
  BY <1>11 DEF L, R

LEMMA CardTypes ==
  ASSUME NEW run \in RunRecord, NEW ex, ex \subseteq TaskIds
  PROVE  /\ IsFiniteSet(ex) /\ Cardinality(ex) \in Nat
         /\ IsFiniteSet(LooseIn(run.tree.nodes, ex)) /\ Cardinality(LooseIn(run.tree.nodes, ex)) \in Nat
         /\ IsFiniteSet(RunningNodes(run)) /\ Cardinality(RunningNodes(run)) \in Nat
<1>1. IsFiniteSet(ex) /\ Cardinality(ex) \in Nat
  BY ConstFacts, SomeTasks DEF TaskIds
<1>2. LooseIn(run.tree.nodes, ex) \subseteq TaskIds
  BY DEF LooseIn
<1>3. IsFiniteSet(LooseIn(run.tree.nodes, ex)) /\ Cardinality(LooseIn(run.tree.nodes, ex)) \in Nat
  BY <1>2, ConstFacts, SomeTasks DEF TaskIds
<1>4. RunningNodes(run) \subseteq DOMAIN run.tree.nodes /\ run.tree \in SearchTree
  BY RunFacts DEF RunningNodes, InPhase
<1>5. IsFiniteSet(RunningNodes(run)) /\ Cardinality(RunningNodes(run)) \in Nat
  BY <1>4, NodesFinite
<1>6. QED
  BY <1>1, <1>3, <1>5

\* Fewer tasks, fewer loose ones.
LEMMA FewerLoose ==
  ASSUME NEW nodes, NEW old, NEW new, new \subseteq old, old \subseteq TaskIds
  PROVE  Cardinality(LooseIn(nodes, new)) <= Cardinality(LooseIn(nodes, old)) /\ Cardinality(new) <= Cardinality(old)
<1>1. LooseIn(nodes, new) \subseteq LooseIn(nodes, old) /\ LooseIn(nodes, old) \subseteq TaskIds
  BY DEF LooseIn
<1>2. IsFiniteSet(LooseIn(nodes, old)) /\ IsFiniteSet(old)
  BY <1>1, ConstFacts, SomeTasks DEF TaskIds
<1>3. QED
  BY <1>1, <1>2, FS_Subset

LEMMA OpenAre == OpenTasks \subseteq TaskIds /\ Executing \subseteq TaskIds
BY DEF OpenTasks, Executing

\* Only SubmitNode puts executor tasks into the queue.
LEMMA ExecutingMoves ==
  ASSUME TypeOK, KnownStep
  PROVE  /\ Executing' \subseteq TaskIds
         /\ ~NodeStep => Executing' \subseteq Executing
         /\ NodeStep => Executing' \subseteq Executing \cup {issued'}
<1>1. Executing' \subseteq TaskIds
  BY DEF OpenTasks, Executing
<1>2. ASSUME Settling \/ Cancelling(InFlight) PROVE Executing' \subseteq Executing
  <2>1. taskNode' = taskNode /\ OpenTasks' \subseteq OpenTasks
    BY <1>2 DEF Settling, Cancelling
  <2>2. QED
    BY <2>1 DEF Executing
<1>3. ASSUME NEW n \in Nat, Submits(n) PROVE Executing' \subseteq Executing \cup {issued'}
  BY <1>3 DEF Submits, Executing, OpenTasks
<1>4. CASE NodeStep
  <2>1. PICK n \in InPhase(mem.tree, "Pending") : Submits(n)
    BY <1>4 DEF NodeStep
  <2>2. n \in Nat
    BY TreeFacts, RunFacts DEF TypeOK, InPhase
  <2>3. QED
    BY <1>1, <1>3, <1>4, <2>1, <2>2
<1>5. CASE PlanStep
  <2>1. Submits(NoNode) /\ ~NodeStep
    BY <1>5 DEF PlanStep, NodeStep
  <2>2. \A t \in TaskIds : t \in Executing' => t \in Executing
    BY <2>1 DEF Submits, Executing, OpenTasks
  <2>3. QED
    BY <1>1, <2>1, <2>2
<1>6. CASE ~PlanStep /\ ~NodeStep
  <2>1. Settling \/ Cancelling(InFlight)
    <3>1. SameElsewhere => Settling
      BY DEF SameElsewhere, Settling, TypeOK, OpenTasks
    <3>2. UNCHANGED <<issued, taskNode, ledger>> => Settling
      BY DEF Settling, TypeOK, OpenTasks
    <3>3. QED
      BY <1>6, <3>1, <3>2
         DEF KnownStep, PassStep, QuietStep, DeleteStep, EndStep, LoadStep, OrphanStep, SnapStep, StoreStep,
             CollectStep, GoStep, CountStep, FailStep, TimeoutStep, GrowStep
  <2>2. QED
    BY <1>1, <1>2, <1>6, <2>1
<1>7. QED
  BY <1>4, <1>5, <1>6

\* What is loose for the stored tree.
LEMMA StoredLoose ==
  ASSUME TypeOK, KnownStep
  PROVE  /\ ~NodeStep => Cardinality(LooseIn(api.tree.nodes, Executing')) <= Cardinality(Loose(api))
         /\ NodeStep => Cardinality(LooseIn(api.tree.nodes, Executing')) <= Cardinality(Loose(api)) + 1
<1>1. Executing \subseteq TaskIds
  BY OpenAre
<1>2. CASE ~NodeStep
  BY <1>1, <1>2, ExecutingMoves, FewerLoose DEF Loose
<1>3. CASE NodeStep
  <2> DEFINE L == LooseIn(api.tree.nodes, Executing)
             S == LooseIn(api.tree.nodes, Executing')
             x == issued'
  <2>1. Executing' \subseteq Executing \cup {x}
    BY <1>3, ExecutingMoves
  <2>2. S \subseteq L \cup {x}
    BY <2>1 DEF LooseIn
  <2>3. IsFiniteSet(L) /\ Cardinality(L) \in Nat
    BY <1>1, CardTypes DEF TypeOK
  <2> HIDE DEF L, S, x
  <2>4. IsFiniteSet(L \cup {x}) /\ Cardinality(L \cup {x}) \in {Cardinality(L), Cardinality(L) + 1}
    BY <2>3, FS_AddElement
  <2>5. IsFiniteSet(S) /\ Cardinality(S) <= Cardinality(L \cup {x})
    BY <2>2, <2>4, FS_Subset
  <2>6. Cardinality(S) \in Nat
    BY <2>5, FS_CardinalityType
  <2>7. Cardinality(S) <= Cardinality(L) + 1
    BY <2>3, <2>4, <2>5, <2>6
  <2>8. QED
    BY <1>3, <2>7 DEF L, S, Loose
<1>4. QED
  BY <1>2, <1>3

\* A node at work either stays so with its task or its task is answered.
Lighter(old, new) ==
  /\ InPhase(new, "Running") \subseteq InPhase(old, "Running")
  /\ \A t \in Executing :
       (\E n \in DOMAIN old.nodes : old.nodes[n].phase = "Running" /\ old.nodes[n].task = t) =>
       (\E n \in DOMAIN new.nodes : new.nodes[n].phase = "Running" /\ new.nodes[n].task = t)

LEMMA GathersLighter ==
  ASSUME NEW old \in SearchTree, NEW new, Gathers(old, new) \/ Prunes(old, new)
  PROVE  Lighter(old, new)
<1>1. DOMAIN new.nodes = DOMAIN old.nodes
  BY DEF Gathers, Prunes
<1>2. ASSUME NEW n \in DOMAIN old.nodes
      PROVE  \/ new.nodes[n].phase = old.nodes[n].phase /\ new.nodes[n].task = old.nodes[n].task
             \/ /\ old.nodes[n].phase = "Running" /\ new.nodes[n].phase \in {"Scored", "EvalFailed"}
                /\ ledger[old.nodes[n].task] # "open"
             \/ old.nodes[n].phase = "Scored" /\ new.nodes[n].phase = "Pruned"
  BY <1>2 DEF Gathers, Prunes
<1>3. \A t \in Executing : ledger[t] = "open"
  BY DEF Executing, OpenTasks
<1>4. ASSUME NEW t \in Executing, NEW n \in DOMAIN old.nodes, old.nodes[n].phase = "Running", old.nodes[n].task = t
      PROVE  new.nodes[n].phase = "Running" /\ new.nodes[n].task = t
  BY <1>2, <1>3, <1>4
<1>5. InPhase(new, "Running") \subseteq InPhase(old, "Running")
  BY <1>1, <1>2 DEF InPhase
<1>6. QED
  BY <1>1, <1>4, <1>5 DEF Lighter

\* The copy after a step of the pass: its nodes at work and what is loose for it.
LEMMA CopyMoves ==
  ASSUME TypeOK, TypeOK', FrameInv, TreeInv, PassStep
  PROVE  /\ LooseIn(mem'.tree.nodes, Executing') \subseteq Loose(mem)
         /\ ~NodeStep => RunningNodes(mem') \subseteq RunningNodes(mem)
         /\ NodeStep => Cardinality(RunningNodes(mem')) = Cardinality(RunningNodes(mem)) + 1
         /\ GrowStep => RunningNodes(mem) = {} /\ RunningNodes(mem') = {}
<1>1. Working /\ WorkStep /\ KnownStep /\ Grounded /\ Owned(mem)
  BY DEF PassStep, WorkStep, KnownStep, Grounded, TreeInv
<1>2. mem.tree \in SearchTree /\ mem'.tree \in SearchTree /\ issued \in Nat
  BY <1>1, RunFacts, WorkingFacts DEF TypeOK
<1>3. ~NodeStep => Executing' \subseteq Executing
  BY <1>1, ExecutingMoves
<1>4. CASE CollectStep
  <2>1. pc = "collect" /\ ~NodeStep /\ ~GrowStep
    BY <1>4 DEF CollectStep, NodeStep, GrowStep
  <2> DEFINE run == InitSearchTree(mem)
             old == run.tree
  <2>2. /\ old \in SearchTree /\ RunningNodes(run) = RunningNodes(mem)
        /\ \A n \in RunningNodes(mem) : old.nodes[n] = mem.tree.nodes[n]
    BY <1>1, InitTreeOwned
  <2>3. PICK tree \in SearchTree : Gathers(old, tree) /\ Prunes(tree, mem'.tree)
    BY <1>4 DEF CollectStep
  <2> HIDE DEF run
  <2>4. InPhase(old, "Running") = InPhase(mem.tree, "Running")
    BY <2>2 DEF RunningNodes
  <2> HIDE DEF old
  <2>5. Lighter(old, tree) /\ Lighter(tree, mem'.tree)
    BY <2>2, <2>3, GathersLighter
  <2>6. RunningNodes(mem') \subseteq RunningNodes(mem)
    BY <2>4, <2>5 DEF Lighter, RunningNodes
  <2>7. ASSUME NEW t \in Executing, NEW n \in DOMAIN mem.tree.nodes, mem.tree.nodes[n].phase = "Running",
               mem.tree.nodes[n].task = t
        PROVE  \E m \in DOMAIN mem'.tree.nodes : mem'.tree.nodes[m].phase = "Running" /\ mem'.tree.nodes[m].task = t
    <3>1. n \in RunningNodes(mem)
      BY <2>7 DEF RunningNodes, InPhase
    <3>2. n \in DOMAIN old.nodes /\ old.nodes[n].phase = "Running" /\ old.nodes[n].task = t
      BY <2>2, <2>4, <2>7, <3>1 DEF RunningNodes, InPhase
    <3>3. \E m \in DOMAIN tree.nodes : tree.nodes[m].phase = "Running" /\ tree.nodes[m].task = t
      BY <2>5, <3>2 DEF Lighter
    <3>4. QED
      BY <2>5, <3>3 DEF Lighter
  <2>8. LooseIn(mem'.tree.nodes, Executing') \subseteq Loose(mem)
    BY <1>3, <2>1, <2>7 DEF LooseIn, Loose
  <2>9. QED
    BY <2>1, <2>6, <2>8
<1>5. CASE NodeStep
  <2>1. PICK n \in InPhase(mem.tree, "Pending") :
          /\ mem'.tree.nodes[n].phase = "Running" /\ mem'.tree.nodes[n].task = issued'
          /\ \A m \in DOMAIN mem.tree.nodes : m # n => mem'.tree.nodes[m] = mem.tree.nodes[m]
    BY <1>5 DEF NodeStep
  <2>2. DOMAIN mem'.tree.nodes = DOMAIN mem.tree.nodes
    BY <1>5 DEF NodeStep
  <2>3. n \in DOMAIN mem.tree.nodes /\ mem.tree.nodes[n].phase = "Pending"
    BY <2>1 DEF InPhase
  <2>4. RunningNodes(mem') = RunningNodes(mem) \cup {n} /\ n \notin RunningNodes(mem)
    BY <2>1, <2>2, <2>3 DEF RunningNodes, InPhase
  <2>5. IsFiniteSet(RunningNodes(mem))
    BY <1>2, NodesFinite DEF RunningNodes, InPhase
  <2>6. Cardinality(RunningNodes(mem')) = Cardinality(RunningNodes(mem)) + 1
    BY <2>4, <2>5, FS_AddElement
  <2>7. Executing' \subseteq Executing \cup {issued'}
    BY <1>1, <1>5, ExecutingMoves
  <2>8. LooseIn(mem'.tree.nodes, Executing') \subseteq Loose(mem)
    <3>1. SUFFICES ASSUME NEW t \in LooseIn(mem'.tree.nodes, Executing') PROVE t \in Loose(mem)
      OBVIOUS
    <3>2. t \in Executing' /\ \A m \in DOMAIN mem'.tree.nodes : ~(mem'.tree.nodes[m].phase = "Running" /\ mem'.tree.nodes[m].task = t)
      BY DEF LooseIn
    <3>3. t # issued'
      BY <2>1, <2>2, <2>3, <3>2
    <3>4. t \in Executing
      BY <2>7, <3>2, <3>3
    <3>5. ~(\E m \in DOMAIN mem.tree.nodes : mem.tree.nodes[m].phase = "Running" /\ mem.tree.nodes[m].task = t)
      BY <2>1, <2>2, <2>3, <3>2
    <3>6. QED
      BY <3>4, <3>5 DEF Loose, LooseIn
  <2>9. ~GrowStep
    BY <1>5 DEF NodeStep, GrowStep
  <2>10. QED
    BY <1>5, <2>6, <2>8, <2>9
<1>6. CASE PlanStep \/ GoStep \/ CountStep \/ FailStep \/ TimeoutStep
  <2>1. mem'.tree.nodes = mem.tree.nodes
    BY <1>6 DEF PlanStep, GoStep, CountStep, FailStep, TimeoutStep, EndedBy
  <2>2. CASE NodeStep
    BY <1>5, <2>2
  <2>3. CASE GrowStep
    <3>1. pc = "answer" /\ ~NodeStep
      BY <2>3 DEF GrowStep, NodeStep
    <3>2. RunningNodes(mem) = {}
      BY <3>1 DEF TreeInv, RunningNodes
    <3>3. RunningNodes(mem') = RunningNodes(mem)
      BY <2>1 DEF RunningNodes, InPhase
    <3>4. QED
      BY <1>3, <2>1, <3>1, <3>2, <3>3 DEF LooseIn, Loose
  <2>4. CASE ~NodeStep /\ ~GrowStep
    BY <1>3, <2>1, <2>4 DEF LooseIn, Loose, RunningNodes, InPhase
  <2>5. QED
    BY <2>2, <2>3, <2>4
<1>7. CASE GrowStep
  <2>1. pc = "answer" /\ Grown(mem.tree, mem'.tree) /\ ~NodeStep
    BY <1>7 DEF GrowStep, NodeStep
  <2>2. InPhase(mem.tree, "Running") = {}
    BY <2>1 DEF TreeInv
  <2>3. InPhase(mem'.tree, "Running") = {}
    <3>1. OwnedIn(mem.tree.nodes, issued, taskNode) /\ AnsweredIn(mem.tree.nodes, issued, taskNode, ledger)
      BY <1>1 DEF Owned
    <3>2. QED
      BY <1>2, <2>1, <2>2, <3>1, GrownOwned
  <2>4. LooseIn(mem'.tree.nodes, Executing') \subseteq Loose(mem)
    BY <1>3, <2>1, <2>2, <2>3 DEF LooseIn, Loose, InPhase
  <2>5. QED
    BY <2>1, <2>2, <2>3, <2>4 DEF RunningNodes
<1>8. QED
  BY <1>4, <1>5, <1>6, <1>7 DEF PassStep

LEMMA ParType ==
  ASSUME NEW g \in Generation \cup {NoTeam}
  PROVE  Par(g) \in Nat
<1>1. CASE g = NoTeam
  BY <1>1 DEF Par
<1>2. CASE g # NoTeam
  BY <1>2, ParFacts
<1>3. QED
  BY <1>1, <1>2

LEMMA CountTypes ==
  ASSUME TypeOK
  PROVE  /\ Limit \in Nat /\ Lost \in Nat /\ Forgiven \in Nat /\ Owed \in Nat /\ Room \in Nat
         /\ Cardinality(Loose(api)) \in Nat /\ Cardinality(Loose(mem)) \in Nat
         /\ Cardinality(RunningNodes(api)) \in Nat /\ Cardinality(RunningNodes(mem)) \in Nat
         /\ Cardinality(Executing) \in Nat
<1>1. api \in RunRecord /\ mem \in RunRecord /\ faults \in Nat
  BY ConstFacts DEF TypeOK
<1>2. Limit \in Nat
  BY <1>1, RunFacts, ParType DEF Limit
<1>3. Lost \in Nat
  BY <1>1, <1>2, Multiples DEF Lost
<1>4. Forgiven \in Nat /\ Owed \in Nat
  BY <1>2 DEF Forgiven, Owed
<1>5. /\ Cardinality(Loose(api)) \in Nat /\ Cardinality(Loose(mem)) \in Nat
      /\ Cardinality(RunningNodes(api)) \in Nat /\ Cardinality(RunningNodes(mem)) \in Nat
      /\ Cardinality(Executing) \in Nat
  BY <1>1, OpenAre, CardTypes DEF Loose
<1>6. Room \in Nat
  <2>1. CASE pc \in {"idle", "load", "collect"}
    BY <2>1 DEF Room
  <2>2. CASE pc = "persist"
    BY <1>2, <2>2 DEF Room
  <2>3. CASE pc \notin {"idle", "load", "collect", "persist"}
    BY <1>5, <2>3 DEF Room
  <2>4. QED
    BY <2>1, <2>2, <2>3
<1>7. QED
  BY <1>2, <1>3, <1>4, <1>5, <1>6

LEMMA CountTypesNext ==
  ASSUME TypeOK'
  PROVE  /\ Limit' \in Nat /\ Lost' \in Nat /\ Forgiven' \in Nat /\ Owed' \in Nat /\ Room' \in Nat
         /\ Cardinality(Loose(api))' \in Nat /\ Cardinality(Loose(mem))' \in Nat
         /\ Cardinality(RunningNodes(api))' \in Nat /\ Cardinality(RunningNodes(mem))' \in Nat
         /\ Cardinality(Executing)' \in Nat
<1>1. api' \in RunRecord /\ mem' \in RunRecord /\ faults' \in Nat
  BY ConstFacts DEF TypeOK
<1>2. Limit' \in Nat
  BY <1>1, RunFacts, ParType DEF Limit
<1>3. Lost' \in Nat
  BY <1>1, <1>2, Multiples DEF Lost
<1>4. Forgiven' \in Nat /\ Owed' \in Nat
  BY <1>2 DEF Forgiven, Owed
<1>a. Executing' \subseteq TaskIds
  BY DEF Executing, OpenTasks
<1>5. /\ Cardinality(Loose(api))' \in Nat /\ Cardinality(Loose(mem))' \in Nat
      /\ Cardinality(RunningNodes(api))' \in Nat /\ Cardinality(RunningNodes(mem))' \in Nat
      /\ Cardinality(Executing)' \in Nat
  <2>1. Cardinality(Executing') \in Nat
    BY <1>1, <1>a, CardTypes
  <2>2. Cardinality(LooseIn(api'.tree.nodes, Executing')) \in Nat /\ Cardinality(RunningNodes(api')) \in Nat
    BY <1>1, <1>a, CardTypes
  <2>3. Cardinality(LooseIn(mem'.tree.nodes, Executing')) \in Nat /\ Cardinality(RunningNodes(mem')) \in Nat
    BY <1>1, <1>a, CardTypes
  <2>4. QED
    BY <2>1, <2>2, <2>3 DEF Loose, RunningNodes
<1>6. Room' \in Nat
  <2>1. CASE pc' \in {"idle", "load", "collect"}
    BY <2>1 DEF Room
  <2>2. CASE pc' = "persist"
    BY <1>2, <2>2 DEF Room
  <2>3. CASE pc' \notin {"idle", "load", "collect", "persist"}
    BY <1>5, <2>3 DEF Room
  <2>4. QED
    BY <2>1, <2>2, <2>3
<1>7. QED
  BY <1>2, <1>3, <1>4, <1>5, <1>6

\* What a fault adds.
LEMMA LostMoves ==
  ASSUME TypeOK, api'.gen = api.gen
  PROVE  /\ Limit' = Limit
         /\ faults' = faults => Lost' = Lost
         /\ faults' = faults + 1 => Lost' = Lost + Limit
<1>1. Limit' = Limit
  BY DEF Limit
<1>2. Limit \in Nat /\ faults \in Nat
  BY CountTypes, Numbers
<1>3. Limit * (faults + 1) = Limit * faults + Limit
  BY <1>2, Multiples
<1>4. QED
  BY <1>1, <1>3 DEF Lost

\* The room of a pass is never more than the limit.
LEMMA RoomFacts ==
  ASSUME TypeOK, ParallelInv
  PROVE  /\ Room <= Limit
         /\ pc \in {"idle", "load", "collect"} => Room = 0
         /\ pc = "persist" => Room = Limit
         /\ pc \in {"submit", "plan", "answer", "resubmit"} => Room = Cardinality(RunningNodes(mem))
<1>1. Limit \in Nat
  BY CountTypes
<1>2. pc \in {"idle", "load", "collect"} => Room = 0
  BY DEF Room
<1>3. pc = "persist" => Room = Limit
  BY DEF Room
<1>4. pc \in {"submit", "plan", "answer", "resubmit"} => Room = Cardinality(RunningNodes(mem))
  BY DEF Room
<1>5. pc \in {"submit", "plan", "answer", "resubmit"} => Cardinality(RunningNodes(mem)) <= Limit
  BY DEF ParallelInv, Grounded, Working
<1>6. pc \in {"idle", "load", "collect", "submit", "plan", "answer", "resubmit", "persist"}
  BY DEF TypeOK
<1>7. Room <= Limit
  <2>1. CASE pc \in {"idle", "load", "collect"}
    BY <1>1, <1>2, <2>1
  <2>2. CASE pc = "persist"
    BY <1>1, <1>3, <2>2
  <2>3. CASE pc \in {"submit", "plan", "answer", "resubmit"}
    BY <1>4, <1>5, <2>3
  <2>4. QED
    BY <1>6, <2>1, <2>2, <2>3
<1>8. QED
  BY <1>2, <1>3, <1>4, <1>7

LEMMA InitParallel == Init => ParallelInv
<1>1. SUFFICES ASSUME Init PROVE ParallelInv
  OBVIOUS
<1>2. TypeOK
  BY <1>1, InitFacts
<1>3. api = NewRun /\ pc = "idle" /\ ledger = [t \in TaskIds |-> "absent"]
  BY <1>1 DEF Init, ObjectInit, Queue!Init
<1>4. DOMAIN api.tree.nodes = {} /\ api.reason = ""
  BY <1>3, NewRunFacts
<1>5. RunningNodes(api) = {}
  BY <1>4 DEF RunningNodes, InPhase
<1>6. Loose(api) = {}
  BY <1>3 DEF Loose, LooseIn, Executing, OpenTasks
<1>7. Cardinality(RunningNodes(api)) = 0 /\ Cardinality(Loose(api)) = 0
  BY <1>5, <1>6, FS_EmptySet
<1>8. 0 <= Limit /\ 0 <= Lost + Forgiven
  BY <1>2, CountTypes
<1>9. ~Grounded
  BY <1>3 DEF Grounded, Working
<1>10. QED
  BY <1>3, <1>4, <1>7, <1>8, <1>9 DEF ParallelInv

\* A timeout leaves in the queue what is loose for the copy, or costs a fault.
LEMMA TimeoutLeaves ==
  ASSUME TypeOK, TypeOK', FrameInv, ParallelInv, PassStep, TimeoutStep, memFresh
  PROVE  Cardinality(Executing)' <= Lost'
<1> DEFINE ex == Cardinality(Executing)
           lm == Cardinality(Loose(mem))
           rm == Cardinality(RunningNodes(mem))
<1>1. pc = "collect" /\ Working /\ Grounded /\ KnownStep /\ api' = api /\ ~NodeStep
  BY DEF TimeoutStep, Working, Grounded, PassStep, KnownStep, WorkStep, NodeStep
<1>2. lm <= Lost /\ rm <= Limit
  BY <1>1 DEF ParallelInv
<1>3. /\ ex \in Nat /\ lm \in Nat /\ rm \in Nat /\ Lost \in Nat /\ Limit \in Nat
  BY CountTypes
<1>a. Executing \subseteq TaskIds /\ Executing' \subseteq TaskIds /\ Executing' \subseteq Executing
  BY <1>1, OpenAre, ExecutingMoves
<1>4. CASE Cancelling(InFlight) /\ faults' = faults
  <2>1. Executing' \subseteq Loose(mem)
    <3>1. OpenTasks' \subseteq OpenTasks \ InFlight /\ taskNode' = taskNode
      BY <1>4 DEF Cancelling
    <3>2. ASSUME NEW t \in Executing, t \notin InFlight PROVE t \in Loose(mem)
      <4>1. t # NoTask
        BY <1>a, ConstFacts
      <4>2. ~(\E n \in DOMAIN mem.tree.nodes : mem.tree.nodes[n].phase = "Running" /\ mem.tree.nodes[n].task = t)
        BY <3>2, <4>1 DEF InFlight, InPhase
      <4>3. QED
        BY <3>2, <4>2 DEF Loose, LooseIn
    <3>3. \A t \in Executing' : t \notin InFlight
      BY <3>1 DEF Executing
    <3>4. QED
      BY <1>a, <3>2, <3>3
  <2>2. IsFiniteSet(Loose(mem))
    BY <1>a, CardTypes DEF TypeOK, Loose
  <2>3. Cardinality(Executing') <= lm
    BY <2>1, <2>2, FS_Subset
  <2>4. Lost' = Lost
    BY <1>1, <1>4, LostMoves
  <2>5. Cardinality(Executing') \in Nat
    BY <1>a, CardTypes DEF TypeOK
  <2>6. PICK x \in Nat : x = Cardinality(Executing') /\ x <= lm
    BY <2>3, <2>5
  <2>7. x <= Lost
    BY <1>2, <1>3, <2>6
  <2>8. QED
    BY <2>4, <2>6, <2>7
<1>5. CASE UNCHANGED ledger /\ faults' = faults + 1
  <2>1. ex <= lm + rm
    <3>1. mem.tree \in SearchTree /\ IsFiniteSet(Executing)
      BY <1>a, RunFacts, CardTypes DEF TypeOK
    <3>2. QED
      BY <3>1, TaskOfNode DEF Loose, RunningNodes
  <2>2. Lost' = Lost + Limit
    BY <1>1, <1>5, LostMoves
  <2>3. Executing' = Executing
    BY <1>5 DEF TimeoutStep, Executing, OpenTasks
  <2>4. ex <= Lost + Limit
    BY <1>2, <1>3, <2>1
  <2>5. QED
    BY <2>2, <2>3, <2>4
<1>6. QED
  BY <1>4, <1>5 DEF TimeoutStep

\* What a pass submits goes into its room.
LEMMA PassRoom ==
  ASSUME TypeOK, TypeOK', FrameInv, TreeInv, ParallelInv, PassStep
  PROVE  /\ Cardinality(Loose(api))' + Room <= Cardinality(Loose(api)) + Room'
         /\ Cardinality(RunningNodes(mem))' <= Limit
         /\ Cardinality(Loose(mem))' <= Cardinality(Loose(mem))
<1> DEFINE rm == Cardinality(RunningNodes(mem))
           la == Cardinality(Loose(api))
<1>1. Working /\ Grounded /\ KnownStep /\ api' = api /\ WorkStep
  BY DEF PassStep, KnownStep, WorkStep, Grounded
<1>2. /\ Limit \in Nat /\ Room \in Nat /\ rm \in Nat /\ la \in Nat /\ rm <= Limit /\ Room <= Limit
  BY <1>1, CountTypes, RoomFacts DEF ParallelInv
<1>3. PICK la2 \in Nat, rm2 \in Nat, room2 \in Nat :
        la2 = Cardinality(Loose(api))' /\ rm2 = Cardinality(RunningNodes(mem))' /\ room2 = Room'
  BY CountTypesNext
<1>4. /\ ~NodeStep => la2 <= la
      /\ NodeStep => la2 <= la + 1
  BY <1>1, <1>3, StoredLoose DEF Loose
<1>5. RunningNodes(mem)' = RunningNodes(mem')
  BY DEF RunningNodes, InPhase
<1>a. NodeStep => rm2 = rm + 1
  BY <1>3, <1>5, CopyMoves
<1>b. ~NodeStep => rm2 <= rm
  <2>1. SUFFICES ASSUME ~NodeStep PROVE rm2 <= rm
    OBVIOUS
  <2>2. RunningNodes(mem') \subseteq RunningNodes(mem)
    BY <2>1, CopyMoves
  <2>3. IsFiniteSet(RunningNodes(mem))
    BY OpenAre, CardTypes DEF TypeOK
  <2>4. Cardinality(RunningNodes(mem')) <= rm
    BY <2>2, <2>3, FS_Subset
  <2>5. QED
    BY <1>3, <1>5, <2>4
<1>6. NodeStep => rm < Limit
  <2>1. SUFFICES ASSUME NodeStep PROVE rm < Limit
    OBVIOUS
  <2>2. rm < Search(mem).maxParallel
    BY <2>1 DEF NodeStep, RunningNodes
  <2>3. mem.gen \in Generation /\ mem.gen = api.gen
    BY <1>1, WorkingFacts DEF FrameInv
  <2>4. Search(mem).maxParallel \in Nat
    BY <2>3, SpecFacts DEF Search
  <2>5. mem.gen \in 1 .. mem.gen
    BY <2>3, ConstFacts
  <2>6. Search(mem).maxParallel <= Limit
    BY <2>3, <2>5, ParFacts DEF Search, Limit
  <2>7. QED
    BY <1>2, <2>2, <2>4, <2>6
<1>7. rm2 <= Limit
  <2>1. CASE NodeStep
    BY <1>2, <1>6, <1>a, <2>1
  <2>2. CASE ~NodeStep
    BY <1>2, <1>b, <2>2
  <2>3. QED
    BY <2>1, <2>2
<1>8. Cardinality(Loose(mem))' <= Cardinality(Loose(mem))
  <2>1. Loose(mem)' \subseteq Loose(mem)
    BY CopyMoves DEF Loose
  <2>2. IsFiniteSet(Loose(mem))
    BY OpenAre, CardTypes DEF TypeOK, Loose
  <2>3. QED
    BY <2>1, <2>2, FS_Subset
<1>9. /\ pc' = "persist" => room2 = Limit
      /\ pc' \in {"submit", "plan", "answer", "resubmit"} => room2 = rm2
  <2>1. Limit' = Limit
    BY <1>1 DEF Limit
  <2>2. QED
    BY <1>3, <2>1 DEF Room
<1>10. /\ pc = "collect" => Room = 0
       /\ pc \in {"submit", "plan", "answer", "resubmit"} => Room = rm
  BY RoomFacts
<1>11. la2 + Room <= la + room2
  <2>1. CASE NodeStep
    <3>1. pc' = pc /\ pc \in {"submit", "resubmit"}
      BY <2>1 DEF NodeStep
    <3>2. Room = rm /\ room2 = rm + 1 /\ la2 <= la + 1
      BY <1>4, <1>9, <1>10, <1>a, <2>1, <3>1
    <3>3. QED
      BY <1>2, <3>2
  <2>2. CASE ~NodeStep /\ pc' = "persist"
    BY <1>2, <1>4, <1>9, <2>2
  <2>3. CASE CollectStep /\ pc' # "persist"
    <3>1. pc = "collect" /\ ~NodeStep
      BY <2>3 DEF CollectStep, NodeStep
    <3>2. QED
      BY <1>2, <1>4, <1>10, <3>1
  <2>4. CASE (PlanStep \/ GoStep) /\ pc' # "persist"
    <3>1. /\ mem' = mem /\ pc \in {"submit", "plan", "answer"} /\ pc' \in {"plan", "answer", "resubmit"}
      BY <2>4 DEF PlanStep, GoStep
    <3>2. ~NodeStep
      BY <2>4, <3>1 DEF PlanStep, GoStep, NodeStep
    <3>3. rm2 = rm
      BY <1>3, <1>5, <3>1
    <3>4. QED
      BY <1>2, <1>4, <1>9, <1>10, <3>1, <3>2, <3>3
  <2>5. CASE GrowStep /\ pc' # "persist"
    <3>1. pc = "answer" /\ pc' = "resubmit" /\ ~NodeStep
      BY <2>5 DEF GrowStep, NodeStep
    <3>2. RunningNodes(mem) = {} /\ RunningNodes(mem') = {}
      BY <2>5, CopyMoves
    <3>3. rm = 0 /\ rm2 = 0
      BY <1>3, <1>5, <3>2, FS_EmptySet
    <3>4. QED
      BY <1>2, <1>4, <1>9, <1>10, <3>1, <3>3
  <2>6. CASE (CountStep \/ FailStep \/ TimeoutStep) /\ pc' # "persist"
    BY <2>6 DEF CountStep, FailStep, TimeoutStep
  <2>7. QED
    BY <2>1, <2>2, <2>3, <2>4, <2>5, <2>6 DEF PassStep
<1>12. QED
  BY <1>3, <1>7, <1>8, <1>11

LEMMA ParallelStep ==
  ASSUME TypeOK, TypeOK', FrameInv, TreeInv, ParallelInv, KnownStep
  PROVE  ParallelInv'
<1> DEFINE ra == Cardinality(RunningNodes(api))
           rm == Cardinality(RunningNodes(mem))
           la == Cardinality(Loose(api))
           lm == Cardinality(Loose(mem))
           ex == Cardinality(Executing)
<1>1. /\ Limit \in Nat /\ Lost \in Nat /\ Forgiven \in Nat /\ Owed \in Nat /\ Room \in Nat
      /\ ra \in Nat /\ rm \in Nat /\ la \in Nat /\ lm \in Nat /\ ex \in Nat
  BY CountTypes
<1>2. PICK P \in Nat, Q \in Nat, d \in Nat, o \in Nat, room \in Nat :
        P = Limit' /\ Q = Lost' /\ d = Forgiven' /\ o = Owed' /\ room = Room'
  BY CountTypesNext
<1>3. PICK ra2 \in Nat, rm2 \in Nat, la2 \in Nat, lm2 \in Nat, ex2 \in Nat :
        /\ ra2 = Cardinality(RunningNodes(api))' /\ rm2 = Cardinality(RunningNodes(mem))'
        /\ la2 = Cardinality(Loose(api))' /\ lm2 = Cardinality(Loose(mem))' /\ ex2 = Cardinality(Executing)'
  BY CountTypesNext
<1>4. /\ ra <= Limit
      /\ Grounded => rm <= Limit
      /\ pc = "idle" => la <= Lost + Forgiven
      /\ pc # "idle" => la + Owed <= Lost + Room
      /\ pc # "idle" /\ memFresh => lm <= Lost
      /\ api.reason = "Timeout" => ex <= Lost + Forgiven
      /\ pc = "persist" /\ memFresh /\ mem.reason = "Timeout" => ex <= Lost
  BY DEF ParallelInv
<1>5. SUFFICES
        /\ ra2 <= P
        /\ Grounded' => rm2 <= P
        /\ pc' = "idle" => la2 <= Q + d
        /\ pc' # "idle" => la2 + o <= Q + room
        /\ pc' # "idle" /\ memFresh' => lm2 <= Q
        /\ api'.reason = "Timeout" => ex2 <= Q + d
        /\ pc' = "persist" /\ memFresh' /\ mem'.reason = "Timeout" => ex2 <= Q
  BY <1>2, <1>3 DEF ParallelInv
<1>6. /\ Room <= Limit
      /\ pc \in {"idle", "load", "collect"} => Room = 0
      /\ pc = "persist" => Room = Limit
  BY RoomFacts
<1>7. /\ pc' \in {"idle", "load", "collect"} => room = 0
      /\ pc' = "persist" => room = P
  BY <1>2 DEF Room
<1>8. memFresh \in BOOLEAN /\ memFresh' \in BOOLEAN /\ api.deleting \in BOOLEAN /\ api'.deleting \in BOOLEAN
  BY RunFacts DEF TypeOK
<1>9. /\ api.deleting => Forgiven = Limit /\ Owed = 0
      /\ ~api.deleting => Forgiven = 0
      /\ memFresh => Owed = 0
      /\ ~memFresh /\ ~api.deleting => Owed = Limit
      /\ api'.deleting => d = P /\ o = 0
      /\ ~api'.deleting => d = 0
      /\ memFresh' => o = 0
      /\ ~memFresh' /\ ~api'.deleting => o = P
  BY <1>2 DEF Forgiven, Owed
<1>10. Forgiven <= Limit /\ Owed <= Limit /\ d <= P /\ o <= P
  BY <1>1, <1>8, <1>9
<1>a. ASSUME ~NodeStep
      PROVE  ex2 <= ex /\ (api'.tree = api.tree => ra2 = ra /\ la2 <= la) /\ (mem'.tree = mem.tree => rm2 = rm /\ lm2 <= lm)
  <2>1. Executing \subseteq TaskIds /\ Executing' \subseteq Executing
    BY <1>a, OpenAre, ExecutingMoves
  <2>2. ex2 <= ex
    BY <1>3, <2>1, FewerLoose
  <2>3. api'.tree = api.tree => ra2 = ra /\ la2 <= la
    BY <1>3, <2>1, FewerLoose DEF RunningNodes, Loose
  <2>4. mem'.tree = mem.tree => rm2 = rm /\ lm2 <= lm
    BY <1>3, <2>1, FewerLoose DEF RunningNodes, Loose
  <2>5. QED
    BY <2>2, <2>3, <2>4
<1>b. api'.gen = api.gen => /\ P = Limit
                            /\ faults' = faults => Q = Lost
                            /\ faults' = faults + 1 => Q = Lost + Limit
  BY <1>2, LostMoves
<1> HIDE DEF ra, rm, la, lm, ex
<1>11. CASE QuietStep
  <2>1. /\ UNCHANGED <<api, mem, pc>>
        /\ \/ memFresh' = memFresh /\ faults' \in {faults, faults + 1}
           \/ ~memFresh' /\ faults' = faults + 1
    BY <1>11 DEF QuietStep
  <2>2. CASE NodeStep
    <3>1. mem' # mem
      <4>1. PICK n \in InPhase(mem.tree, "Pending") : mem'.tree.nodes[n].phase = "Running"
        BY <2>2 DEF NodeStep
      <4>2. QED
        BY <4>1 DEF InPhase
    <3>2. QED
      BY <2>1, <3>1
  <2>3. CASE ~NodeStep
    <3>1. ra2 = ra /\ rm2 = rm /\ la2 <= la /\ lm2 <= lm /\ ex2 <= ex /\ P = Limit
      BY <1>a, <1>b, <2>1, <2>3
    <3>2. room = Room
      BY <1>2, <2>1, <3>1 DEF Room, RunningNodes, InPhase
    <3>3. d = Forgiven
      BY <1>8, <1>9, <2>1, <3>1
    <3>4. CASE memFresh' = memFresh /\ faults' \in {faults, faults + 1}
      <4>1. o = Owed /\ Grounded' = Grounded
        BY <1>8, <1>9, <2>1, <3>1, <3>4 DEF Grounded, Working
      <4>2. Q \in {Lost, Lost + Limit}
        BY <1>b, <2>1, <3>4
      <4>3. /\ ra2 <= P
            /\ Grounded' => rm2 <= P
        BY <1>4, <3>1, <4>1
      <4>4. Lost <= Q
        BY <1>1, <4>2
      <4>5. pc' = "idle" => la2 <= Q + d
        BY <1>1, <1>4, <2>1, <3>1, <3>3, <4>4
      <4>6. pc' # "idle" => la2 + o <= Q + room
        BY <1>1, <1>4, <2>1, <3>1, <3>2, <4>1, <4>4
      <4>7. pc' # "idle" /\ memFresh' => lm2 <= Q
        BY <1>1, <1>4, <2>1, <3>1, <3>4, <4>4
      <4>8. api'.reason = "Timeout" => ex2 <= Q + d
        BY <1>1, <1>4, <2>1, <3>1, <3>3, <4>4
      <4>9. pc' = "persist" /\ memFresh' /\ mem'.reason = "Timeout" => ex2 <= Q
        BY <1>1, <1>4, <2>1, <3>1, <3>4, <4>4
      <4>10. QED
        BY <4>3, <4>5, <4>6, <4>7, <4>8, <4>9
    <3>5. CASE ~memFresh' /\ faults' = faults + 1
      <4>1. Q = Lost + Limit
        BY <1>b, <2>1, <3>5
      <4>2. Grounded' => Grounded
        BY <2>1, <3>5 DEF Grounded, Working
      <4>3. /\ ra2 <= P
            /\ Grounded' => rm2 <= P
        BY <1>4, <3>1, <4>2
      <4>4. pc' = "idle" => la2 <= Q + d
        BY <1>1, <1>4, <2>1, <3>1, <3>3, <4>1
      <4>5. pc' # "idle" => la2 + o <= Q + room
        BY <1>1, <1>4, <1>10, <2>1, <3>1, <3>2, <4>1
      <4>6. api'.reason = "Timeout" => ex2 <= Q + d
        BY <1>1, <1>4, <2>1, <3>1, <3>3, <4>1
      <4>7. QED
        BY <3>5, <4>3, <4>4, <4>5, <4>6
    <3>6. QED
      BY <2>1, <3>4, <3>5
  <2>4. QED
    BY <2>2, <2>3
<1>12. CASE DeleteStep
  <2>1. /\ UNCHANGED <<mem, pc, faults, issued>> /\ api'.tree = api.tree /\ api'.gen = api.gen /\ api'.reason = api.reason
        /\ ~api.deleting /\ api'.deleting /\ ~memFresh'
    BY <1>12 DEF DeleteStep, Keeps, SameElsewhere
  <2>2. ~NodeStep
    <3>1. SUFFICES ASSUME NodeStep PROVE FALSE
      OBVIOUS
    <3>2. PICK n \in InPhase(mem.tree, "Pending") : mem'.tree.nodes[n].phase = "Running"
      BY <3>1 DEF NodeStep
    <3>3. QED
      BY <2>1, <3>2 DEF InPhase
  <2>3. ra2 = ra /\ rm2 = rm /\ la2 <= la /\ ex2 <= ex /\ P = Limit /\ Q = Lost
    BY <1>a, <1>b, <2>1, <2>2
  <2>4. room = Room
    BY <1>2, <2>1, <2>3 DEF Room, RunningNodes, InPhase
  <2>5. d = Limit /\ o = 0 /\ Forgiven = 0
    BY <1>9, <2>1, <2>3
  <2>6. Grounded' => Grounded
    BY <2>1 DEF Grounded, Working
  <2>7. /\ ra2 <= P
        /\ Grounded' => rm2 <= P
    BY <1>4, <2>3, <2>6
  <2>8. /\ pc' = "idle" => la2 <= Q + d
        /\ pc' # "idle" => la2 + o <= Q + room
    BY <1>1, <1>4, <2>1, <2>3, <2>4, <2>5
  <2>9. api'.reason = "Timeout" => ex2 <= Q + d
    BY <1>1, <1>4, <2>1, <2>3, <2>5
  <2>10. QED
    BY <2>1, <2>7, <2>8, <2>9
<1>13. CASE EndStep
  <2>1. /\ pc' = "idle" /\ api'.tree = api.tree /\ api'.gen = api.gen /\ api'.reason = api.reason
        /\ api'.deleting = api.deleting
        /\ \/ pc \in {"idle", "load"} /\ faults' \in {faults, faults + 1}
           \/ pc = "persist" /\ ~memFresh /\ faults' = faults
           \/ pc # "idle" /\ faults' = faults + 1
    BY <1>13 DEF EndStep, Keeps
  <2>2. ~NodeStep /\ ~Grounded'
    BY <2>1 DEF NodeStep, Grounded, Working
  <2>3. ra2 = ra /\ la2 <= la /\ ex2 <= ex /\ P = Limit
    BY <1>a, <1>b, <2>1, <2>2
  <2>4. d = Forgiven
    BY <1>8, <1>9, <2>1, <2>3
  <2>5. Q \in {Lost, Lost + Limit}
    BY <1>b, <2>1
  <2>6. Lost <= Q
    BY <1>1, <2>5
  <2>7. ra2 <= P
    BY <1>4, <2>3
  <2>8. api'.reason = "Timeout" => ex2 <= Q + d
    BY <1>1, <1>4, <2>1, <2>3, <2>4, <2>6
  <2>9. la2 <= Q + d
    <3>1. CASE pc = "idle"
      BY <1>1, <1>4, <2>3, <2>4, <2>6, <3>1
    <3>2. CASE pc = "load"
      BY <1>1, <1>4, <1>6, <2>3, <2>6, <3>2
    <3>3. CASE pc = "persist" /\ ~memFresh /\ faults' = faults
      <4>1. Forgiven + Owed = Limit
        BY <1>1, <1>8, <1>9, <3>3
      <4>2. la + Owed <= Lost + Limit
        BY <1>4, <1>6, <3>3
      <4>3. QED
        BY <1>1, <2>3, <2>4, <2>6, <4>1, <4>2
    <3>4. CASE pc # "idle" /\ faults' = faults + 1
      <4>1. Q = Lost + Limit
        BY <1>b, <2>1, <3>4
      <4>2. la + Owed <= Lost + Room
        BY <1>4, <3>4
      <4>3. QED
        BY <1>1, <1>6, <2>3, <4>1, <4>2
    <3>5. QED
      BY <2>1, <3>1, <3>2, <3>3, <3>4
  <2>10. QED
    BY <2>1, <2>2, <2>7, <2>8, <2>9
<1>14. CASE LoadStep
  <2>1. /\ pc = "idle" /\ pc' = "load" /\ api'.tree = api.tree /\ api'.gen = api.gen /\ api'.reason = api.reason
        /\ api'.deleting = api.deleting
        /\ \/ memFresh' /\ mem' = api' /\ faults' = faults + 1
           \/ memFresh' /\ mem' = api' /\ faults' = faults /\ ~api.deleting
           \/ ~memFresh' /\ faults' = faults + 1
    BY <1>14 DEF LoadStep, Keeps
  <2>2. ~NodeStep
    BY <2>1 DEF NodeStep
  <2>3. ra2 = ra /\ la2 <= la /\ ex2 <= ex /\ P = Limit /\ room = 0
    BY <1>7, <1>a, <1>b, <2>1, <2>2
  <2>4. d = Forgiven
    BY <1>8, <1>9, <2>1, <2>3
  <2>5. memFresh' => rm2 = ra2 /\ lm2 = la2
    BY <1>3, <2>1 DEF RunningNodes, Loose, InPhase
  <2>6. Grounded' => memFresh'
    BY <2>1 DEF Grounded, Working
  <2>7. Q \in {Lost, Lost + Limit}
    BY <1>b, <2>1
  <2>8. Lost <= Q
    BY <1>1, <2>7
  <2>9. la2 + o <= Q
    <3>1. la <= Lost + Forgiven
      BY <1>4, <2>1
    <3>2. CASE memFresh' /\ faults' = faults /\ ~api.deleting
      <4>1. o = 0 /\ Forgiven = 0
        BY <1>9, <3>2
      <4>2. QED
        BY <1>1, <2>3, <2>8, <3>1, <4>1
    <3>3. CASE faults' = faults + 1
      <4>1. Q = Lost + Limit
        BY <1>b, <2>1, <3>3
      <4>2. Forgiven + o <= Limit
        BY <1>1, <1>8, <1>9, <1>10, <2>1, <2>3
      <4>3. QED
        BY <1>1, <2>3, <3>1, <4>1, <4>2
    <3>4. QED
      BY <2>1, <3>2, <3>3
  <2>10. ra2 <= P /\ (Grounded' => rm2 <= P)
    BY <1>4, <2>3, <2>5, <2>6
  <2>11. memFresh' => lm2 <= Q
    BY <1>1, <2>5, <2>9
  <2>12. api'.reason = "Timeout" => ex2 <= Q + d
    BY <1>1, <1>4, <2>1, <2>3, <2>4, <2>8
  <2>13. la2 + o <= Q + room
    BY <2>3, <2>9
  <2>14. QED
    BY <2>1, <2>10, <2>11, <2>12, <2>13
<1>15. CASE OrphanStep
  <2>1. /\ pc = "load" /\ pc' = "persist" /\ UNCHANGED <<api, memFresh, faults>>
        /\ mem'.tree = mem.tree /\ mem'.reason = "Rejected"
    BY <1>15 DEF OrphanStep, EndedBy
  <2>2. ~NodeStep
    BY <2>1 DEF NodeStep
  <2>3. ra2 = ra /\ rm2 = rm /\ la2 <= la /\ lm2 <= lm /\ ex2 <= ex /\ P = Limit /\ Q = Lost /\ room = P /\ Room = 0
    BY <1>6, <1>7, <1>a, <1>b, <2>1, <2>2
  <2>4. d = Forgiven /\ o = Owed
    BY <1>8, <1>9, <2>1, <2>3
  <2>5. Grounded' => Grounded
    BY <2>1 DEF Grounded, Working
  <2>6. ra2 <= P /\ (Grounded' => rm2 <= P)
    BY <1>4, <2>3, <2>5
  <2>7. la2 + o <= Q + room
    BY <1>1, <1>4, <2>1, <2>3, <2>4
  <2>8. memFresh' => lm2 <= Q
    BY <1>1, <1>4, <2>1, <2>3
  <2>9. api'.reason = "Timeout" => ex2 <= Q + d
    BY <1>1, <1>4, <2>1, <2>3, <2>4
  <2>10. QED
    BY <2>1, <2>6, <2>7, <2>8, <2>9
<1>16. CASE SnapStep
  <2>1. /\ pc = "load" /\ pc' = "collect" /\ memFresh /\ memFresh' /\ UNCHANGED faults
        /\ team \in Generation /\ api'.gen = team /\ mem' = api'
        /\ api'.tree = api.tree /\ api'.reason = api.reason /\ api'.deleting = api.deleting
    BY <1>16 DEF SnapStep
  <2>2. ~NodeStep
    BY <2>1 DEF NodeStep
  <2>3. ra2 = ra /\ la2 <= la /\ ex2 <= ex /\ room = 0 /\ Room = 0 /\ o = 0 /\ Owed = 0
    BY <1>6, <1>7, <1>9, <1>a, <2>1, <2>2
  <2>4. rm2 = ra2 /\ lm2 = la2
    BY <1>3, <2>1 DEF RunningNodes, Loose, InPhase
  <2>5. Limit <= P
    <3>1. team # NoTeam /\ api.gen <= team
      BY <2>1, ConstFacts DEF FrameInv
    <3>2. api.gen \in Generation \cup {NoTeam}
      BY RunFacts DEF TypeOK
    <3>3. QED
      BY <1>2, <2>1, <3>1, <3>2, ParGrows DEF Limit
  <2>6. Lost <= Q
    <3>1. faults \in Nat
      BY Numbers
    <3>2. Q = P * faults
      BY <1>2, <2>1 DEF Lost
    <3>3. Limit * faults <= P * faults
      BY <1>1, <2>5, <3>1, Multiples
    <3>4. QED
      BY <3>2, <3>3 DEF Lost
  <2>7. Forgiven <= d
    BY <1>1, <1>8, <1>9, <2>1, <2>5
  <2>8. la <= Lost
    BY <1>1, <1>4, <2>1, <2>3
  <2>9. ra2 <= P /\ rm2 <= P
    BY <1>1, <1>4, <2>3, <2>4, <2>5
  <2>10. la2 + o <= Q + room /\ lm2 <= Q
    BY <1>1, <2>3, <2>4, <2>6, <2>8
  <2>11. api'.reason = "Timeout" => ex2 <= Q + d
    BY <1>1, <1>4, <2>1, <2>3, <2>6, <2>7
  <2>12. QED
    BY <2>1, <2>9, <2>10, <2>11
<1>17. CASE StoreStep
  <2>1. pc = "persist" /\ memFresh /\ UNCHANGED faults /\ api' = mem /\ pc' = "idle"
    BY <1>17 DEF StoreStep
  <2>2. ~NodeStep /\ ~Grounded' /\ Grounded /\ api'.gen = api.gen
    BY <2>1 DEF NodeStep, Grounded, Working, FrameInv
  <2>3. ex2 <= ex /\ P = Limit /\ Q = Lost
    BY <1>a, <1>b, <2>1, <2>2
  <2>4. ra2 = rm
    BY <1>3, <2>1 DEF RunningNodes, InPhase, rm
  <2>5. la2 <= lm
    <3>1. Executing \subseteq TaskIds /\ Executing' \subseteq Executing
      BY <2>2, OpenAre, ExecutingMoves
    <3>2. Cardinality(LooseIn(mem.tree.nodes, Executing')) <= lm
      BY <3>1, FewerLoose DEF Loose, lm
    <3>3. QED
      BY <1>3, <2>1, <3>2 DEF Loose
  <2>6. lm <= Lost /\ rm <= Limit
    BY <1>4, <2>1, <2>2
  <2>7. la2 <= Q + d
    BY <1>1, <2>3, <2>5, <2>6
  <2>8. api'.reason = "Timeout" => ex2 <= Q + d
    BY <1>1, <1>4, <2>1, <2>3
  <2>9. QED
    BY <2>1, <2>2, <2>3, <2>4, <2>6, <2>7, <2>8
<1>18. CASE PassStep
  <2>1. /\ Working /\ pc # "idle" /\ pc' # "idle" /\ UNCHANGED <<api, memFresh>> /\ faults' \in {faults, faults + 1}
    BY <1>18 DEF PassStep, WorkStep, Working
  <2>2. P = Limit /\ Q \in {Lost, Lost + Limit}
    BY <1>b, <2>1
  <2>3. Lost <= Q
    BY <1>1, <2>2
  <2>4. o = Owed
    BY <1>8, <1>9, <2>1, <2>2
  <2>5. ra2 = ra
    BY <1>3, <2>1 DEF RunningNodes, InPhase, ra
  <2>6. la2 + Room <= la + room /\ rm2 <= P /\ lm2 <= lm
    BY <1>2, <1>3, <1>18, <2>2, PassRoom DEF la, lm
  <2>7. la2 + o <= Q + room
    <3>1. la + Owed <= Lost + Room
      BY <1>4, <2>1
    <3>2. QED
      BY <1>1, <2>3, <2>4, <2>6, <3>1
  <2>8. memFresh' => lm2 <= Q
    BY <1>1, <1>4, <2>1, <2>3, <2>6
  <2>9. api'.reason # "Timeout"
    <3>1. api.reason = ""
      BY <2>1 DEF FrameInv, Unsolved
    <3>2. QED
      BY <2>1, <3>1
  <2>10. pc' = "persist" /\ memFresh' /\ mem'.reason = "Timeout" => ex2 <= Q
    <3>1. SUFFICES ASSUME pc' = "persist", memFresh', mem'.reason = "Timeout" PROVE ex2 <= Q
      OBVIOUS
    <3>2. mem.reason = ""
      BY <2>1, WorkingFacts
    <3>3. TimeoutStep
      BY <1>18, <3>1, <3>2
         DEF PassStep, CollectStep, NodeStep, PlanStep, GoStep, CountStep, FailStep, GrowStep, EndedBy
    <3>4. QED
      BY <1>2, <1>3, <1>18, <2>1, <3>1, <3>3, TimeoutLeaves
  <2>11. ra2 <= P
    BY <1>4, <2>2, <2>5
  <2>12. QED
    BY <2>1, <2>6, <2>7, <2>8, <2>9, <2>10, <2>11
<1>19. QED
  BY <1>11, <1>12, <1>13, <1>14, <1>15, <1>16, <1>17, <1>18 DEF KnownStep

LEMMA ParallelIsBounded ==
  ASSUME TypeOK, FrameInv, ParallelInv
  PROVE  ParallelBound /\ TimeoutCancels
<1> DEFINE ra == Cardinality(RunningNodes(api))
           rm == Cardinality(RunningNodes(mem))
           la == Cardinality(Loose(api))
           lm == Cardinality(Loose(mem))
           ex == Cardinality(Executing)
<1>1. /\ Limit \in Nat /\ Lost \in Nat /\ Forgiven \in Nat /\ Owed \in Nat /\ Room \in Nat
      /\ ra \in Nat /\ rm \in Nat /\ la \in Nat /\ lm \in Nat /\ ex \in Nat
  BY CountTypes
<1>2. api \in RunRecord /\ mem \in RunRecord /\ memFresh \in BOOLEAN /\ faults \in Nat /\ Unsolved(api)
  BY Numbers DEF TypeOK, FrameInv
<1>3. ex <= la + ra /\ ex <= lm + rm
  <2>1. api.tree \in SearchTree /\ mem.tree \in SearchTree /\ IsFiniteSet(Executing)
    BY <1>2, OpenAre, RunFacts, CardTypes
  <2>2. QED
    BY <2>1, TaskOfNode DEF Loose, RunningNodes
<1>4. Limit * LostPasses = Lost + Forgiven /\ Limit * (1 + LostPasses) = Limit + Lost + Forgiven
  <2>1. CASE api.deleting
    <3>1. LostPasses = faults + 1 /\ Forgiven = Limit
      BY <2>1 DEF LostPasses, Forgiven
    <3>2. Limit * (faults + 1) = Lost + Limit /\ Limit * (faults + 1 + 1) = Limit * (faults + 1) + Limit
      BY <1>1, <1>2, Multiples DEF Lost
    <3>3. 1 + LostPasses = faults + 1 + 1
      BY <1>2, <3>1
    <3>4. QED
      BY <1>1, <3>1, <3>2, <3>3
  <2>2. CASE ~api.deleting
    <3>1. LostPasses = faults /\ Forgiven = 0
      BY <1>2, <2>2 DEF LostPasses, Forgiven
    <3>2. Limit * (faults + 1) = Lost + Limit /\ 1 + faults = faults + 1
      BY <1>1, <1>2, Multiples DEF Lost
    <3>3. QED
      BY <1>1, <3>1, <3>2 DEF Lost
  <2>3. QED
    BY <2>1, <2>2
<1>5. api.gen # NoTeam => MaxParallel = Limit
  BY DEF MaxParallel, Limit, Par
<1> HIDE DEF la, lm, ra, rm, ex
<1>6. /\ ra <= Limit
      /\ Grounded => rm <= Limit
      /\ pc = "idle" => la <= Lost + Forgiven
      /\ pc # "idle" => la + Owed <= Lost + Room
      /\ pc # "idle" /\ memFresh => lm <= Lost
      /\ api.reason = "Timeout" => ex <= Lost + Forgiven
  BY DEF ParallelInv, la, lm, ra, rm, ex
<1>7. ex <= Limit + Lost + Forgiven
  <2>1. CASE pc = "idle"
    BY <1>1, <1>3, <1>6, <2>1
  <2>2. CASE pc # "idle" /\ memFresh
    <3>1. Grounded
      BY <2>2 DEF TypeOK, Grounded, Working
    <3>2. QED
      BY <1>1, <1>3, <1>6, <2>2, <3>1
  <2>3. CASE pc # "idle" /\ ~memFresh
    <3>1. Owed + Forgiven = Limit
      <4>1. CASE api.deleting
        BY <1>1, <4>1 DEF Owed, Forgiven
      <4>2. CASE ~api.deleting
        BY <1>1, <2>3, <4>2 DEF Owed, Forgiven
      <4>3. QED
        BY <4>1, <4>2
    <3>2. Room <= Limit
      BY RoomFacts
    <3>3. la + Owed <= Lost + Room
      BY <1>6, <2>3
    <3>4. QED
      BY <1>1, <1>3, <1>6, <3>1, <3>2, <3>3
  <2>4. QED
    BY <1>2, <2>1, <2>2, <2>3
<1>8. ParallelBound
  <2>1. SUFFICES ASSUME api.phase = "Running"
                 PROVE  /\ Cardinality(InPhase(api.tree, "Running")) <= MaxParallel
                        /\ Cardinality(Executing) <= MaxParallel * (1 + LostPasses)
    BY DEF ParallelBound
  <2>2. MaxParallel = Limit
    BY <1>2, <1>5, <2>1 DEF Unsolved
  <2>3. QED
    BY <1>4, <1>6, <1>7, <2>2 DEF ra, ex, RunningNodes
<1>9. TimeoutCancels
  <2>1. SUFFICES ASSUME api.reason = "Timeout" PROVE Cardinality(Executing) <= MaxParallel * LostPasses
    BY DEF TimeoutCancels
  <2>2. MaxParallel = Limit
    BY <1>2, <1>5, <2>1 DEF Unsolved
  <2>3. QED
    BY <1>4, <1>6, <2>1, <2>2 DEF ex
<1>10. QED
  BY <1>8, <1>9

\* The limits of spec.search hold for the queue and not only for the tree: up to
\* the tasks of lost passes, no more than maxParallel executor tasks are open,
\* none after a timeout, and the planner was asked as often as its iterations are
\* counted.  For any configurations, edits, planner answers and faults.
THEOREM SearchStaysBounded == Spec => []SearchIsBounded
<1> DEFINE Inv == TypeOK /\ FrameInv /\ TreeInv /\ ParallelInv /\ PlannerInv
<1>1. Init => Inv
  BY InitFacts, InitTree, InitParallel, InitPlanner
<1>2. Inv /\ [Next]_vars => Inv'
  <2>1. SUFFICES ASSUME Inv, [Next]_vars PROVE Inv'
    OBVIOUS
  <2>2. KnownStep /\ TypeOK'
    BY <2>1, EveryKind
  <2>3. FrameInv' /\ TreeInv'
    BY <2>1, <2>2, FrameStep, TreeStep
  <2>4. ParallelInv' /\ PlannerInv'
    BY <2>1, <2>2, ParallelStep, PlannerStep
  <2>5. QED
    BY <2>2, <2>3, <2>4
<1>3. Inv => SearchIsBounded
  BY ParallelIsBounded, PlannerIsBounded DEF SearchIsBounded
<1>4. QED
  BY <1>1, <1>2, <1>3, PTL DEF Spec
=============================================================================
