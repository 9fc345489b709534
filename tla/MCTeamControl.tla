---------------------------- MODULE MCTeamControl ----------------------------
(* Teams and agents for TLC. *)
EXTENDS TeamControl

CONSTANTS d1, d2

Role(name, agent, def, replicas) ==
  [name |-> name, agent |-> agent, def |-> def, replicas |-> replicas, concurrent |-> 1, keda |-> FALSE,
   canDelegate |-> {}]

Step(name, deps) == [name |-> name, dependsOn |-> deps]

Base == [mode |-> "pipeline", roles |-> <<Role(1, Nil, d1, 1)>>, pipeline |-> <<Step(1, {})>>, entry |-> Nil,
         search |-> FALSE, store |-> Nil, registry |-> Registry, autoscaling |-> Nil, retain |-> Nil,
         keepSucceeded |-> 1, keepFailed |-> 1]

Zero == [zero |-> TRUE, after |-> 1]

\* A pipeline that scales to zero; one with a cycle; a dynamic team with
\* delegation; a routed team with many runs.  The agents of Base are in the
\* registry too.
Scaled == [Base EXCEPT !.autoscaling = Zero, !.registry = Nil]
Cyclic == [Base EXCEPT !.pipeline = <<Step(1, {1})>>, !.registry = Nil]
Dynamic == [Base EXCEPT !.mode = "dynamic", !.entry = 1, !.pipeline = <<>>,
              !.roles = <<[Role(1, Nil, d1, 1) EXCEPT !.canDelegate = {2}], Role(2, 9, d1, 1)>>,
              !.store = [type |-> "s3", bucket |-> d1, secret |-> d2, claim |-> Nil]]
Routed == [Base EXCEPT !.mode = "routed", !.roles = <<>>, !.pipeline = <<>>, !.retain = 1]

MCFirstWorlds ==
  {[team |-> Base, exists |-> TRUE], [team |-> Scaled, exists |-> FALSE], [team |-> Cyclic, exists |-> FALSE],
   [team |-> Dynamic, exists |-> FALSE], [team |-> Routed, exists |-> FALSE]}

\* Another definition; no cycle; other limits.
MCRevisions(t) ==
  CASE t = Cyclic -> {[t EXCEPT !.pipeline = Base.pipeline]}
    [] t.mode = "pipeline" /\ t # Cyclic -> {[t EXCEPT !.roles = <<Role(1, Nil, d2, 1)>>]}
    [] t.mode = "dynamic" -> {[t EXCEPT !.store = [type |-> "local", claim |-> d1]],
                              [t EXCEPT !.entry = Nil]}
    [] OTHER -> {[t EXCEPT !.keepSucceeded = 0], [t EXCEPT !.retain = Nil]}

\* Two edits change all there is to change.
WithRevisions(ts) == ts \cup UNION {MCRevisions(t) : t \in ts}
MCTeams == WithRevisions(WithRevisions({w.team : w \in MCFirstWorlds}))

MCMaxRuns(t) == CASE t.mode = "dynamic" -> 0 [] t.mode = "pipeline" /\ t.autoscaling = Nil -> 1 [] OTHER -> 2
MCMaxOpen(t) == IF t.autoscaling # Nil THEN 1 ELSE 2
MCLastStart(t) == 1
MCMaxEdits(t) == IF t.autoscaling # Nil THEN 0 ELSE 1

MCOtherAgents == [n \in {9} |-> [def |-> d1, replicas |-> 1, registry |-> Registry, keda |-> FALSE,
                                 caps |-> {[name |-> "c", tags |-> {}]}, ready |-> 1,
                                 notes |-> [NoNotes EXCEPT !.queue = <<"agent", 9>>]]]
=============================================================================
