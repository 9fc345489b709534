------------------------------ MODULE MCSwarmRun ------------------------------
(* Pipelines for TLC. *)
EXTENDS SwarmRun

Plain ==
  [dependsOn |-> {}, cond |-> FALSE, loop |-> 0, loopReads |-> "output",
   schema |-> FALSE, reads |-> {}, attempts |-> 0, lookup |-> FALSE]

\* A loop step, then a validated step with an `if` that depends on it.
Chain ==
  << [Plain EXCEPT !.loop = 1],
     [Plain EXCEPT !.dependsOn = {1}, !.cond = TRUE, !.attempts = 2] >>

\* Two roots, one with an outputSchema and one from a registry lookup, and a
\* step that joins them and uses the .data of the first.
Join ==
  << [Plain EXCEPT !.schema = TRUE], [Plain EXCEPT !.lookup = TRUE],
     [Plain EXCEPT !.dependsOn = {1, 2}, !.cond = TRUE, !.reads = {1}] >>

\* A loop on the step's own .data, and a step that depends on it.
DataLoop ==
  << [Plain EXCEPT !.schema = TRUE, !.loop = 1, !.loopReads = "data"],
     [Plain EXCEPT !.dependsOn = {1}] >>

\* A validated step and one that depends on it.
Validated ==
  << [Plain EXCEPT !.attempts = 2], [Plain EXCEPT !.dependsOn = {1}] >>
=============================================================================
