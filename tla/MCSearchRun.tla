----------------------------- MODULE MCSearchRun -----------------------------
(* Search configurations for TLC. *)
EXTENDS SearchRun

\* A beam of one, one executor at a time and two iterations; then the team is
\* edited: two executors, an evaluator, and a depth or a score ends the search.
Edited ==
  LET beam == [maxNodes |-> 4, maxDepth |-> 0, maxIterations |-> 2,
               maxParallel |-> 1, beamWidth |-> 1, minScore |-> 0,
               hasEvaluator |-> FALSE]
  IN << beam, [beam EXCEPT !.maxDepth = 2, !.minScore = 1,
                           !.maxParallel = 2, !.hasEvaluator = TRUE] >>
=============================================================================
