----------------------------- MODULE MCTaskQueue -----------------------------
(* Instances of TaskQueue for TLC: a pod with one slot and a pod with two. *)
EXTENDS TaskQueue, TLC

CONSTANTS p1, p2, w1, w2, w3

MCPodOf == w1 :> p1 @@ w2 :> p2

MCPodOf3 == w1 :> p1 @@ w2 :> p2 @@ w3 :> p2
==============================================================================
