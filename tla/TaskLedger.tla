----------------------------- MODULE TaskLedger -----------------------------
(***************************************************************************)
(* What the task queue promises the SwarmRun controller, which knows a     *)
(* task only by the ID that Submit returned and by what Results says of    *)
(* it: a task is submitted once, is open until it has a result, and its    *)
(* result then stands, except that the controller may cancel the task and  *)
(* that an agent already working on a cancelled task may still answer.     *)
(***************************************************************************)
CONSTANT Tasks          \* the tasks the controller may submit

VARIABLE ledger         \* what the controller can know of every task

Answer == {"ok", "failed"}

LedgerState == {"absent", "open", "cancelled"} \cup Answer

Init == ledger = [t \in Tasks |-> "absent"]

Submit(t) ==
  /\ ledger[t] = "absent"
  /\ ledger' = [ledger EXCEPT ![t] = "open"]

\* The single answer of a task that is open, or that was cancelled too late.
Settle(t, a) ==
  /\ ledger[t] \in {"open", "cancelled"}
  /\ ledger' = [ledger EXCEPT ![t] = a]

\* Cancel takes the tasks of one queue together.
Cancel(T) ==
  /\ \A t \in T : ledger[t] # "absent"
  /\ ledger' = [t \in Tasks |-> IF t \in T THEN "cancelled" ELSE ledger[t]]

Next ==
  \/ \E t \in Tasks : Submit(t) \/ \E a \in Answer : Settle(t, a)
  \/ \E T \in SUBSET Tasks : Cancel(T)

Spec == Init /\ [][Next]_ledger
=============================================================================
