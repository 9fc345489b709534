------------------------------ MODULE RunObject ------------------------------
(***************************************************************************)
(* A SwarmRun as an object of the Kubernetes API and the frame of every    *)
(* reconcile pass over it (internal/controller/swarmrun_controller.go,     *)
(* Reconcile), whatever the mode of the run.                               *)
(*                                                                         *)
(* The controller works on the copy its informer cache holds and writes    *)
(* the status back at the end of the pass, which fails when the object has *)
(* changed since the copy was read.  Modules SwarmRun and SearchRun        *)
(* instantiate this one and add what a pass does in between.               *)
(***************************************************************************)
EXTENDS Integers

CONSTANTS
  NewRun,        \* the run as its user created it
  MaxFaults,     \* bound on crashes, failed calls, stale reads and user edits
  MayDelete      \* may the user delete the run?

VARIABLES
  api,         \* the run as the API server stores it
  cache,       \* the run as the controller's cache holds it
  cacheFresh,  \* is that the stored version?
  mem,         \* the copy the current pass works on
  memFresh,    \* is its resourceVersion still the stored one?
  pc,          \* where the pass is: idle, load, ..., persist
  wake,        \* is the run's key in the controller's work queue?
  faults       \* what is used of MaxFaults

Untouched == UNCHANGED <<api, cache, cacheFresh>>

Terminal(phase) == phase \in {"Succeeded", "Failed"}   \* IsTerminalRunPhase

Fault == faults < MaxFaults /\ faults' = faults + 1

\* The API server stores run: whoever else holds a copy now holds a stale one.
Store(run) ==
  /\ api' = run
  /\ cacheFresh' = IF run = api THEN cacheFresh ELSE FALSE
  /\ UNCHANGED cache

\* A finalizer patch carries no resourceVersion and never conflicts.
WithoutFinalizer(run) ==
  [run EXCEPT !.finalizer = FALSE, !.exists = ~run.deleting]

\* Nothing of a pass outlives it.  A key that was added to the work queue
\* while the pass ran is still there.
PassEnds(again) ==
  /\ pc' = "idle"
  /\ wake' = (again \/ (pc # "idle" /\ wake))
  /\ mem' = NewRun /\ memFresh' = TRUE

ObjectInit ==
  /\ api = NewRun /\ cache = NewRun /\ cacheFresh = TRUE
  /\ mem = NewRun /\ memFresh = TRUE
  /\ pc = "idle" /\ wake = TRUE /\ faults = 0

-----------------------------------------------------------------------------
(* The start of a pass: Get, deletion, finalizer, terminal runs *)

\* A stale cache is counted as a fault.
Get ==
  /\ pc = "idle" /\ wake
  /\ \/ cacheFresh /\ UNCHANGED faults
     \/ ~cacheFresh /\ Fault

GetNotFound ==
  /\ Get
  /\ ~cache.exists
  /\ PassEnds(FALSE)
  /\ Untouched

\* The finalizer goes and with it the object, unless the patch is NotFound.
FinalizeDeletion ==
  /\ Get
  /\ cache.exists /\ cache.deleting
  /\ IF cache.finalizer /\ api.exists
     THEN Store(WithoutFinalizer(api)) ELSE Untouched
  /\ PassEnds(cache.finalizer /\ ~api.exists)

\* The finalizer is added when it is missing; the patch's answer replaces
\* the copy by what the API server stores.
EnsureFinalizer ==
  /\ Get
  /\ cache.exists /\ ~cache.deleting
  /\ \/ /\ cache.finalizer
        /\ mem' = cache /\ memFresh' = cacheFresh /\ pc' = "load"
        /\ wake' = FALSE
        /\ Untouched
     \/ /\ ~cache.finalizer /\ api.exists
        /\ Store([api EXCEPT !.finalizer = TRUE])
        /\ mem' = api' /\ memFresh' = TRUE /\ pc' = "load"
        /\ wake' = FALSE
     \/ /\ ~cache.finalizer /\ ~api.exists
        /\ PassEnds(TRUE)
        /\ Untouched

\* A terminal run has its finalizer removed and is left alone.
RemoveFinalizer ==
  /\ pc = "load" /\ Terminal(mem.phase)
  /\ IF api.exists THEN Store(WithoutFinalizer(api)) ELSE Untouched
  /\ PassEnds(~api.exists)
  /\ UNCHANGED faults

-----------------------------------------------------------------------------
(* The end of a pass: Status().Update *)

\* Stored, and a Running run comes back after runRequeueAfter.
UpdateStatus ==
  /\ pc = "persist" /\ memFresh
  /\ Store(mem)
  /\ PassEnds(mem.phase = "Running")
  /\ UNCHANGED faults

UpdateConflict ==
  /\ pc = "persist" /\ ~memFresh
  /\ PassEnds(TRUE)
  /\ Untouched /\ UNCHANGED faults

-----------------------------------------------------------------------------
(* Everything around the controller *)

\* The operator dies at any point of a pass; its successor lists afresh.
Restart ==
  /\ pc # "idle" /\ Fault
  /\ PassEnds(TRUE)
  /\ cache' = api /\ cacheFresh' = TRUE
  /\ UNCHANGED api

Watch ==
  /\ ~cacheFresh
  /\ cache' = api /\ cacheFresh' = TRUE
  /\ wake' = TRUE
  /\ UNCHANGED <<api, mem, memFresh, pc, faults>>

\* A user's edit that leaves the modelled fields as they are.
Edit ==
  /\ api.exists /\ Fault
  /\ cacheFresh' = FALSE /\ memFresh' = FALSE
  /\ UNCHANGED <<api, cache, mem, pc, wake>>

Delete ==
  /\ MayDelete /\ api.exists /\ ~api.deleting
  /\ api' = [api EXCEPT !.deleting = TRUE, !.exists = api.finalizer]
  /\ cacheFresh' = FALSE /\ memFresh' = FALSE
  /\ UNCHANGED <<cache, mem, pc, wake, faults>>
=============================================================================
