------------------------------ MODULE Hardware ------------------------------
(***************************************************************************)
(* What the workers of pkg/service/ncs/worker_runner.go are promised of the *)
(* hardware that they share: one of them uses it at a time, and whoever     *)
(* takes it is the newest worker at that moment, so that after its last     *)
(* user the hardware never goes back to an older configuration. How they    *)
(* are kept in this order (a semaphore, contexts, timeouts) is the matter   *)
(* of WorkerRunner, which implements this module.                           *)
(***************************************************************************)
EXTENDS Naturals

CONSTANT NoWorker

VARIABLES
    user,   \* the worker that uses the hardware
    newest  \* the number of the worker started last

vars == <<user, newest>>

Init ==
    /\ user = NoWorker
    /\ newest = 0

(* A configuration comes in and a worker is started for it.                 *)
Configure ==
    /\ newest' = newest + 1
    /\ UNCHANGED user

Take ==
    /\ user = NoWorker
    /\ newest # 0
    /\ user' = newest
    /\ UNCHANGED newest

Leave ==
    /\ user # NoWorker
    /\ user' = NoWorker
    /\ UNCHANGED newest

Next == Configure \/ Take \/ Leave

Spec == Init /\ [][Next]_vars
=============================================================================
