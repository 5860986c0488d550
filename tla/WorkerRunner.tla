---------------------------- MODULE WorkerRunner ----------------------------
(***************************************************************************)
(* The life of the workers: the loop that starts one for every received    *)
(* configuration and the goroutine each of them runs in                    *)
(* (pkg/service/ncs/worker_runner.go), inside the NetworkControlService     *)
(* instances that pkg/service/service.go runs one after the other           *)
(* (pkg/service/ncs/ncservice.go).                                          *)
(*                                                                         *)
(* A NetworkControlService (NCS) returns from Run without waiting for its   *)
(* worker goroutines, so workers of several NCSs coexist; the semaphore     *)
(* WorkerSem, made once in main.go, is what keeps them apart.               *)
(***************************************************************************)
EXTENDS Naturals, Sequences

CONSTANTS
    MaxNcs,     \* bound: NetworkControlServices started in one run of the process
    MaxWorkers  \* bound: worker goroutines started in one run of the process

ASSUME BoundsAssumption == MaxNcs \in Nat /\ MaxWorkers \in Nat

VARIABLES
    ncs,        \* number of the NCS started last (0: none yet)
    ncsState,   \* what service.Run does with it
    last,       \* lastWorkerID: the id of the worker started last
    pc,         \* where each worker goroutine is
    owner,      \* the NCS that started each worker
    cancelled,  \* workers whose own cancel function was called
    expired,    \* workers whose 10 second timeoutCtx has expired
    holder,     \* the worker that was granted the one permit of WorkerSem
    waiters,    \* goroutines queued in WorkerSem, in FIFO order
    published,  \* getrequestService of each NCS
    exited      \* the worker whose log.Fatal ended the process

vars == <<ncs, ncsState, last, pc, owner, cancelled, expired, holder, waiters,
          published, exited>>

Worker   == 1..MaxWorkers
Ncs      == 1..MaxNcs
NoWorker == 0
NoNcs    == 0

(* Places of a worker goroutine: not started, before Acquire, queued in it, *)
(* past it, about to create the worker service, inside worker.Run, waiting  *)
(* a second to retry, gone.                                                 *)
Pc == {"none", "start", "waiting", "granted", "create", "run", "retry", "done"}

(* From the context check to the return of runWorkerWithConfig.             *)
OnHardware == {"create", "run", "retry"}

TypeOK ==
    /\ ncs \in 0..MaxNcs
    /\ ncsState \in {"idle", "running", "stopping"}
    /\ last \in 0..MaxWorkers
    /\ pc \in [Worker -> Pc]
    /\ owner \in [Worker -> Ncs \cup {NoNcs}]
    /\ cancelled \subseteq Worker
    /\ expired \subseteq Worker
    /\ holder \in Worker \cup {NoWorker}
    /\ waiters \in Seq(Worker)
    /\ published \in [Ncs -> Worker \cup {NoWorker}]
    /\ exited \in Worker \cup {NoWorker}

Init ==
    /\ ncs = 0
    /\ ncsState = "idle"
    /\ last = 0
    /\ pc = [w \in Worker |-> "none"]
    /\ owner = [w \in Worker |-> NoNcs]
    /\ cancelled = {}
    /\ expired = {}
    /\ holder = NoWorker
    /\ waiters = <<>>
    /\ published = [n \in Ncs |-> NoWorker]
    /\ exited = NoWorker

-----------------------------------------------------------------------------
(* The context of worker w is done: its cancel function was called, or the  *)
(* context of its NCS, its parent, was cancelled.                           *)
CtxDone(w) ==
    \/ w \in cancelled
    \/ owner[w] # ncs
    \/ ncsState # "running"

(* timeoutCtx, made in the goroutine from the worker context with a timeout.*)
TimeoutCtxDone(w) == CtxDone(w) \/ w \in expired

(* semaphore.Weighted.Release with one permit: the permit passes to the     *)
(* longest waiting goroutine, if there is one.                              *)
Release ==
    IF waiters = <<>>
    THEN /\ holder' = NoWorker
         /\ UNCHANGED waiters
    ELSE /\ holder' = Head(waiters)
         /\ waiters' = Tail(waiters)

Goto(w, place) == pc' = [pc EXCEPT ![w] = place]

-----------------------------------------------------------------------------
(* service.Run has dialed NetworkControl and calls ncs.Run, which starts    *)
(* runLoadConfig and runWorkers.                                            *)
StartNcs ==
    /\ ncsState = "idle"
    /\ ncs < MaxNcs
    /\ ncs' = ncs + 1
    /\ ncsState' = "running"
    /\ UNCHANGED <<last, pc, owner, cancelled, expired, holder, waiters,
                   published, exited>>

(* The context of the NCS is cancelled: NetworkControl moved                *)
(* (nwControlChanged), the configuration loader gave up (errgroup), or the  *)
(* process is asked to stop.                                                *)
CancelNcs ==
    /\ ncsState = "running"
    /\ ncsState' = "stopping"
    /\ UNCHANGED <<ncs, last, pc, owner, cancelled, expired, holder, waiters,
                   published, exited>>

(* StopWorkers without the test that a cancel function has been assigned.   *)
StopWorkersNoNilCheck ==
    /\ ncsState = "stopping"
    /\ ncsState' = "idle"
    /\ cancelled' = cancelled \cup {last}
    /\ UNCHANGED <<ncs, last, pc, owner, expired, holder, waiters, published,
                   exited>>

(* runWorkers takes ctx.Done, cancels its worker and returns; so does       *)
(* runLoadConfig, and with both gone ncs.Run returns. The worker goroutines *)
(* are not waited for.                                                      *)
StopWorkers ==
    /\ ncsState = "stopping"
    /\ ncsState' = "idle"
    /\ cancelled' = cancelled \cup {w \in Worker : w = last /\ owner[w] = ncs}
    /\ UNCHANGED <<ncs, last, pc, owner, expired, holder, waiters, published,
                   exited>>

(* runWorkers without the call of cancel for the previous worker.           *)
ReceiveConfigNoCancel ==
    /\ ncsState # "idle"
    /\ last < MaxWorkers
    /\ last' = last + 1
    /\ owner' = [owner EXCEPT ![last + 1] = ncs]
    /\ Goto(last + 1, "start")
    /\ UNCHANGED <<ncs, ncsState, cancelled, expired, holder, waiters,
                   published, exited>>

(* runWorkers takes a non-nil configuration from configChanged: it cancels  *)
(* the previous worker of this NCS and starts a goroutine for a new one. A  *)
(* select with both channels ready takes either, so this also happens when  *)
(* the context is already done. (A nil configuration only logs.)            *)
ReceiveConfig ==
    /\ ncsState # "idle"
    /\ last < MaxWorkers
    /\ cancelled' = cancelled \cup {w \in Worker : w = last /\ owner[w] = ncs}
    /\ last' = last + 1
    /\ owner' = [owner EXCEPT ![last + 1] = ncs]
    /\ Goto(last + 1, "start")
    /\ UNCHANGED <<ncs, ncsState, expired, holder, waiters, published, exited>>

-----------------------------------------------------------------------------
(* Acquire finds a free permit and nobody queued for it.                    *)
AcquireNow(w) ==
    /\ pc[w] = "start"
    /\ ~TimeoutCtxDone(w)
    /\ holder = NoWorker
    /\ waiters = <<>>
    /\ holder' = w
    /\ Goto(w, "granted")
    /\ UNCHANGED <<ncs, ncsState, last, owner, cancelled, expired, waiters,
                   published, exited>>

(* Acquire queues the goroutine.                                            *)
AcquireQueued(w) ==
    /\ pc[w] = "start"
    /\ ~TimeoutCtxDone(w)
    /\ holder # NoWorker \/ waiters # <<>>
    /\ waiters' = Append(waiters, w)
    /\ Goto(w, "waiting")
    /\ UNCHANGED <<ncs, ncsState, last, owner, cancelled, expired, holder,
                   published, exited>>

(* The queued goroutine sees that it was granted the permit.                *)
AcquireReturns(w) ==
    /\ pc[w] = "waiting"
    /\ holder = w
    /\ ~TimeoutCtxDone(w)
    /\ Goto(w, "granted")
    /\ UNCHANGED <<ncs, ncsState, last, owner, cancelled, expired, holder,
                   waiters, published, exited>>

(* Ten seconds pass before a queued goroutine is granted the permit.        *)
Expire(w) ==
    /\ pc[w] = "waiting"
    /\ w \notin expired
    /\ expired' = expired \cup {w}
    /\ UNCHANGED <<ncs, ncsState, last, pc, owner, cancelled, holder, waiters,
                   published, exited>>

(* As AcquireFails, but the goroutine only returns.                         *)
AcquireFailsQuietly(w) ==
    /\ pc[w] \in {"start", "waiting"}
    /\ TimeoutCtxDone(w)
    /\ Goto(w, "done")
    /\ IF holder = w
       THEN Release
       ELSE /\ waiters' = SelectSeq(waiters, LAMBDA v : v # w)
            /\ UNCHANGED holder
    /\ UNCHANGED <<ncs, ncsState, last, owner, cancelled, expired, published,
                   exited>>

(* Acquire returns an error because timeoutCtx is done, whatever ended it.  *)
(* The goroutine then tests that same context, so the test always succeeds: *)
(* log.Fatal ends the process, with everything in it.                       *)
AcquireFails(w) ==
    /\ pc[w] \in {"start", "waiting"}
    /\ TimeoutCtxDone(w)
    /\ exited' = w
    /\ UNCHANGED <<ncs, ncsState, last, pc, owner, cancelled, expired, holder,
                   waiters, published>>

(* The context check after Acquire: a cancelled worker leaves at once.      *)
CheckContext(w) ==
    /\ pc[w] = "granted"
    /\ IF CtxDone(w)
       THEN Goto(w, "done") /\ Release
       ELSE Goto(w, "create") /\ UNCHANGED <<holder, waiters>>
    /\ UNCHANGED <<ncs, ncsState, last, owner, cancelled, expired, published,
                   exited>>

(* runWorkerWithConfig makes a worker service, which cannot fail, publishes *)
(* it in its NCS, and calls worker.Run.                                     *)
RunWorker(w) ==
    /\ pc[w] = "create"
    /\ published' = [published EXCEPT ![owner[w]] = w]
    /\ Goto(w, "run")
    /\ UNCHANGED <<ncs, ncsState, last, owner, cancelled, expired, holder,
                   waiters, exited>>

(* RunFails that gives the permit back before it waits.                     *)
RunFailsReleasing(w) ==
    /\ pc[w] = "run"
    /\ ~CtxDone(w)
    /\ published' = [published EXCEPT ![owner[w]] = NoWorker]
    /\ Goto(w, "retry")
    /\ Release
    /\ UNCHANGED <<ncs, ncsState, last, owner, cancelled, expired, exited>>

(* worker.Run returns, with or without error, although its context is live: *)
(* the published service is withdrawn and the run retried after a second.   *)
RunFails(w) ==
    /\ pc[w] = "run"
    /\ ~CtxDone(w)
    /\ published' = [published EXCEPT ![owner[w]] = NoWorker]
    /\ Goto(w, "retry")
    /\ UNCHANGED <<ncs, ncsState, last, owner, cancelled, expired, holder,
                   waiters, exited>>

(* worker.Run returns after its context was cancelled. getrequestService    *)
(* keeps pointing to it.                                                    *)
RunCancelled(w) ==
    /\ pc[w] = "run"
    /\ CtxDone(w)
    /\ Goto(w, "done")
    /\ Release
    /\ UNCHANGED <<ncs, ncsState, last, owner, cancelled, expired, published,
                   exited>>

(* worker.Run panics; runWorkerWithConfig recovers and returns, so this     *)
(* worker is not run again. getrequestService keeps pointing to it.         *)
RunPanics(w) ==
    /\ pc[w] = "run"
    /\ Goto(w, "done")
    /\ Release
    /\ UNCHANGED <<ncs, ncsState, last, owner, cancelled, expired, published,
                   exited>>

(* A second has passed.                                                     *)
Retry(w) ==
    /\ pc[w] = "retry"
    /\ Goto(w, "create")
    /\ UNCHANGED <<ncs, ncsState, last, owner, cancelled, expired, holder,
                   waiters, published, exited>>

(* The context ends while the worker waits to retry.                        *)
RetryCancelled(w) ==
    /\ pc[w] = "retry"
    /\ CtxDone(w)
    /\ Goto(w, "done")
    /\ Release
    /\ UNCHANGED <<ncs, ncsState, last, owner, cancelled, expired, published,
                   exited>>

-----------------------------------------------------------------------------
(* What the scheduler owes a goroutine that can take a step. That           *)
(* worker.Run ends, by cancellation or otherwise, is owed by nobody: it     *)
(* waits for objects that may be busy with their hardware.                  *)
Scheduled(w) ==
    \/ AcquireNow(w)
    \/ AcquireQueued(w)
    \/ AcquireReturns(w)
    \/ AcquireFails(w)
    \/ CheckContext(w)
    \/ RunWorker(w)
    \/ Retry(w)
    \/ RetryCancelled(w)

WorkerStep(w) ==
    \/ Scheduled(w)
    \/ Expire(w)
    \/ RunFails(w)
    \/ RunCancelled(w)
    \/ RunPanics(w)

NcsStep ==
    \/ StartNcs
    \/ CancelNcs
    \/ StopWorkers
    \/ ReceiveConfig

(* After the exit nothing in the process takes a step.                      *)
Next ==
    /\ exited = NoWorker
    /\ NcsStep \/ \E w \in Worker : WorkerStep(w)

(* Runnable goroutines are scheduled, timers fire, and runWorkers sees that *)
(* its context is done. Configurations, cancellations and the end of        *)
(* worker.Run come when they come.                                          *)
Fairness ==
    /\ \A w \in Worker :
          /\ WF_vars(exited = NoWorker /\ Scheduled(w))
          /\ WF_vars(exited = NoWorker /\ Expire(w))
    /\ WF_vars(exited = NoWorker /\ StopWorkers)

Spec == Init /\ [][Next]_vars

FairSpec == Spec /\ Fairness

-----------------------------------------------------------------------------
(* At most one worker is between its context check and its end, whichever   *)
(* NCS started it: two workers must never drive the same I2C bus. This is   *)
(* what workerSem is held for in the goroutine of runWorkers.               *)
OneWorkerOnHardware ==
    \A v, w \in Worker :
        pc[v] \in OnHardware /\ pc[w] \in OnHardware => v = w

(* A configuration is put on the hardware only while it is the newest one:  *)
(* when a worker passes its context check no newer worker exists, so the    *)
(* hardware never goes back from a newer configuration to an older one, in  *)
(* whatever order the goroutines reach the semaphore.                       *)
NewestConfigOnHardware ==
    [][\A w \in Worker :
          pc[w] \notin OnHardware /\ pc'[w] \in OnHardware => w = last]_vars

(* While worker.Run runs, the NCS that started the worker hands out this    *)
(* worker's request service and no other (ncs.getrequestService), although  *)
(* the field is written by goroutines of all workers without a lock.        *)
RunningIsPublished ==
    \A w \in Worker : pc[w] = "run" => published[owner[w]] = w

(* A received configuration that is not superseded ends up running, or the  *)
(* process exits to be restarted: a worker that does not let go of the      *)
(* hardware cannot block its successors for good (the 10 second timeout of  *)
(* the goroutine in runWorkers).                                            *)
ConfigTakesEffect ==
    \A w \in Worker :
        pc[w] = "start" ~> pc[w] = "run" \/ CtxDone(w) \/ exited # NoWorker

(* The process exits only when the permit could not be had in time, as the  *)
(* message of log.Fatal in runWorkers says.                                 *)
ExitsOnlyOnTimeout == exited # NoWorker => exited \in expired
=============================================================================
