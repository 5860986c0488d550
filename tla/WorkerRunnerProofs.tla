------------------------- MODULE WorkerRunnerProofs -------------------------
(***************************************************************************)
(* Proofs about WorkerRunner, for any number of services and workers.       *)
(*                                                                         *)
(* OneWorkerOnHardware is not inductive: it does not say who has the        *)
(* permit. IInv adds that whoever is past Acquire is the holder, that       *)
(* workers are numbered in the order they start, and that every worker but  *)
(* the last has its context cancelled.                                      *)
(*                                                                         *)
(* The second half looks at the semaphore itself, whose permit is neither   *)
(* lost nor keeps a waiting worker out (PermitIsKept), and shows the runner *)
(* as the shared hardware of the module Hardware.                           *)
(***************************************************************************)
EXTENDS WorkerRunner, TLAPS

Holding == {"granted"} \cup OnHardware

HolderInv == \A w \in Worker : pc[w] \in Holding => holder = w

StartedInv ==
    /\ ncsState # "idle" => ncs # 0
    /\ \A w \in Worker :
          /\ owner[w] <= ncs
          /\ pc[w] # "none" <=> w <= last
          /\ pc[w] # "none" => owner[w] # NoNcs

SupersededInv == \A w \in Worker : w < last => CtxDone(w)

IInv ==
    /\ TypeOK
    /\ HolderInv
    /\ StartedInv
    /\ SupersededInv
    /\ RunningIsPublished

-----------------------------------------------------------------------------
(* Release leaves a worker or nobody as the holder and a queue of workers.  *)
LEMMA ReleaseType ==
    ASSUME TypeOK, Release
    PROVE  /\ holder' \in Worker \cup {NoWorker}
           /\ waiters' \in Seq(Worker)
  BY DEF TypeOK, Release

(* Every step keeps the variables in their types.                           *)
LEMMA TypeStep == ASSUME TypeOK, [Next]_vars PROVE TypeOK'
<1> USE BoundsAssumption DEF TypeOK, Worker, Ncs, NoWorker, NoNcs, Pc, Goto
<1>1. CASE UNCHANGED vars
  BY <1>1 DEF vars
<1>2. CASE NcsStep
  <2>1. CASE StartNcs       BY <2>1 DEF StartNcs
  <2>2. CASE CancelNcs      BY <2>2 DEF CancelNcs
  <2>3. CASE StopWorkers    BY <2>3 DEF StopWorkers
  <2>4. CASE ReceiveConfig
    <3>1. last + 1 \in Worker /\ ncs \in Ncs \cup {NoNcs}
      BY <2>4 DEF ReceiveConfig
    <3>2. pc' \in [Worker -> Pc]
      BY <2>4, <3>1 DEF ReceiveConfig
    <3>3. owner' \in [Worker -> Ncs \cup {NoNcs}]
      BY <2>4, <3>1 DEF ReceiveConfig
    <3>4. last' = last + 1 /\ last + 1 \in 0..MaxWorkers
      BY <2>4, <3>1 DEF ReceiveConfig
    <3>5. cancelled' = cancelled \cup {w \in Worker : w = last /\ owner[w] = ncs}
      BY <2>4 DEF ReceiveConfig
    <3>6. cancelled' \subseteq Worker
      BY <3>5
    <3>7. UNCHANGED <<ncs, ncsState, expired, holder, waiters, published, exited>>
      BY <2>4 DEF ReceiveConfig
    <3> QED
      BY <3>2, <3>3, <3>4, <3>6, <3>7
  <2> QED
    BY <1>2, <2>1, <2>2, <2>3, <2>4 DEF NcsStep
<1>3. ASSUME NEW w \in Worker, WorkerStep(w) PROVE TypeOK'
  <2>1. CASE AcquireNow(w)       BY <2>1 DEF AcquireNow
  <2>2. CASE AcquireQueued(w)    BY <2>2 DEF AcquireQueued
  <2>3. CASE AcquireReturns(w)   BY <2>3 DEF AcquireReturns
  <2>4. CASE AcquireFails(w)     BY <2>4 DEF AcquireFails
  <2>5. CASE CheckContext(w)
    BY <2>5, ReleaseType DEF CheckContext
  <2>6. CASE RunWorker(w)        BY <2>6 DEF RunWorker
  <2>7. CASE Retry(w)            BY <2>7 DEF Retry
  <2>8. CASE RetryCancelled(w)   BY <2>8, ReleaseType DEF RetryCancelled
  <2>9. CASE Expire(w)           BY <2>9 DEF Expire
  <2>10. CASE RunFails(w)        BY <2>10 DEF RunFails
  <2>11. CASE RunCancelled(w)    BY <2>11, ReleaseType DEF RunCancelled
  <2>12. CASE RunPanics(w)       BY <2>12, ReleaseType DEF RunPanics
  <2> QED
    BY <1>3, <2>1, <2>2, <2>3, <2>4, <2>5, <2>6, <2>7, <2>8, <2>9, <2>10,
       <2>11, <2>12 DEF WorkerStep, Scheduled
<1> QED
  BY <1>1, <1>2, <1>3 DEF Next

(* The variables of WorkerRunner have their types (TypeOK).                 *)
THEOREM TypeCorrect == Spec => []TypeOK
<1>1. Init => TypeOK
  BY BoundsAssumption
     DEF Init, TypeOK, Worker, Ncs, NoWorker, NoNcs, Pc
<1> QED
  BY <1>1, TypeStep, PTL DEF Spec

-----------------------------------------------------------------------------
(* A step that puts worker w on its way out and releases the permit leaves  *)
(* nobody else past Acquire.                                                *)
LEMMA LeaveStep ==
    ASSUME TypeOK, HolderInv,
           NEW w \in Worker, pc[w] \in Holding, Goto(w, "done")
    PROVE  HolderInv'
  BY DEF TypeOK, HolderInv, Holding, OnHardware, Goto

LEMMA HolderStep == ASSUME TypeOK, HolderInv, [Next]_vars PROVE HolderInv'
<1> USE DEF Holding, OnHardware, Goto
<1>1. CASE UNCHANGED vars
  BY <1>1 DEF vars, HolderInv
<1>2. CASE NcsStep
  BY <1>2 DEF NcsStep, StartNcs, CancelNcs, StopWorkers, ReceiveConfig, HolderInv,
              TypeOK
<1>3. ASSUME NEW w \in Worker, WorkerStep(w) PROVE HolderInv'
  <2>1. CASE AcquireNow(w)
    <3>1. \A v \in Worker : pc[v] \notin Holding
      BY <2>1 DEF AcquireNow, HolderInv, Worker, NoWorker
    <3> QED
      BY <2>1, <3>1 DEF AcquireNow, HolderInv, TypeOK
  <2>2. CASE AcquireQueued(w)    BY <2>2 DEF AcquireQueued, HolderInv, TypeOK
  <2>3. CASE AcquireReturns(w)   BY <2>3 DEF AcquireReturns, HolderInv, TypeOK
  <2>4. CASE AcquireFails(w)     BY <2>4 DEF AcquireFails, HolderInv, TypeOK
  <2>5. CASE CheckContext(w)
    <3>1. CASE CtxDone(w)        BY <2>5, <3>1, LeaveStep DEF CheckContext
    <3>2. CASE ~CtxDone(w)
      BY <2>5, <3>2 DEF CheckContext, HolderInv, TypeOK
    <3> QED BY <3>1, <3>2
  <2>6. CASE RunWorker(w)        BY <2>6 DEF RunWorker, HolderInv, TypeOK
  <2>7. CASE Retry(w)            BY <2>7 DEF Retry, HolderInv, TypeOK
  <2>8. CASE RetryCancelled(w)   BY <2>8, LeaveStep DEF RetryCancelled
  <2>9. CASE Expire(w)           BY <2>9 DEF Expire, HolderInv, TypeOK
  <2>10. CASE RunFails(w)        BY <2>10 DEF RunFails, HolderInv, TypeOK
  <2>11. CASE RunCancelled(w)    BY <2>11, LeaveStep DEF RunCancelled
  <2>12. CASE RunPanics(w)       BY <2>12, LeaveStep DEF RunPanics
  <2> QED
    BY <1>3, <2>1, <2>2, <2>3, <2>4, <2>5, <2>6, <2>7, <2>8, <2>9, <2>10,
       <2>11, <2>12 DEF WorkerStep, Scheduled
<1> QED
  BY <1>1, <1>2, <1>3 DEF Next

(* Workers are numbered in the order they start and belong to an NCS that   *)
(* has started.                                                             *)
LEMMA StartedStep == ASSUME TypeOK, StartedInv, [Next]_vars PROVE StartedInv'
<1> USE DEF Goto, NoNcs
<1>1. CASE UNCHANGED vars
  BY <1>1 DEF vars, StartedInv
<1>2. CASE NcsStep
  <2>1. CASE StartNcs
    BY <2>1, BoundsAssumption DEF StartNcs, StartedInv, TypeOK, Ncs
  <2>2. CASE CancelNcs      BY <2>2 DEF CancelNcs, StartedInv
  <2>3. CASE StopWorkers    BY <2>3 DEF StopWorkers, StartedInv
  <2>4. CASE ReceiveConfig
    <3>1. last + 1 \in Worker /\ ncs # NoNcs /\ ncs <= ncs
      BY <2>4, BoundsAssumption DEF ReceiveConfig, StartedInv, TypeOK, Worker
    <3>2. \A w \in Worker : w <= last + 1 <=> w <= last \/ w = last + 1
      BY BoundsAssumption DEF TypeOK, Worker
    <3> QED
      BY <2>4, <3>1, <3>2 DEF ReceiveConfig, StartedInv, TypeOK
  <2> QED
    BY <1>2, <2>1, <2>2, <2>3, <2>4 DEF NcsStep
<1>3. ASSUME NEW w \in Worker, WorkerStep(w) PROVE StartedInv'
  <2>1. /\ UNCHANGED <<ncs, ncsState, last, owner>>
        /\ \A v \in Worker : pc'[v] = "none" <=> pc[v] = "none"
    BY <1>3 DEF WorkerStep, Scheduled, AcquireNow, AcquireQueued, AcquireReturns,
         AcquireFails, CheckContext, RunWorker, Retry, RetryCancelled, Expire,
         RunFails, RunCancelled, RunPanics, TypeOK
  <2> QED
    BY <2>1 DEF StartedInv
<1> QED
  BY <1>1, <1>2, <1>3 DEF Next

(* Every worker but the last has its context cancelled.                     *)
LEMMA SupersededStep ==
    ASSUME TypeOK, StartedInv, SupersededInv, [Next]_vars
    PROVE  SupersededInv'
<1> USE DEF CtxDone
<1>1. CASE UNCHANGED vars
  BY <1>1 DEF vars, SupersededInv
<1>2. CASE NcsStep
  <2>1. CASE StartNcs
    <3>1. \A w \in Worker : owner[w] # ncs + 1
      BY BoundsAssumption DEF StartedInv, TypeOK, Ncs, NoNcs
    <3> QED
      BY <2>1, <3>1 DEF StartNcs, SupersededInv
  <2>2. CASE CancelNcs      BY <2>2 DEF CancelNcs, SupersededInv
  <2>3. CASE StopWorkers    BY <2>3 DEF StopWorkers, SupersededInv
  <2>4. CASE ReceiveConfig
    <3>1. \A w \in Worker : w < last + 1 => w < last \/ w = last
      BY BoundsAssumption DEF TypeOK, Worker
    <3>2. \A w \in Worker : w < last + 1 => w # last + 1
      BY BoundsAssumption DEF TypeOK, Worker
    <3> QED
      BY <2>4, <3>1, <3>2 DEF ReceiveConfig, SupersededInv, TypeOK
  <2> QED
    BY <1>2, <2>1, <2>2, <2>3, <2>4 DEF NcsStep
<1>3. ASSUME NEW w \in Worker, WorkerStep(w) PROVE SupersededInv'
  <2>1. UNCHANGED <<ncs, ncsState, last, owner, cancelled>>
    BY <1>3 DEF WorkerStep, Scheduled, AcquireNow, AcquireQueued, AcquireReturns,
         AcquireFails, CheckContext, RunWorker, Retry, RetryCancelled, Expire,
         RunFails, RunCancelled, RunPanics
  <2> QED
    BY <2>1 DEF SupersededInv
<1> QED
  BY <1>1, <1>2, <1>3 DEF Next

(* The published service of an NCS is written only by the worker that has   *)
(* the permit.                                                              *)
LEMMA PublishedStep ==
    ASSUME TypeOK, HolderInv, StartedInv, RunningIsPublished, [Next]_vars
    PROVE  RunningIsPublished'
<1> USE DEF Holding, OnHardware, Goto
<1>1. CASE UNCHANGED vars
  BY <1>1 DEF vars, RunningIsPublished
<1>2. CASE NcsStep
  <2>1. CASE ReceiveConfig
    <3>1. pc[last + 1] = "none"
      BY <2>1, BoundsAssumption DEF ReceiveConfig, StartedInv, TypeOK, Worker
    <3> QED
      BY <2>1, <3>1 DEF ReceiveConfig, RunningIsPublished, TypeOK
  <2> QED
    BY <1>2, <2>1
       DEF NcsStep, StartNcs, CancelNcs, StopWorkers, RunningIsPublished
<1>3. ASSUME NEW w \in Worker, WorkerStep(w) PROVE RunningIsPublished'
  <2>1. CASE RunWorker(w)
    <3>1. \A v \in Worker : pc[v] = "run" => v = w
      BY <2>1 DEF RunWorker, HolderInv
    <3>2. owner[w] \in Ncs
      BY <2>1 DEF RunWorker, StartedInv, TypeOK
    <3> QED
      BY <2>1, <3>1, <3>2 DEF RunWorker, RunningIsPublished, TypeOK
  <2>2. CASE RunFails(w)
    <3>1. \A v \in Worker : pc[v] = "run" => v = w
      BY <2>2 DEF RunFails, HolderInv
    <3> QED
      BY <2>2, <3>1 DEF RunFails, RunningIsPublished, TypeOK
  <2>3. CASE ~RunWorker(w) /\ ~RunFails(w)
    <3>1. /\ UNCHANGED <<owner, published>>
          /\ \A v \in Worker : pc'[v] = "run" => pc[v] = "run"
      BY <1>3, <2>3 DEF WorkerStep, Scheduled, AcquireNow, AcquireQueued,
           AcquireReturns, AcquireFails, CheckContext, Retry, RetryCancelled,
           Expire, RunCancelled, RunPanics, TypeOK
    <3> QED
      BY <3>1 DEF RunningIsPublished
  <2> QED
    BY <2>1, <2>2, <2>3
<1> QED
  BY <1>1, <1>2, <1>3 DEF Next

THEOREM Inductive == Spec => []IInv
<1>1. Init => IInv
  BY BoundsAssumption
     DEF Init, IInv, TypeOK, Worker, Ncs, NoWorker, NoNcs, Pc, HolderInv, Holding,
         OnHardware, StartedInv, SupersededInv, RunningIsPublished
<1>2. IInv /\ [Next]_vars => IInv'
  BY TypeStep, HolderStep, StartedStep, SupersededStep, PublishedStep DEF IInv
<1> QED
  BY <1>1, <1>2, PTL DEF Spec

(* At most one worker has the hardware (OneWorkerOnHardware), for any       *)
(* number of configurations and of NetworkControlServices: of two workers   *)
(* past Acquire both would be the holder of workerSem.                      *)
THEOREM MutualExclusion == Spec => []OneWorkerOnHardware
<1>1. IInv => OneWorkerOnHardware
  BY DEF IInv, HolderInv, Holding, OneWorkerOnHardware
<1> QED
  BY <1>1, Inductive, PTL

(* The worker whose Run runs is the one its NCS publishes                   *)
(* (RunningIsPublished).                                                    *)
THEOREM PublishedCorrect == Spec => []RunningIsPublished
<1>1. IInv => RunningIsPublished
  BY DEF IInv
<1> QED
  BY <1>1, Inductive, PTL

(* Only the newest worker is ever put on the hardware                       *)
(* (NewestConfigOnHardware): the step there tests the context, and that of  *)
(* every older worker is done.                                              *)
THEOREM NewestCorrect == Spec => NewestConfigOnHardware
<1> DEFINE Passes(w) == pc[w] \notin OnHardware /\ pc'[w] \in OnHardware
<1>1. ASSUME IInv, [Next]_vars, NEW w \in Worker, Passes(w) PROVE w = last
  <2>1. pc[w] = "granted" /\ ~CtxDone(w)
    <3>1. CASE UNCHANGED vars
      BY <1>1, <3>1 DEF vars
    <3>2. CASE NcsStep
      BY <1>1, <3>2 DEF NcsStep, StartNcs, CancelNcs, StopWorkers, ReceiveConfig,
           Goto, OnHardware, IInv, TypeOK
    <3>3. ASSUME NEW v \in Worker, WorkerStep(v)
          PROVE  pc[w] = "granted" /\ ~CtxDone(w)
      BY <1>1, <3>3 DEF WorkerStep, Scheduled, AcquireNow, AcquireQueued,
           AcquireReturns, AcquireFails, CheckContext, RunWorker, Retry,
           RetryCancelled, Expire, RunFails, RunCancelled, RunPanics,
           Goto, OnHardware, IInv, TypeOK
    <3> QED
      BY <1>1, <3>1, <3>2, <3>3 DEF Next
  <2>2. w <= last /\ ~(w < last)
    BY <1>1, <2>1 DEF IInv, StartedInv, SupersededInv
  <2> QED
    BY <1>1, <2>2, BoundsAssumption DEF IInv, TypeOK, Worker
<1>2. IInv /\ [Next]_vars => [\A w \in Worker : Passes(w) => w = last]_vars
  BY <1>1
<1> QED
  BY <1>2, Inductive, PTL DEF Spec, NewestConfigOnHardware

-----------------------------------------------------------------------------
(* The permit of workerSem is never lost and nobody is forgotten in its     *)
(* queue: while the process lives, the permit is free with nobody waiting,  *)
(* or it is with a goroutine that still runs, and every other goroutine     *)
(* that waits is queued for it. Each way out of the goroutine of runWorkers *)
(* gives the permit back exactly once.                                      *)
PermitIsKept ==
    /\ holder # NoWorker => pc[holder] \in {"waiting"} \cup Holding
    /\ holder = NoWorker => waiters = <<>>
    /\ \A w \in Worker :
          pc[w] = "waiting" /\ w # holder => \E i \in 1..Len(waiters) : waiters[i] = w

(* It takes that the queue holds waiting goroutines only, each once, and not*)
(* the one that was granted the permit.                                     *)
QueueInv ==
    /\ \A i \in 1..Len(waiters) : pc[waiters[i]] = "waiting" /\ waiters[i] # holder
    /\ \A i, j \in 1..Len(waiters) : waiters[i] = waiters[j] => i = j

LEMMA HeadAndTail ==
    ASSUME NEW S, NEW s \in Seq(S), s # <<>>
    PROVE  /\ Len(s) \in Nat /\ Len(s) > 0
           /\ Head(s) = s[1]
           /\ \A i \in 1..Len(s) : s[i] \in S
           /\ Len(Tail(s)) = Len(s) - 1
           /\ \A i \in 1..(Len(s) - 1) : Tail(s)[i] = s[i + 1]
  OBVIOUS

LEMMA AppendElements ==
    ASSUME NEW S, NEW s \in Seq(S), NEW e \in S
    PROVE  /\ Len(s) \in Nat
           /\ Len(Append(s, e)) = Len(s) + 1
           /\ \A i \in 1..Len(s) : Append(s, e)[i] = s[i]
           /\ Append(s, e)[Len(s) + 1] = e
           /\ Append(s, e) # <<>>
  OBVIOUS

(* The holder leaves: the permit goes to the first of the queue.            *)
LEMMA LeaveQueue ==
    ASSUME IInv, QueueInv, PermitIsKept,
           NEW w \in Worker, pc[w] \in Holding, Goto(w, "done"), Release
    PROVE  QueueInv' /\ PermitIsKept'
<1> USE DEF Holding, OnHardware, NoWorker, Worker
<1>1. pc \in [Worker -> Pc] /\ waiters \in Seq(Worker) /\ holder = w
  BY DEF IInv, TypeOK, HolderInv
<1>2. pc' = [pc EXCEPT ![w] = "done"]
  BY DEF Goto
<1>3. CASE waiters = <<>>
  <2>1. holder' = NoWorker /\ waiters' = <<>>
    BY <1>3 DEF Release
  <2>2. \A v \in Worker : pc'[v] = "waiting" => pc[v] = "waiting" /\ v # w
    BY <1>1, <1>2
  <2>3. Len(waiters) = 0 /\ Len(waiters') = 0
    BY <1>3, <2>1
  <2>4. \A v \in Worker : pc'[v] # "waiting"
    BY <1>1, <2>2, <2>3 DEF PermitIsKept
  <2> QED BY <2>1, <2>3, <2>4 DEF QueueInv, PermitIsKept
<1>4. CASE waiters # <<>>
  <2> DEFINE n == Len(waiters)
  <2>1. /\ n \in Nat /\ n > 0 /\ Len(waiters') = n - 1
        /\ holder' = waiters[1]
        /\ \A i \in 1..(n - 1) : waiters'[i] = waiters[i + 1]
    BY <1>1, <1>4, HeadAndTail DEF Release
  <2>2. \A i \in 1..n : waiters[i] \in Worker
    BY <1>1, <1>4, HeadAndTail
  <2>3. \A i \in 1..n : pc[waiters[i]] = "waiting" /\ waiters[i] # w
    BY <1>1 DEF QueueInv
  <2>4. \A i, j \in 1..n : waiters[i] = waiters[j] => i = j
    BY DEF QueueInv
  <2>5. \A v \in Worker : pc[v] = "waiting" /\ v # w => \E i \in 1..n : waiters[i] = v
    BY <1>1 DEF PermitIsKept
  <2> HIDE DEF n
  <2>6. \A i \in 1..n : pc'[waiters[i]] = "waiting"
    BY <1>1, <1>2, <2>2, <2>3
  <2>7. \A i \in 1..(n - 1) : i + 1 \in 1..n /\ i + 1 # 1
    BY <2>1
  <2>8. 1 \in 1..n
    BY <2>1
  <2>9. QueueInv'
    <3>1. \A i \in 1..(n - 1) : pc'[waiters'[i]] = "waiting" /\ waiters'[i] # holder'
      BY <2>1, <2>4, <2>6, <2>7, <2>8
    <3>2. ASSUME NEW i \in 1..(n - 1), NEW j \in 1..(n - 1), waiters'[i] = waiters'[j]
          PROVE  i = j
      <4>1. waiters[i + 1] = waiters[j + 1]
        BY <2>1, <3>2
      <4>2. i + 1 = j + 1
        BY <2>4, <2>7, <4>1
      <4> QED BY <2>1, <4>2
    <3> QED BY <2>1, <3>1, <3>2 DEF QueueInv
  <2>10. holder' # NoWorker /\ pc'[holder'] = "waiting"
    BY <2>1, <2>2, <2>6, <2>8
  <2>11. ASSUME NEW v \in Worker, pc'[v] = "waiting", v # holder'
         PROVE  \E i \in 1..Len(waiters') : waiters'[i] = v
    <3>1. pc[v] = "waiting" /\ v # w
      BY <1>1, <1>2, <2>11
    <3>2. PICK i \in 1..n : waiters[i] = v
      BY <2>5, <3>1
    <3>3. i # 1
      BY <2>1, <2>11, <3>2
    <3>4. i - 1 \in 1..(n - 1) /\ (i - 1) + 1 = i
      BY <2>1, <3>3
    <3>5. waiters'[i - 1] = v
      BY <2>1, <3>2, <3>4
    <3> QED BY <2>1, <3>4, <3>5
  <2> QED BY <2>9, <2>10, <2>11 DEF PermitIsKept
<1> QED BY <1>3, <1>4

(* Steps that leave semaphore and queue alone, and who waits there.         *)
LEMMA SameQueue ==
    ASSUME IInv, QueueInv, PermitIsKept, UNCHANGED <<holder, waiters>>,
           \A v \in Worker : /\ pc'[v] = "waiting" <=> pc[v] = "waiting"
                             /\ pc[v] \in Holding => pc'[v] \in Holding
    PROVE  QueueInv' /\ PermitIsKept'
<1>1. waiters \in Seq(Worker) /\ holder \in Worker \cup {NoWorker}
  BY DEF IInv, TypeOK
<1>2. \A i \in 1..Len(waiters) : waiters[i] \in Worker
  BY <1>1
<1> QED BY <1>1, <1>2 DEF QueueInv, PermitIsKept

LEMMA PermitStep ==
    ASSUME IInv, QueueInv, PermitIsKept, [Next]_vars
    PROVE  QueueInv' /\ PermitIsKept'
<1>0. /\ pc \in [Worker -> Pc] /\ waiters \in Seq(Worker)
      /\ holder \in Worker \cup {NoWorker}
  BY DEF IInv, TypeOK
<1> USE DEF Holding, OnHardware, Goto
<1>1. CASE UNCHANGED vars
  BY <1>1, SameQueue DEF vars
<1>2. CASE StartNcs \/ CancelNcs \/ StopWorkers
  BY <1>2, SameQueue DEF StartNcs, CancelNcs, StopWorkers
<1>3. CASE ReceiveConfig
  <2>1. last + 1 \in Worker /\ pc[last + 1] = "none"
    BY <1>3, BoundsAssumption DEF ReceiveConfig, IInv, StartedInv, TypeOK, Worker
  <2> QED BY <1>0, <1>3, <2>1, SameQueue DEF ReceiveConfig
<1>4. ASSUME NEW w \in Worker, WorkerStep(w) PROVE QueueInv' /\ PermitIsKept'
  <2>1. CASE AcquireNow(w)
    <3>1. /\ pc[w] = "start" /\ holder = NoWorker /\ waiters = <<>>
          /\ holder' = w /\ pc' = [pc EXCEPT ![w] = "granted"] /\ waiters' = <<>>
      BY <2>1 DEF AcquireNow
    <3>2. \A v \in Worker : pc[v] # "waiting"
      <4>1. Len(waiters) = 0 /\ \A v \in Worker : v # NoWorker
        BY <3>1 DEF Worker, NoWorker
      <4> QED BY <3>1, <4>1 DEF PermitIsKept
    <3>3. Len(waiters') = 0 /\ pc'[holder'] = "granted" /\ \A v \in Worker : pc'[v] # "waiting"
      BY <1>0, <3>1, <3>2
    <3> QED BY <3>1, <3>3 DEF QueueInv, PermitIsKept, Worker, NoWorker
  <2>2. CASE AcquireQueued(w)
    <3> DEFINE n == Len(waiters)
    <3>1. /\ pc[w] = "start" /\ (holder # NoWorker \/ waiters # <<>>)
          /\ UNCHANGED holder /\ pc' = [pc EXCEPT ![w] = "waiting"]
          /\ waiters' = Append(waiters, w)
      BY <2>2 DEF AcquireQueued
    <3>2. /\ n \in Nat /\ Len(waiters') = n + 1 /\ waiters'[n + 1] = w /\ waiters' # <<>>
          /\ \A i \in 1..n : waiters'[i] = waiters[i]
      BY <1>0, <3>1, AppendElements
    <3>3. holder # NoWorker /\ pc[holder] \in {"waiting"} \cup Holding
      BY <3>1 DEF PermitIsKept
    <3>4. holder # w /\ holder \in Worker
      BY <1>0, <3>1, <3>3
    <3>5. \A i \in 1..n : waiters[i] \in Worker /\ waiters[i] # w
      BY <1>0, <3>1 DEF QueueInv
    <3>6. /\ \A i \in 1..n : pc[waiters[i]] = "waiting" /\ waiters[i] # holder
          /\ \A i, j \in 1..n : waiters[i] = waiters[j] => i = j
      BY DEF QueueInv
    <3>7. \A v \in Worker : pc[v] = "waiting" /\ v # holder => \E i \in 1..n : waiters[i] = v
      BY DEF PermitIsKept
    <3> HIDE DEF n
    <3>8. \A i \in 1..(n + 1) : i \in 1..n \/ i = n + 1
      BY <3>2
    <3>9. \A i \in 1..n : i \in 1..(n + 1) /\ i # n + 1
      BY <3>2
    <3>10. \A i \in 1..(n + 1) : pc'[waiters'[i]] = "waiting" /\ waiters'[i] # holder'
      BY <1>0, <3>1, <3>2, <3>4, <3>5, <3>6, <3>8
    <3>11. \A i, j \in 1..(n + 1) : waiters'[i] = waiters'[j] => i = j
      BY <3>2, <3>5, <3>6, <3>8
    <3>12. ASSUME NEW v \in Worker, pc'[v] = "waiting", v # holder'
           PROVE  \E i \in 1..(n + 1) : waiters'[i] = v
      <4>1. CASE v = w
        <5>1. n + 1 \in 1..(n + 1)
          BY <3>2
        <5> QED BY <3>2, <4>1, <5>1
      <4>2. CASE v # w
        <5>1. pc[v] = "waiting" /\ v # holder
          BY <1>0, <3>1, <3>12, <4>2
        <5> QED BY <3>2, <3>7, <3>9, <5>1
      <4> QED BY <4>1, <4>2
    <3>13. pc'[holder'] \in {"waiting"} \cup Holding /\ holder' # NoWorker
      BY <1>0, <3>1, <3>3, <3>4
    <3> QED BY <3>2, <3>10, <3>11, <3>12, <3>13 DEF QueueInv, PermitIsKept
  <2>3. CASE AcquireReturns(w)
    <3>1. /\ pc[w] = "waiting" /\ holder = w /\ UNCHANGED <<holder, waiters>>
          /\ pc' = [pc EXCEPT ![w] = "granted"]
      BY <2>3 DEF AcquireReturns
    <3>2. \A i \in 1..Len(waiters) : waiters[i] \in Worker /\ waiters[i] # w
      BY <1>0, <3>1 DEF QueueInv
    <3>3. \A v \in Worker : v # w => pc'[v] = pc[v]
      BY <1>0, <3>1
    <3>4. pc'[w] = "granted"
      BY <1>0, <3>1
    <3>5. QueueInv'
      BY <3>1, <3>2, <3>3 DEF QueueInv
    <3>6. PermitIsKept'
      BY <3>1, <3>3, <3>4 DEF PermitIsKept
    <3> QED BY <3>5, <3>6
  <2>4. CASE AcquireFails(w) \/ Expire(w)
    BY <2>4, SameQueue DEF AcquireFails, Expire
  <2>5. CASE CheckContext(w)
    <3>1. CASE CtxDone(w)
      BY <2>5, <3>1, LeaveQueue DEF CheckContext
    <3>2. CASE ~CtxDone(w)
      BY <1>0, <2>5, <3>2, SameQueue DEF CheckContext
    <3> QED BY <3>1, <3>2
  <2>6. CASE RunWorker(w) \/ Retry(w) \/ RunFails(w)
    BY <1>0, <2>6, SameQueue DEF RunWorker, Retry, RunFails
  <2>7. CASE RetryCancelled(w) \/ RunCancelled(w) \/ RunPanics(w)
    BY <2>7, LeaveQueue DEF RetryCancelled, RunCancelled, RunPanics
  <2> QED
    BY <1>4, <2>1, <2>2, <2>3, <2>4, <2>5, <2>6, <2>7 DEF WorkerStep, Scheduled
<1> QED
  BY <1>1, <1>2, <1>3, <1>4 DEF Next, NcsStep

(* Whatever happens to the goroutines of runWorkers (worker_runner.go) and  *)
(* whenever their contexts end, the permit of workerSem is with one that    *)
(* will give it back, or free with nobody waiting for it (PermitIsKept).    *)
THEOREM PermitIsKeptCorrect == Spec => []PermitIsKept
<1>1. Init => QueueInv /\ PermitIsKept
  <2> SUFFICES ASSUME Init PROVE QueueInv /\ PermitIsKept
    OBVIOUS
  <2>1. Len(waiters) = 0 /\ \A w \in Worker : pc[w] = "none"
    BY DEF Init
  <2> QED BY <2>1 DEF Init, QueueInv, PermitIsKept
<1>2. IInv /\ QueueInv /\ PermitIsKept /\ [Next]_vars => QueueInv' /\ PermitIsKept'
  BY PermitStep
<1> QED
  BY <1>1, <1>2, Inductive, PTL DEF Spec

-----------------------------------------------------------------------------
(* The worker on the hardware, if there is one.                             *)
UserOf(places) ==
    IF \E w \in Worker : places[w] \in OnHardware
    THEN CHOOSE w \in Worker : places[w] \in OnHardware
    ELSE NoWorker

(* The workers implement Hardware: they take it one at a time, each only    *)
(* while it is the newest.                                                  *)
Shared == INSTANCE Hardware WITH user <- UserOf(pc), newest <- last

ImplementsHardware == Shared!Spec

LEMMA UserIs ==
    ASSUME NEW places, NEW w \in Worker, places[w] \in OnHardware,
           \A v \in Worker : places[v] \in OnHardware => v = w
    PROVE  UserOf(places) = w
  BY DEF UserOf

LEMMA UserIsNobody ==
    ASSUME NEW places, \A w \in Worker : places[w] \notin OnHardware
    PROVE  UserOf(places) = NoWorker
  BY DEF UserOf

(* A step that takes nobody to the hardware and nobody off it.              *)
LEMMA SameUser ==
    ASSUME IInv, \A v \in Worker : pc'[v] \in OnHardware <=> pc[v] \in OnHardware
    PROVE  UserOf(pc') = UserOf(pc)
<1>1. CASE \E w \in Worker : pc[w] \in OnHardware
  <2>1. PICK w \in Worker : pc[w] \in OnHardware
    BY <1>1
  <2>2. \A v \in Worker : pc[v] \in OnHardware => v = w
    BY <2>1 DEF IInv, HolderInv, Holding
  <2>3. UserOf(pc) = w
    BY <2>1, <2>2, UserIs
  <2>4. UserOf(pc') = w
    BY <2>1, <2>2, UserIs
  <2> QED BY <2>3, <2>4
<1>2. CASE \A w \in Worker : pc[w] \notin OnHardware
  BY <1>2, UserIsNobody
<1> QED BY <1>1, <1>2

(* A step in which a worker on the hardware ends.                           *)
LEMMA LeaveIsLeave ==
    ASSUME IInv, NEW w \in Worker, pc[w] \in OnHardware, Goto(w, "done"), UNCHANGED last
    PROVE  Shared!Leave
<1>1. pc \in [Worker -> Pc] /\ \A v \in Worker : pc[v] \in OnHardware => v = w
  BY DEF IInv, TypeOK, HolderInv, Holding
<1>2. UserOf(pc) = w /\ w # NoWorker
  BY <1>1, UserIs, BoundsAssumption DEF Worker, NoWorker
<1>3. \A v \in Worker : pc'[v] \notin OnHardware
  BY <1>1 DEF Goto, OnHardware
<1>4. UserOf(pc') = NoWorker
  BY <1>3, UserIsNobody
<1> QED BY <1>2, <1>4 DEF Shared!Leave

(* Each step of the workers is one of Hardware or none.                     *)
LEMMA HardwareStep == ASSUME IInv, [Next]_vars PROVE [Shared!Next]_(Shared!vars)
<1> USE DEF OnHardware, Goto
<1>0. pc \in [Worker -> Pc]
  BY DEF IInv, TypeOK
<1>1. ASSUME UNCHANGED last, \A v \in Worker : pc'[v] \in OnHardware <=> pc[v] \in OnHardware
      PROVE  UNCHANGED Shared!vars
  BY <1>1, SameUser DEF Shared!vars
<1>2. CASE UNCHANGED vars
  BY <1>1, <1>2 DEF vars
<1>3. CASE StartNcs \/ CancelNcs \/ StopWorkers
  BY <1>1, <1>3 DEF StartNcs, CancelNcs, StopWorkers
<1>4. CASE ReceiveConfig
  <2>1. last + 1 \in Worker /\ pc[last + 1] = "none" /\ last' = last + 1
    BY <1>4, BoundsAssumption DEF ReceiveConfig, IInv, StartedInv, TypeOK, Worker
  <2>2. \A v \in Worker : pc'[v] \in OnHardware <=> pc[v] \in OnHardware
    BY <1>0, <1>4, <2>1 DEF ReceiveConfig
  <2> QED BY <2>1, <2>2, SameUser DEF Shared!Next, Shared!Configure
<1>5. ASSUME NEW w \in Worker, WorkerStep(w) PROVE [Shared!Next]_(Shared!vars)
  <2>1. CASE AcquireNow(w) \/ AcquireQueued(w) \/ AcquireReturns(w) \/ AcquireFails(w) \/ Expire(w)
    BY <1>0, <1>1, <2>1
       DEF AcquireNow, AcquireQueued, AcquireReturns, AcquireFails, Expire
  <2>2. CASE CheckContext(w)
    <3>1. pc[w] = "granted" /\ UNCHANGED last
      BY <2>2 DEF CheckContext
    <3>2. \A v \in Worker : pc[v] \notin OnHardware
      BY <3>1 DEF IInv, HolderInv, Holding
    <3>3. CASE CtxDone(w)
      BY <1>0, <1>1, <2>2, <3>3 DEF CheckContext
    <3>4. CASE ~CtxDone(w)
      <4>1. pc' = [pc EXCEPT ![w] = "create"]
        BY <2>2, <3>4 DEF CheckContext
      <4>2. pc'[w] \in OnHardware /\ \A v \in Worker : pc'[v] \in OnHardware => v = w
        BY <1>0, <3>2, <4>1
      <4>3. UserOf(pc) = NoWorker /\ UserOf(pc') = w
        BY <3>2, <4>2, UserIs, UserIsNobody
      <4>4. w <= last /\ ~(w < last)
        BY <3>1, <3>4 DEF IInv, StartedInv, SupersededInv
      <4>5. w = last /\ w # 0
        BY <4>4, BoundsAssumption DEF IInv, TypeOK, Worker
      <4> QED BY <3>1, <4>3, <4>5 DEF Shared!Next, Shared!Take
    <3> QED BY <3>3, <3>4
  <2>3. CASE RunWorker(w) \/ Retry(w) \/ RunFails(w)
    BY <1>0, <1>1, <2>3 DEF RunWorker, Retry, RunFails
  <2>4. CASE RetryCancelled(w) \/ RunCancelled(w) \/ RunPanics(w)
    <3>1. Shared!Leave
      BY <2>4, LeaveIsLeave DEF RetryCancelled, RunCancelled, RunPanics
    <3> QED BY <3>1 DEF Shared!Next
  <2> QED
    BY <1>5, <2>1, <2>2, <2>3, <2>4 DEF WorkerStep, Scheduled
<1> QED
  BY <1>2, <1>3, <1>4, <1>5 DEF Next, NcsStep

(* The workers of all NetworkControlServices together implement Hardware    *)
(* (runWorkers and runWorkerWithConfig of worker_runner.go): a new worker is*)
(* a Configure, the context check that succeeds a Take, the return from     *)
(* runWorkerWithConfig a Leave, and everything else is not seen.            *)
THEOREM HardwareRefinement == Spec => ImplementsHardware
<1>1. Init => Shared!Init
  <2> SUFFICES ASSUME Init PROVE Shared!Init
    OBVIOUS
  <2>1. \A w \in Worker : pc[w] \notin OnHardware
    BY DEF Init, OnHardware
  <2> QED BY <2>1, UserIsNobody DEF Init, Shared!Init
<1>2. IInv /\ [Next]_vars => [Shared!Next]_(Shared!vars)
  BY HardwareStep
<1> QED
  BY <1>1, <1>2, Inductive, PTL DEF Spec, ImplementsHardware, Shared!Spec
=============================================================================
