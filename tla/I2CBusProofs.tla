---------------------------- MODULE I2CBusProofs ----------------------------
(***************************************************************************)
(* Proofs about I2CBus, for any number of callers and devices: the types,   *)
(* the use of device files, and that the module implements AtomicBus.       *)
(*                                                                         *)
(* The inductive invariant ties the two sides of a call together: which     *)
(* callers may see done, who has the lock, and that the stored result is    *)
(* the outcome of the operation from the moment done can be seen.           *)
(***************************************************************************)
EXTENDS I2CBus, TLAPS

Storing == {"lock", "result", "done", "unlock"}

(* The bus goroutine has a request exactly while it is busy, its caller     *)
(* waits for it, and it is of the kind the phase is for.                    *)
RequestInv ==
    /\ bus = "idle" <=> current = NoCaller
    /\ current # NoCaller => pc[current] \in {"spin", "peek"}
    /\ bus \in {"open", "op", "result"} => target[current] \in Address
    /\ bus = "close" => target[current] = ToClose
    /\ bus \in Storing => outcome \in {"ok", "error"}

(* Done is set for the callers whose request has been executed.             *)
DoneInv ==
    \A c \in Caller :
        /\ pc[c] \in {"spin", "peek"} => c = current \/ done[c]
        /\ pc[c] = "return" => done[c] /\ c # current
        /\ pc[c] = "sending" => ~done[c]
        /\ c = current => (done[c] <=> bus = "unlock")

(* The lock is held on one side at most.                                    *)
LockInv ==
    \A c \in Caller :
        /\ pc[c] = "peek" => lock[c]
        /\ c = current /\ bus \in {"result", "done", "unlock"} =>
              lock[c] /\ pc[c] = "spin"

(* The result is the outcome once it is stored.                             *)
ResultInv ==
    current # NoCaller =>
        /\ bus \in {"done", "unlock"} => result[current] = outcome
        /\ bus = "lock" /\ target[current] = ToClose => result[current] = outcome

(* Only open files are registered.                                          *)
FileInv ==
    /\ \A a \in Address : file[a] # "closed"
    /\ OpOnOpenFile

IInv == TypeOK /\ RequestInv /\ DoneInv /\ LockInv /\ ResultInv /\ FileInv

-----------------------------------------------------------------------------
LEMMA InitIInv == Init => IInv
  BY CallerAssumption
     DEF Init, IInv, TypeOK, RequestInv, DoneInv, LockInv, ResultInv, FileInv,
         OpOnOpenFile, Result, Storing

LEMMA TypeStep == ASSUME TypeOK, RequestInv, [Next]_vars PROVE TypeOK'
<1> USE CallerAssumption DEF TypeOK, RequestInv, Result, Finish, CloseFiles,
        callerVars, busVars
<1>1. CASE UNCHANGED vars       BY <1>1 DEF vars
<1>2. ASSUME NEW c \in Caller, CallerStep(c) PROVE TypeOK'
  <2>1. CASE Call(c)            BY <2>1 DEF Call
  <2>2. CASE Refuse(c)          BY <2>2 DEF Refuse
  <2>3. CASE Send(c)            BY <2>3 DEF Send
  <2>4. CASE TryLock(c)         BY <2>4 DEF TryLock
  <2>5. CASE Peek(c)            BY <2>5 DEF Peek
  <2>6. CASE Return(c)          BY <2>6 DEF Return
  <2> QED
    BY <1>2, <2>1, <2>2, <2>3, <2>4, <2>5, <2>6 DEF CallerStep, Spins
<1>3. CASE BusStep
  <2>1. CASE FindDevice         BY <2>1 DEF FindDevice
  <2>2. CASE OpenDevice         BY <2>2 DEF OpenDevice
  <2>3. CASE OpenFails          BY <2>3 DEF OpenFails
  <2>4. CASE OpSucceeds         BY <2>4 DEF OpSucceeds
  <2>5. CASE OpFails            BY <2>5 DEF OpFails
  <2>6. CASE CloseDevices       BY <2>6 DEF CloseDevices
  <2>7. CASE BusLock            BY <2>7 DEF BusLock
  <2>8. CASE StoreResult        BY <2>8 DEF StoreResult
  <2>9. CASE StoreDone          BY <2>9 DEF StoreDone
  <2>10. CASE BusUnlock         BY <2>10 DEF BusUnlock
  <2> QED
    BY <1>3, <2>1, <2>2, <2>3, <2>4, <2>5, <2>6, <2>7, <2>8, <2>9, <2>10
       DEF BusStep
<1> QED
  BY <1>1, <1>2, <1>3 DEF Next

LEMMA IInvStep == ASSUME IInv, [Next]_vars PROVE IInv'
<1> DEFINE Inv == RequestInv /\ DoneInv /\ LockInv /\ ResultInv /\ FileInv
<1>0. TypeOK'
  BY TypeStep DEF IInv
<1>1. Inv'
  <2> USE CallerAssumption
      DEF IInv, TypeOK, RequestInv, DoneInv, LockInv, ResultInv, FileInv,
          OpOnOpenFile, Result, Storing, Finish, CloseFiles, callerVars, busVars
  <2>1. CASE UNCHANGED vars     BY <2>1 DEF vars
  <2>2. ASSUME NEW c \in Caller, CallerStep(c) PROVE Inv'
    <3>1. CASE Call(c)          BY <3>1 DEF Call
    <3>2. CASE Refuse(c)        BY <3>2 DEF Refuse
    <3>3. CASE Send(c)          BY <3>3 DEF Send
    <3>4. CASE TryLock(c)       BY <3>4 DEF TryLock
    <3>5. CASE Peek(c)          BY <3>5 DEF Peek
    <3>6. CASE Return(c)        BY <3>6 DEF Return
    <3> QED
      BY <2>2, <3>1, <3>2, <3>3, <3>4, <3>5, <3>6 DEF CallerStep, Spins
  <2>3. CASE BusStep
    <3>1. CASE FindDevice       BY <3>1 DEF FindDevice
    <3>2. CASE OpenDevice       BY <3>2 DEF OpenDevice
    <3>3. CASE OpenFails        BY <3>3 DEF OpenFails
    <3>4. CASE OpSucceeds       BY <3>4 DEF OpSucceeds
    <3>5. CASE OpFails
      <4>1. file' = [a \in Address |-> "absent"] /\ UNCHANGED <<callerVars, current>>
        BY <3>5 DEF OpFails
      <4>2. bus' = "open" \/ (bus' = "lock" /\ outcome' = "error")
        BY <3>5 DEF OpFails
      <4>3. bus = "op"
        BY <3>5 DEF OpFails
      <4>4. FileInv'
        BY <4>1, <4>2
      <4>5. RequestInv' /\ DoneInv' /\ LockInv' /\ ResultInv'
        BY <4>1, <4>2, <4>3
      <4> QED
        BY <4>4, <4>5
    <3>6. CASE CloseDevices     BY <3>6 DEF CloseDevices
    <3>7. CASE BusLock          BY <3>7 DEF BusLock
    <3>8. CASE StoreResult      BY <3>8 DEF StoreResult
    <3>9. CASE StoreDone        BY <3>9 DEF StoreDone
    <3>10. CASE BusUnlock
      <4>1. bus = "unlock" /\ current \in Caller /\ done[current] /\ pc[current] = "spin"
        BY <3>10 DEF BusUnlock
      <4>2. RequestInv' /\ ResultInv' /\ FileInv'
        BY <3>10, <4>1 DEF BusUnlock
      <4>3. DoneInv'
        BY <3>10, <4>1 DEF BusUnlock
      <4>4. LockInv'
        BY <3>10, <4>1 DEF BusUnlock
      <4> QED
        BY <4>2, <4>3, <4>4
    <3> QED
      BY <2>3, <3>1, <3>2, <3>3, <3>4, <3>5, <3>6, <3>7, <3>8, <3>9, <3>10
         DEF BusStep
  <2> QED
    BY <2>1, <2>2, <2>3 DEF Next
<1> QED
  BY <1>0, <1>1 DEF IInv

THEOREM Inductive == Spec => []IInv
  BY InitIInv, IInvStep, PTL DEF Spec

(* The variables of I2CBus have their types (TypeOK).                       *)
THEOREM TypeCorrect == Spec => []TypeOK
<1>1. IInv => TypeOK
  BY DEF IInv
<1> QED
  BY <1>1, Inductive, PTL

(* Operations are only given devices with an open file (OpOnOpenFile): a    *)
(* failed operation forgets every device whose file it closes.              *)
THEOREM OpenFileCorrect == Spec => []OpOnOpenFile
<1>1. IInv => OpOnOpenFile
  BY DEF IInv, FileInv
<1> QED
  BY <1>1, Inductive, PTL

-----------------------------------------------------------------------------
(* Abstract calls and answers are compared one caller at a time.            *)
Same(c) == CallOf(c)' = CallOf(c) /\ AnswerOf(c)' = AnswerOf(c)

SameBut(c) == \A d \in Caller \ {c} : Same(d)

LEMMA SameAll ==
    ASSUME \A c \in Caller : Same(c)
    PROVE  UNCHANGED <<callBar, answerBar>>
  BY DEF Same, callBar, answerBar

LEMMA SameButOne ==
    ASSUME NEW c \in Caller, SameBut(c)
    PROVE  /\ callBar' = [callBar EXCEPT ![c] = CallOf(c)']
           /\ answerBar' = [answerBar EXCEPT ![c] = AnswerOf(c)']
  BY DEF Same, SameBut, callBar, answerBar

(* What has to be shown of the caller that a step is about.                 *)
LEMMA AbstractStep ==
    ASSUME NEW c \in Caller, SameBut(c),
           \/ /\ CallOf(c) = "none" /\ CallOf(c)' = "pending"
              /\ AnswerOf(c)' = "none"
           \/ /\ CallOf(c) = "pending" /\ CallOf(c)' = "none"
              /\ AnswerOf(c)' = "cancelled"
           \/ /\ CallOf(c) = "pending" /\ CallOf(c)' = "running"
              /\ \A d \in Caller : CallOf(d) # "running"
              /\ AnswerOf(c)' = AnswerOf(c)
           \/ /\ CallOf(c) = "running" /\ CallOf(c)' = "performed"
              /\ AnswerOf(c)' \in {"ok", "error"}
           \/ /\ CallOf(c) = "performed" /\ CallOf(c)' = "none"
              /\ AnswerOf(c)' = AnswerOf(c)
    PROVE  Atomic!Next
<1>1. \A d \in Caller : callBar[d] = CallOf(d) /\ answerBar[d] = AnswerOf(d)
  BY DEF callBar, answerBar
<1>2. AnswerOf(c)' = AnswerOf(c) => answerBar' = answerBar
  BY DEF SameBut, Same, answerBar
<1>3. Atomic!Invoke(c) \/ Atomic!Refuse(c) \/ Atomic!Begin(c) \/ Atomic!End(c)
      \/ Atomic!Return(c)
  BY <1>1, <1>2, SameButOne
     DEF Atomic!Invoke, Atomic!Refuse, Atomic!Begin, Atomic!End, Atomic!Return
<1> QED
  BY <1>3 DEF Atomic!Next

(* Every step of the bus is a step of AtomicBus or leaves the calls, as     *)
(* AtomicBus sees them, alone.                                              *)
LEMMA AtomicStep ==
    ASSUME IInv, IInv', [Next]_vars PROVE [Atomic!Next]_(Atomic!vars)
<1> USE CallerAssumption
    DEF IInv, TypeOK, RequestInv, DoneInv, LockInv, ResultInv, Result, Storing,
        Finish, callerVars, busVars, CallOf, AnswerOf
<1>0. ASSUME \A c \in Caller : Same(c) PROVE [Atomic!Next]_(Atomic!vars)
  BY <1>0, SameAll DEF Atomic!vars
<1>1. CASE UNCHANGED vars
  BY <1>0, <1>1 DEF vars, Same
<1>2. ASSUME NEW c \in Caller, CallerStep(c) PROVE [Atomic!Next]_(Atomic!vars)
  <2>1. CASE Call(c)
    <3>1. SameBut(c)
      BY <2>1 DEF Call, SameBut, Same
    <3>2. CallOf(c) = "none" /\ CallOf(c)' = "pending"
      BY <2>1 DEF Call
    <3>3. AnswerOf(c)' = "none"
      BY <2>1 DEF Call
    <3> QED
      BY <3>1, <3>2, <3>3, AbstractStep
  <2>2. CASE Refuse(c)
    <3>1. SameBut(c)
      BY <2>2 DEF Refuse, SameBut, Same
    <3>2. CallOf(c) = "pending" /\ CallOf(c)' = "none"
      BY <2>2 DEF Refuse
    <3>3. AnswerOf(c)' = "cancelled"
      BY <2>2 DEF Refuse
    <3> QED
      BY <3>1, <3>2, <3>3, AbstractStep
  <2>3. CASE Send(c)
    <3>1. SameBut(c)
      BY <2>3 DEF Send, SameBut, Same
    <3>2. CallOf(c) = "pending" /\ CallOf(c)' = "running"
      BY <2>3 DEF Send
    <3>3. AnswerOf(c)' = AnswerOf(c)
      BY <2>3 DEF Send
    <3>4. \A d \in Caller : CallOf(d) # "running"
      BY <2>3 DEF Send
    <3> HIDE DEF CallOf, AnswerOf
    <3> QED
      BY <3>1, <3>2, <3>3, <3>4, AbstractStep
  <2>4. CASE TryLock(c)
    BY <1>0, <2>4 DEF TryLock, Same
  <2>5. CASE Peek(c)
    BY <1>0, <2>5 DEF Peek, Same
  <2>6. CASE Return(c)
    <3>1. SameBut(c)
      BY <2>6 DEF Return, SameBut, Same
    <3>2. CallOf(c) = "performed" /\ CallOf(c)' = "none"
      BY <2>6 DEF Return
    <3>3. AnswerOf(c)' = AnswerOf(c)
      BY <2>6 DEF Return
    <3> QED
      BY <3>1, <3>2, <3>3, AbstractStep
  <2> QED
    BY <1>2, <2>1, <2>2, <2>3, <2>4, <2>5, <2>6 DEF CallerStep, Spins
<1>3. CASE BusStep
  <2>1. CASE FindDevice \/ OpenDevice
    BY <1>0, <2>1 DEF FindDevice, OpenDevice, Same
  <2>2. CASE OpenFails
    <3>1. PICK c \in Caller : c = current
      BY <2>2 DEF OpenFails
    <3>2. SameBut(c)
      BY <2>2, <3>1 DEF OpenFails, SameBut, Same
    <3>3. CallOf(c) = "running" /\ CallOf(c)' = "performed"
      BY <2>2, <3>1 DEF OpenFails
    <3>4. AnswerOf(c)' \in {"ok", "error"}
      BY <2>2, <3>1 DEF OpenFails
    <3> HIDE DEF CallOf, AnswerOf
    <3> QED
      BY <3>1, <3>2, <3>3, <3>4, AbstractStep
  <2>3. CASE OpSucceeds
    <3>1. PICK c \in Caller : c = current
      BY <2>3 DEF OpSucceeds
    <3>2. SameBut(c)
      BY <2>3, <3>1 DEF OpSucceeds, SameBut, Same
    <3>3. CallOf(c) = "running" /\ CallOf(c)' = "performed"
      BY <2>3, <3>1 DEF OpSucceeds
    <3>4. AnswerOf(c)' \in {"ok", "error"}
      BY <2>3, <3>1 DEF OpSucceeds
    <3> HIDE DEF CallOf, AnswerOf
    <3> QED
      BY <3>1, <3>2, <3>3, <3>4, AbstractStep
  <2>4. CASE OpFails /\ bus' = "open"
    BY <1>0, <2>4 DEF OpFails, Same
  <2>5. CASE OpFails /\ bus' = "lock"
    <3>1. PICK c \in Caller : c = current
      BY <2>5 DEF OpFails
    <3>2. SameBut(c)
      BY <2>5, <3>1 DEF OpFails, SameBut, Same
    <3>3. CallOf(c) = "running" /\ CallOf(c)' = "performed"
      BY <2>5, <3>1 DEF OpFails
    <3>4. AnswerOf(c)' \in {"ok", "error"}
      BY <2>5, <3>1 DEF OpFails
    <3> HIDE DEF CallOf, AnswerOf
    <3> QED
      BY <3>1, <3>2, <3>3, <3>4, AbstractStep
  <2>6. CASE CloseDevices
    <3>1. PICK c \in Caller : c = current
      BY <2>6 DEF CloseDevices
    <3>2. SameBut(c)
      BY <2>6, <3>1 DEF CloseDevices, SameBut, Same
    <3>3. CallOf(c) = "running" /\ CallOf(c)' = "performed"
      BY <2>6, <3>1 DEF CloseDevices
    <3>4. AnswerOf(c)' \in {"ok", "error"}
      BY <2>6, <3>1 DEF CloseDevices
    <3> HIDE DEF CallOf, AnswerOf
    <3> QED
      BY <3>1, <3>2, <3>3, <3>4, AbstractStep
  <2>7. CASE BusLock
    BY <1>0, <2>7 DEF BusLock, Same
  <2>8. CASE StoreResult
    BY <1>0, <2>8 DEF StoreResult, Same
  <2>9. CASE StoreDone
    BY <1>0, <2>9 DEF StoreDone, Same
  <2>10. CASE BusUnlock
    BY <1>0, <2>10 DEF BusUnlock, Same
  <2>11. OpFails => bus' \in {"open", "lock"}
    BY DEF OpFails
  <2> QED
    BY <1>3, <2>1, <2>2, <2>3, <2>4, <2>5, <2>6, <2>7, <2>8, <2>9, <2>10, <2>11
       DEF BusStep
<1> QED
  BY <1>1, <1>2, <1>3 DEF Next

(* The bus implements what its callers are promised (ImplementsAtomicBus):  *)
(* one operation at a time, inside its own call, and its own result, for    *)
(* any number of callers and devices.                                       *)
THEOREM Refinement == Spec => ImplementsAtomicBus
<1>1. Init => Atomic!Init
  BY CallerAssumption DEF Init, Atomic!Init, callBar, answerBar, CallOf, AnswerOf
<1> QED
  BY <1>1, AtomicStep, Inductive, PTL DEF Spec, ImplementsAtomicBus, Atomic!Spec
=============================================================================
