------------------------------- MODULE I2CBus -------------------------------
(***************************************************************************)
(* The I2C bus (pkg/service/bridge/i2c.go). Goroutines of all devices hand  *)
(* their operations over an unbuffered channel to the one goroutine that    *)
(* may touch the bus, and wait for the result by spinning on a flag that is *)
(* guarded by a SpinLock of their own (pkg/service/util/spinlock.go).       *)
(*                                                                         *)
(* The module implements AtomicBus.                                         *)
(***************************************************************************)
EXTENDS Naturals

CONSTANTS
    Caller,    \* goroutines that call Execute or Close
    Address,   \* addresses of devices on the bus
    NoCaller,  \* the bus goroutine has no request
    ToClose    \* in place of an address: the request made by Close

ASSUME CallerAssumption == NoCaller \notin Caller /\ ToClose \notin Address

VARIABLES
    pc,       \* where each caller is in Execute or Close
    target,   \* the address its operation is for
    lock,     \* its SpinLock l: flags = 1
    done,     \* its local variable done
    result,   \* its local variable result (ae in Close)
    answer,   \* what its last call returned
    bus,      \* where the bus goroutine is in queueProcessor
    current,  \* the caller whose request it executes
    attempt,  \* number of the attempt in execute
    outcome,  \* what execute returned
    file      \* per address: no entry in b.devices, or the state of its file

callerVars == <<pc, target, lock, done, result, answer>>
busVars    == <<bus, current, attempt, outcome, file>>
vars       == <<callerVars, busVars>>

Result == {"none", "ok", "error", "cancelled"}

TypeOK ==
    /\ pc \in [Caller -> {"idle", "sending", "spin", "peek", "return"}]
    /\ target \in [Caller -> Address \cup {ToClose}]
    /\ lock \in [Caller -> BOOLEAN]
    /\ done \in [Caller -> BOOLEAN]
    /\ result \in [Caller -> Result]
    /\ answer \in [Caller -> Result]
    /\ bus \in {"idle", "open", "op", "close", "lock", "result", "done", "unlock"}
    /\ current \in Caller \cup {NoCaller}
    /\ attempt \in 0..1
    /\ outcome \in Result
    /\ file \in [Address -> {"absent", "open", "closed"}]

Init ==
    /\ pc = [c \in Caller |-> "idle"]
    /\ target = [c \in Caller |-> ToClose]
    /\ lock = [c \in Caller |-> FALSE]
    /\ done = [c \in Caller |-> FALSE]
    /\ result = [c \in Caller |-> "none"]
    /\ answer = [c \in Caller |-> "none"]
    /\ bus = "idle"
    /\ current = NoCaller
    /\ attempt = 0
    /\ outcome = "none"
    /\ file = [a \in Address |-> "absent"]
-----------------------------------------------------------------------------
(* A caller enters Execute for a device, or Close, with fresh local         *)
(* variables.                                                               *)
Call(c) ==
    /\ pc[c] = "idle"
    /\ \E t \in Address \cup {ToClose} : target' = [target EXCEPT ![c] = t]
    /\ pc' = [pc EXCEPT ![c] = "sending"]
    /\ lock' = [lock EXCEPT ![c] = FALSE]
    /\ done' = [done EXCEPT ![c] = FALSE]
    /\ result' = [result EXCEPT ![c] = "none"]
    /\ answer' = [answer EXCEPT ![c] = "none"]
    /\ UNCHANGED busVars

(* The context of Execute is done before the bus goroutine takes the        *)
(* request. Close has no context.                                           *)
Refuse(c) ==
    /\ pc[c] = "sending"
    /\ target[c] # ToClose
    /\ pc' = [pc EXCEPT ![c] = "idle"]
    /\ answer' = [answer EXCEPT ![c] = "cancelled"]
    /\ UNCHANGED <<target, lock, done, result, busVars>>

(* The bus goroutine takes the request from the unbuffered channel.         *)
Send(c) ==
    /\ pc[c] = "sending"
    /\ bus = "idle"
    /\ pc' = [pc EXCEPT ![c] = "spin"]
    /\ bus' = IF target[c] = ToClose THEN "close" ELSE "open"
    /\ current' = c
    /\ attempt' = 0
    /\ UNCHANGED <<target, lock, done, result, answer, outcome, file>>

(* The compare-and-swap of TryLock by the waiting caller succeeds.          *)
TryLock(c) ==
    /\ pc[c] = "spin"
    /\ ~lock[c]
    /\ lock' = [lock EXCEPT ![c] = TRUE]
    /\ pc' = [pc EXCEPT ![c] = "peek"]
    /\ UNCHANGED <<target, done, result, answer, busVars>>

(* Peek in a loop that gives up when the context of the call is done.       *)
PeekOrContextDone(c) ==
    /\ pc[c] = "peek"
    /\ lock' = [lock EXCEPT ![c] = FALSE]
    /\ pc' = [pc EXCEPT ![c] = "return"]
    /\ UNCHANGED <<target, done, result, answer, busVars>>

(* The caller reads done and unlocks.                                       *)
Peek(c) ==
    /\ pc[c] = "peek"
    /\ lock' = [lock EXCEPT ![c] = FALSE]
    /\ pc' = [pc EXCEPT ![c] = IF done[c] THEN "return" ELSE "spin"]
    /\ UNCHANGED <<target, done, result, answer, busVars>>

(* The caller returns its result, which it reads without the lock.          *)
Return(c) ==
    /\ pc[c] = "return"
    /\ pc' = [pc EXCEPT ![c] = "idle"]
    /\ answer' = [answer EXCEPT ![c] = result[c]]
    /\ UNCHANGED <<target, lock, done, result, busVars>>

-----------------------------------------------------------------------------
(* execute ends with r; the request goes on to store it.                    *)
Finish(r) ==
    /\ outcome' = r
    /\ bus' = "lock"

CloseFiles == file' = [a \in Address |-> "absent"]

(* openDevice finds the device of an earlier operation.                     *)
FindDevice ==
    /\ bus = "open"
    /\ file[target[current]] # "absent"
    /\ bus' = "op"
    /\ UNCHANGED <<callerVars, current, attempt, outcome, file>>

(* openDevice opens the device file and registers the device.               *)
OpenDevice ==
    /\ bus = "open"
    /\ file[target[current]] = "absent"
    /\ file' = [file EXCEPT ![target[current]] = "open"]
    /\ bus' = "op"
    /\ UNCHANGED <<callerVars, current, attempt, outcome>>

(* openDevice fails: execute returns at once.                               *)
OpenFails ==
    /\ bus = "open"
    /\ file[target[current]] = "absent"
    /\ Finish("error")
    /\ UNCHANGED <<callerVars, current, attempt, file>>

OpSucceeds ==
    /\ bus = "op"
    /\ Finish("ok")
    /\ UNCHANGED <<callerVars, current, attempt, file>>

(* OpFails that closes the files of all devices but keeps the devices.      *)
OpFailsNoClear ==
    /\ bus = "op"
    /\ file' = [a \in Address |-> IF file[a] = "open" THEN "closed" ELSE file[a]]
    /\ IF attempt + 1 < 2
       THEN /\ attempt' = attempt + 1
            /\ bus' = "open"
            /\ UNCHANGED outcome
       ELSE /\ Finish("error")
            /\ UNCHANGED attempt
    /\ UNCHANGED <<callerVars, current>>

(* OpFails that allows one attempt too many.                                *)
OpFailsOnceMore ==
    /\ bus = "op"
    /\ CloseFiles
    /\ IF attempt < 2
       THEN /\ attempt' = attempt + 1
            /\ bus' = "open"
            /\ UNCHANGED outcome
       ELSE /\ Finish("error")
            /\ UNCHANGED attempt
    /\ UNCHANGED <<callerVars, current>>

(* The operation fails: the files of all devices are closed and forgotten,  *)
(* and the operation is tried once more. (Recovery from a locked up bus is  *)
(* disabled in NewI2CBus.)                                                  *)
OpFails ==
    /\ bus = "op"
    /\ CloseFiles
    /\ IF attempt + 1 < 2
       THEN /\ attempt' = attempt + 1
            /\ bus' = "open"
            /\ UNCHANGED outcome
       ELSE /\ Finish("error")
            /\ UNCHANGED attempt
    /\ UNCHANGED <<callerVars, current>>

(* The request of Close: it closes all devices, collects their errors in    *)
(* ae, which is the result, and has only done left to store.                *)
CloseDevices ==
    /\ bus = "close"
    /\ CloseFiles
    /\ \E r \in {"ok", "error"} :
          /\ Finish(r)
          /\ result' = [result EXCEPT ![current] = r]
    /\ UNCHANGED <<pc, target, lock, done, answer, current, attempt>>

(* l.Lock in the request.                                                   *)
BusLock ==
    /\ bus = "lock"
    /\ ~lock[current]
    /\ lock' = [lock EXCEPT ![current] = TRUE]
    /\ bus' = IF target[current] = ToClose THEN "done" ELSE "result"
    /\ UNCHANGED <<pc, target, done, result, answer, current, attempt, outcome, file>>

StoreResult ==
    /\ bus = "result"
    /\ result' = [result EXCEPT ![current] = outcome]
    /\ bus' = "done"
    /\ UNCHANGED <<pc, target, lock, done, answer, current, attempt, outcome, file>>

StoreDone ==
    /\ bus = "done"
    /\ done' = [done EXCEPT ![current] = TRUE]
    /\ bus' = "unlock"
    /\ UNCHANGED <<pc, target, lock, result, answer, current, attempt, outcome, file>>

(* BusUnlock without the l.Unlock.                                          *)
BusUnlockForgotten ==
    /\ bus = "unlock"
    /\ bus' = "idle"
    /\ current' = NoCaller
    /\ UNCHANGED <<pc, target, lock, done, result, answer, attempt, outcome, file>>

(* l.Unlock; the bus goroutine is back at its channel.                      *)
BusUnlock ==
    /\ bus = "unlock"
    /\ lock' = [lock EXCEPT ![current] = FALSE]
    /\ bus' = "idle"
    /\ current' = NoCaller
    /\ UNCHANGED <<pc, target, done, result, answer, attempt, outcome, file>>

-----------------------------------------------------------------------------
Spins(c) == TryLock(c) \/ Peek(c) \/ Return(c)

CallerStep(c) == Call(c) \/ Refuse(c) \/ Send(c) \/ Spins(c)

BusStep ==
    \/ FindDevice
    \/ OpenDevice
    \/ OpenFails
    \/ OpSucceeds
    \/ OpFails
    \/ CloseDevices
    \/ BusLock
    \/ StoreResult
    \/ StoreDone
    \/ BusUnlock

Next == BusStep \/ \E c \in Caller : CallerStep(c)

(* Blocked senders of a channel are served in order, so a free bus does not *)
(* pass a sender by for ever. Operations end: every transfer has a timeout  *)
(* of 100 ms. A waiting caller takes and gives up its lock in a loop, so    *)
(* the bus goroutine finds it free again and again but not continuously;    *)
(* that one of its attempts, at times of its own, meets a free lock is a    *)
(* strong fairness assumption on the CompareAndSwap of TryLock.             *)
Fairness ==
    /\ \A c \in Caller : SF_vars(Send(c)) /\ WF_vars(Spins(c))
    /\ WF_vars(BusStep)
    /\ SF_vars(BusLock)

Spec == Init /\ [][Next]_vars

FairSpec == Spec /\ Fairness

-----------------------------------------------------------------------------
(* The call of c as AtomicBus sees it.                                      *)
CallOf(c) ==
    CASE pc[c] = "idle"    -> "none"
      [] pc[c] = "sending" -> "pending"
      [] c = current /\ bus \in {"open", "op", "close"} -> "running"
      [] OTHER             -> "performed"

(* The operation has its result when execute returns, before it is stored.  *)
AnswerOf(c) ==
    CASE CallOf(c) \in {"pending", "running"} -> "none"
      [] CallOf(c) = "none" -> answer[c]
      [] OTHER -> IF c = current THEN outcome ELSE result[c]

callBar   == [c \in Caller |-> CallOf(c)]
answerBar == [c \in Caller |-> AnswerOf(c)]

Atomic == INSTANCE AtomicBus WITH call <- callBar, answer <- answerBar

(* Execute and Close implement AtomicBus: operations run one at a time,     *)
(* within the call they belong to, and a call returns the result of its own *)
(* operation, although done and result are shared with the bus goroutine.   *)
ImplementsAtomicBus == Atomic!Spec

(* An operation, the retry of a failed one included, is only given a device *)
(* whose file is open: a failed operation closes the files of all devices,  *)
(* those of other callers too.                                              *)
OpOnOpenFile == bus = "op" => file[target[current]] = "open"

(* Every call returns, though the caller spins without a timeout.           *)
CallsReturn == \A c \in Caller : pc[c] = "sending" ~> pc[c] = "idle"
=============================================================================
