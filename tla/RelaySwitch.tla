----------------------------- MODULE RelaySwitch -----------------------------
(***************************************************************************)
(* A turnout with two relays (pkg/service/objects/relay_switch.go) on a     *)
(* GPIO chip that it shares with another object, one of the five kinds. A   *)
(* relay must get a pulse only: a coil that stays energised burns.          *)
(*                                                                         *)
(* The main goroutine configures the object and then runs it; another       *)
(* processes requests (the callback of the switch type loop, switch.go). A  *)
(* mutex serialises them; every call of the chip is an atomic bus operation *)
(* between which the other object uses the chip.                            *)
(***************************************************************************)
EXTENDS Naturals

CONSTANTS
    Straight, Off,  \* pins of the two relays
    Other,          \* pin of another object on the same chip
    BankB,          \* pins in the second register of the chip
    Inverted        \* pins of relays that are active when low

ASSUME PinAssumption ==
    /\ Straight # Off /\ Straight # Other /\ Off # Other
    /\ Inverted \subseteq {Straight, Off}
    /\ BankB \subseteq {Straight, Off, Other}

Relay  == {Straight, Off}
Pin    == {Straight, Off, Other}
Thread == {"main", "msg"}

INSTANCE GpioChip

VARIABLES
    chip,                \* the GPIO chip
    pc,                  \* where each goroutine is
    direction,           \* the direction each of them switches to
    mutex,               \* holder of the mutex of the object
    disableAllNeeded,
    due,                 \* disableAllTime has passed
    hasErrors,           \* the local variable of Run
    sendActualNeeded,
    requestedDirection,
    ctxDone,             \* the context of the worker is done
    activationFailed     \* history: an activation failed, and no pulse was
                         \* started or ended since

vars == <<chip, pc, direction, mutex, disableAllNeeded, due, hasErrors,
          sendActualNeeded, requestedDirection, ctxDone, activationFailed>>

(* Configure, switchTo, Run, and the worker that closes the chip.           *)
ConfigurePc == {"dirStraight", "offStraight", "dirOff", "offOff"}
SwitchToPc  == {"deactivate", "activate", "schedule"}
RunPc       == {"lock", "clearStraight", "clearOff", "select"}
EndPc       == {"configured", "failed", "done", "closed", "notClosed"}

TypeOK ==
    /\ chip \in Chip
    /\ pc["main"] \in ConfigurePc \cup SwitchToPc \cup RunPc \cup EndPc
    /\ pc["msg"] \in {"idle", "lock", "panic"} \cup SwitchToPc
    /\ DOMAIN pc = Thread
    /\ direction \in [Thread -> Relay]
    /\ mutex \in Thread \cup {"free"}
    /\ disableAllNeeded \in BOOLEAN
    /\ due \in BOOLEAN
    /\ hasErrors \in BOOLEAN
    /\ sendActualNeeded \in BOOLEAN
    /\ requestedDirection \in Relay
    /\ ctxDone \in BOOLEAN
    /\ activationFailed \in BOOLEAN

(* Pins of a pcf8574 can only sink current: its relays are active when low. *)
ActiveLow(pin) == pin \in Inverted \/ chip.kind = "pcf8574"

Energised(pin) == pin \in (IF ActiveLow(pin) THEN DrivenLow(chip) ELSE DrivenHigh(chip))

(* Whatever the previous worker left, it did not leave both coils on.       *)
Init ==
    /\ chip \in FreshChip
    /\ ~(Energised(Straight) /\ Energised(Off))
    /\ pc = [main |-> "dirStraight", msg |-> "idle"]
    /\ direction = [t \in Thread |-> Straight]
    /\ mutex = "free"
    /\ disableAllNeeded = FALSE
    /\ due = FALSE
    /\ hasErrors = FALSE
    /\ sendActualNeeded = FALSE
    /\ requestedDirection = Straight
    /\ ctxDone = FALSE
    /\ activationFailed = FALSE

-----------------------------------------------------------------------------
Opposite(d) == IF d = Straight THEN Off ELSE Straight

(* pinValue: the level that activates or deactivates a relay.               *)
Level(pin, active) == active # ActiveLow(pin)

SomeCoil == \E pin \in Relay : Energised(pin)

Goto(t, place) == pc' = [pc EXCEPT ![t] = place]

Error(o) == o.kind \notin {"ok", "panic"}

(* A call of the chip by t returns with outcome o: t goes on at next or, if *)
(* it got an error, at fail. A call is refused only when the context it is  *)
(* given is done. A panic ends the process.                                 *)
ChipReturns(t, o, next, fail) ==
    /\ o.kind = "refused" => ctxDone
    /\ chip' = o.chip
    /\ Goto(t, CASE Error(o) -> fail
                 [] o.kind = "panic" -> "panic"
                 [] OTHER -> next)

(* Any call may fail, any number of times.                                  *)
ChipCall(t, outcomes, next, fail) ==
    \E o \in outcomes : ChipReturns(t, o, next, fail)

-----------------------------------------------------------------------------
(* Configure: both pins become outputs and are deactivated, in this order;  *)
(* an error ends it, and the object is not used.                            *)
ConfigureStraight ==
    /\ pc["main"] = "dirStraight"
    /\ ChipCall("main", SetDirection(chip, Straight, FALSE), "offStraight", "failed")
    /\ UNCHANGED <<direction, mutex, disableAllNeeded, due, hasErrors,
                   sendActualNeeded, requestedDirection, ctxDone, activationFailed>>

ConfigureStraightOff ==
    /\ pc["main"] = "offStraight"
    /\ ChipCall("main", SetPin(chip, Straight, Level(Straight, FALSE)), "dirOff", "failed")
    /\ UNCHANGED <<direction, mutex, disableAllNeeded, due, hasErrors,
                   sendActualNeeded, requestedDirection, ctxDone, activationFailed>>

ConfigureOff ==
    /\ pc["main"] = "dirOff"
    /\ ChipCall("main", SetDirection(chip, Off, FALSE), "offOff", "failed")
    /\ UNCHANGED <<direction, mutex, disableAllNeeded, due, hasErrors,
                   sendActualNeeded, requestedDirection, ctxDone, activationFailed>>

(* The last of them goes on with switchTo(STRAIGHT), which first asks for   *)
(* an actual to be sent.                                                    *)
ConfigureOffOff ==
    /\ pc["main"] = "offOff"
    /\ ChipCall("main", SetPin(chip, Off, Level(Off, FALSE)), "deactivate", "failed")
    /\ sendActualNeeded' = (sendActualNeeded \/ pc'["main"] = "deactivate")
    /\ UNCHANGED <<direction, mutex, disableAllNeeded, due, hasErrors,
                   requestedDirection, ctxDone, activationFailed>>

-----------------------------------------------------------------------------
(* AfterSwitchTo that goes on as Configure does, whoever called switchTo.   *)
AfterSwitchToAsConfigure(t, ok) == IF ok THEN "configured" ELSE "failed"

(* Where switchTo returns to: the end of ProcessMessage, or of Configure.   *)
AfterSwitchTo(t, ok) ==
    IF t = "msg" THEN "idle" ELSE IF ok THEN "configured" ELSE "failed"

Unlock(t) == mutex' = IF mutex = t THEN "free" ELSE mutex

(* A request arrives while the type loop is subscribed.                     *)
MessageArrives ==
    /\ pc["main"] \in RunPc
    /\ ~ctxDone
    /\ pc["msg"] = "idle"
    /\ Goto("msg", "lock")
    /\ \E d \in Relay : direction' = [direction EXCEPT !["msg"] = d]
    /\ UNCHANGED <<chip, mutex, disableAllNeeded, due, hasErrors,
                   sendActualNeeded, requestedDirection, ctxDone, activationFailed>>

(* ProcessMessage takes the mutex and enters switchTo.                      *)
ProcessMessage ==
    /\ pc["msg"] = "lock"
    /\ mutex = "free"
    /\ mutex' = "msg"
    /\ Goto("msg", "deactivate")
    /\ sendActualNeeded' = TRUE
    /\ UNCHANGED <<chip, direction, disableAllNeeded, due, hasErrors,
                   requestedDirection, ctxDone, activationFailed>>

(* ProcessPowerMessage of a configured object, when power is on.            *)
ProcessPowerMessage ==
    /\ pc["main"] \in RunPc \cup {"configured", "done"}
    /\ sendActualNeeded' = TRUE
    /\ UNCHANGED <<chip, pc, direction, mutex, disableAllNeeded, due, hasErrors,
                   requestedDirection, ctxDone, activationFailed>>

(* Deactivate that goes on after an error.                                  *)
DeactivateIgnoringError(t) ==
    /\ pc[t] = "deactivate"
    /\ LET pin == Opposite(direction[t])
       IN  ChipCall(t, SetPin(chip, pin, Level(pin, FALSE)), "activate", "activate")
    /\ UNCHANGED <<direction, mutex, disableAllNeeded, due, hasErrors,
                   sendActualNeeded, requestedDirection, ctxDone, activationFailed>>

(* switchTo deactivates the relay of the opposite direction.                *)
Deactivate(t) ==
    /\ pc[t] = "deactivate"
    /\ LET pin == Opposite(direction[t])
       IN  ChipCall(t, SetPin(chip, pin, Level(pin, FALSE)),
                    "activate", AfterSwitchTo(t, FALSE))
    /\ IF pc'[t] = "activate" THEN UNCHANGED mutex ELSE Unlock(t)
    /\ UNCHANGED <<direction, disableAllNeeded, due, hasErrors,
                   sendActualNeeded, requestedDirection, ctxDone, activationFailed>>

(* switchTo activates the relay of the wanted direction. On an error it     *)
(* returns without scheduling a deactivation.                               *)
Activate(t) ==
    /\ pc[t] = "activate"
    /\ ChipCall(t, SetPin(chip, direction[t], Level(direction[t], TRUE)),
                "schedule", AfterSwitchTo(t, FALSE))
    /\ IF pc'[t] = "schedule" THEN UNCHANGED mutex ELSE Unlock(t)
    /\ activationFailed' = (activationFailed \/ pc'[t] = AfterSwitchTo(t, FALSE))
    /\ UNCHANGED <<direction, disableAllNeeded, due, hasErrors,
                   sendActualNeeded, requestedDirection, ctxDone>>

(* Schedule that does so only for a new direction.                          *)
ScheduleIfChanged(t) ==
    /\ pc[t] = "schedule"
    /\ disableAllNeeded' = (disableAllNeeded \/ requestedDirection # direction[t])
    /\ due' = FALSE
    /\ requestedDirection' = direction[t]
    /\ activationFailed' = FALSE
    /\ Goto(t, AfterSwitchTo(t, TRUE))
    /\ Unlock(t)
    /\ UNCHANGED <<chip, direction, hasErrors, sendActualNeeded, ctxDone>>

(* switchTo schedules the end of the pulse and returns.                     *)
Schedule(t) ==
    /\ pc[t] = "schedule"
    /\ disableAllNeeded' = TRUE
    /\ due' = FALSE
    /\ requestedDirection' = direction[t]
    /\ activationFailed' = FALSE
    /\ Goto(t, AfterSwitchTo(t, TRUE))
    /\ Unlock(t)
    /\ UNCHANGED <<chip, direction, hasErrors, sendActualNeeded, ctxDone>>

-----------------------------------------------------------------------------
(* The worker runs its configured objects, unless it was cancelled while    *)
(* configuring them.                                                        *)
StartRun ==
    /\ pc["main"] = "configured"
    /\ Goto("main", IF ctxDone THEN "done" ELSE "lock")
    /\ UNCHANGED <<chip, direction, mutex, disableAllNeeded, due, hasErrors,
                   sendActualNeeded, requestedDirection, ctxDone, activationFailed>>

(* Time passes disableAllTime.                                              *)
PulseEnds ==
    /\ disableAllNeeded
    /\ ~due
    /\ due' = TRUE
    /\ UNCHANGED <<chip, pc, direction, mutex, disableAllNeeded, hasErrors,
                   sendActualNeeded, requestedDirection, ctxDone, activationFailed>>

(* An iteration of Run with the mutex: coils are due to be deactivated.     *)
RunClears ==
    /\ pc["main"] = "lock"
    /\ mutex = "free"
    /\ disableAllNeeded /\ due
    /\ mutex' = "main"
    /\ hasErrors' = FALSE
    /\ Goto("main", "clearStraight")
    /\ UNCHANGED <<chip, direction, disableAllNeeded, due, sendActualNeeded,
                   requestedDirection, ctxDone, activationFailed>>

(* An iteration of Run that finds the pulse still on.                       *)
RunWaits ==
    /\ pc["main"] = "lock"
    /\ mutex = "free"
    /\ disableAllNeeded /\ ~due
    /\ Goto("main", "select")
    /\ UNCHANGED <<chip, direction, mutex, disableAllNeeded, due, hasErrors,
                   sendActualNeeded, requestedDirection, ctxDone, activationFailed>>

(* An iteration of Run with no pulse on: it sends the actual direction, if  *)
(* asked to. (What becomes of the message is the status service's matter.)  *)
RunSends ==
    /\ pc["main"] = "lock"
    /\ mutex = "free"
    /\ ~disableAllNeeded
    /\ sendActualNeeded' = FALSE
    /\ Goto("main", "select")
    /\ UNCHANGED <<chip, direction, mutex, disableAllNeeded, due, hasErrors,
                   requestedDirection, ctxDone, activationFailed>>

RunClearsStraight ==
    /\ pc["main"] = "clearStraight"
    /\ \E o \in SetPin(chip, Straight, Level(Straight, FALSE)) :
          /\ ChipReturns("main", o, "clearOff", "clearOff")
          /\ hasErrors' = Error(o)
    /\ UNCHANGED <<direction, mutex, disableAllNeeded, due, sendActualNeeded,
                   requestedDirection, ctxDone, activationFailed>>

(* The second deactivation, and the unlock.                                 *)
ClearOff ==
    /\ pc["main"] = "clearOff"
    /\ \E o \in SetPin(chip, Off, Level(Off, FALSE)) :
          /\ ChipReturns("main", o, "select", "select")
          /\ hasErrors' = (hasErrors \/ Error(o))
    /\ mutex' = "free"
    /\ activationFailed' = (activationFailed /\ hasErrors')
    /\ UNCHANGED <<direction, due, sendActualNeeded, requestedDirection, ctxDone>>

(* RunClearsOff that clears the flag whatever the errors.                   *)
RunClearsOffAnyway == ClearOff /\ disableAllNeeded' = FALSE

(* The pulse is over if neither deactivation had an error.                  *)
RunClearsOff == ClearOff /\ disableAllNeeded' = hasErrors'

(* The select of Run takes its 10 ms timer.                                 *)
RunContinues ==
    /\ pc["main"] = "select"
    /\ ~ctxDone
    /\ Goto("main", "lock")
    /\ UNCHANGED <<chip, direction, mutex, disableAllNeeded, due, hasErrors,
                   sendActualNeeded, requestedDirection, ctxDone, activationFailed>>

(* RunCancelled that returns at once.                                       *)
RunCancelledAtOnce ==
    /\ pc["main"] = "select"
    /\ ctxDone
    /\ Goto("main", "done")
    /\ UNCHANGED <<chip, direction, mutex, disableAllNeeded, due, hasErrors,
                   sendActualNeeded, requestedDirection, ctxDone, activationFailed>>

(* RunCancelled that leaves the select only, not the loop.                  *)
RunCancelledLoops ==
    /\ pc["main"] = "select"
    /\ ctxDone
    /\ Goto("main", "lock")
    /\ due' = (due \/ disableAllNeeded)
    /\ UNCHANGED <<chip, direction, mutex, disableAllNeeded, hasErrors,
                   sendActualNeeded, requestedDirection, ctxDone, activationFailed>>

(* The select of Run takes ctx.Done: one more loop if a pulse is on, which  *)
(* is made due. The flag is read, and the time written, without the mutex.  *)
RunCancelled ==
    /\ pc["main"] = "select"
    /\ ctxDone
    /\ Goto("main", IF disableAllNeeded THEN "lock" ELSE "done")
    /\ due' = (due \/ disableAllNeeded)
    /\ UNCHANGED <<chip, direction, mutex, disableAllNeeded, hasErrors,
                   sendActualNeeded, requestedDirection, ctxDone, activationFailed>>

-----------------------------------------------------------------------------
(* The worker is cancelled.                                                 *)
Cancel ==
    /\ ~ctxDone
    /\ ctxDone' = TRUE
    /\ UNCHANGED <<chip, pc, direction, mutex, disableAllNeeded, due, hasErrors,
                   sendActualNeeded, requestedDirection, activationFailed>>

(* The worker has seen Run return and closes its devices. It does not wait  *)
(* for the callback that processes a request.                               *)
CloseDevice ==
    /\ pc["main"] \in {"done", "failed"}
    /\ ctxDone
    /\ ChipCall("main", CloseChip(chip), "closed", "notClosed")
    /\ UNCHANGED <<direction, mutex, disableAllNeeded, due, hasErrors,
                   sendActualNeeded, requestedDirection, ctxDone, activationFailed>>

(* The other object configures its pin, or sets it.                         *)
OtherUsesChip ==
    /\ \/ \E o \in SetDirection(chip, Other, FALSE) :
             Other \in chip.iodir /\ o.kind = "ok" /\ chip' = o.chip
       \/ \E high \in BOOLEAN : \E o \in SetPin(chip, Other, high) :
             o.kind = "ok" /\ chip' = o.chip
    /\ pc["main"] \notin {"closed", "notClosed"}
    /\ UNCHANGED <<pc, direction, mutex, disableAllNeeded, due, hasErrors,
                   sendActualNeeded, requestedDirection, ctxDone, activationFailed>>

-----------------------------------------------------------------------------
SwitchTo(t) == Deactivate(t) \/ Activate(t) \/ Schedule(t)

Configure ==
    \/ ConfigureStraight
    \/ ConfigureStraightOff
    \/ ConfigureOff
    \/ ConfigureOffOff

Run ==
    \/ StartRun
    \/ RunClears
    \/ RunWaits
    \/ RunSends
    \/ RunClearsStraight
    \/ RunClearsOff
    \/ RunContinues
    \/ RunCancelled

Next ==
    \/ Configure
    \/ Run
    \/ \E t \in Thread : SwitchTo(t)
    \/ MessageArrives
    \/ ProcessMessage
    \/ ProcessPowerMessage
    \/ PulseEnds
    \/ Cancel
    \/ CloseDevice
    \/ OtherUsesChip

(* Goroutines are scheduled and time passes. A waiting Run gets the mutex   *)
(* although requests keep coming (a Go mutex hands over to a waiter that    *)
(* starves).                                                                *)
Fairness ==
    /\ WF_vars(Run)
    /\ SF_vars(RunClears) /\ SF_vars(RunWaits) /\ SF_vars(RunSends)
    /\ WF_vars(SwitchTo("msg"))
    /\ WF_vars(PulseEnds)

Spec == Init /\ [][Next]_vars

FairSpec == Spec /\ Fairness

-----------------------------------------------------------------------------
Running == pc["main"] \in RunPc

(* The two coils of the turnout are never energised together, whatever bus  *)
(* operation fails, what the failed ones left in the cache, and whoever     *)
(* writes the register next: switchTo and Configure activate a relay only   *)
(* after the other one was deactivated without an error. (Of relays that    *)
(* are active when low this is only true on an I2C expander: pins of the    *)
(* worker itself are opened low, and a car sensor is sent the zeros of its  *)
(* fresh cache with the first write of a register.)                         *)
NeverBothCoils == ~(Energised(Straight) /\ Energised(Off))

(* An energised coil of a configured turnout is scheduled to be released,   *)
(* at every moment the object is not in the middle of a change: no          *)
(* interleaving of Run, ProcessMessage and the cancellation, and no failing *)
(* deactivation, loses the end of a pulse. The exception is an activation   *)
(* that failed: switchTo returns without a schedule although the write may  *)
(* have arrived, or arrives with the next write of the register, and the    *)
(* coil is on until a request succeeds or an older pulse ends.              *)
CoilIsScheduled ==
    /\ ~activationFailed
    /\ pc["main"] \in RunPc \cup {"done"}
    /\ mutex = "free"
    /\ SomeCoil
    => disableAllNeeded

(* When Run has ended a pulse, both coils are off on the chip, also when    *)
(* deactivations had failed before: Run repeats both until an iteration     *)
(* has no error.                                                            *)
PulseEndReleasesCoils ==
    [][disableAllNeeded /\ ~disableAllNeeded' => ~SomeCoil']_vars

(* Once the worker has closed the chip no coil is energised any more, even  *)
(* by a request whose goroutine the worker did not wait for ("Close brings  *)
(* the device back to a safe state"). Holds for the drivers whose Close     *)
(* makes pins inputs for Set too; a car sensor and local pins do not.       *)
ClosedStaysSafe ==
    pc["main"] = "closed" /\ chip.kind \in {"mcp23017", "mcp23008", "pcf8574"} => ~SomeCoil

(* What follows needs the errors to stop: Run tries again after every       *)
(* iteration with an error, for ever if the chip keeps failing or a done    *)
(* context keeps being refused.                                             *)
ErrorsStop == <>[]~hasErrors

(* If the errors of Run stop, a scheduled release happens: unless a new     *)
(* request comes, the coils go off, whatever bus operations failed before,  *)
(* and through cancellation.                                                *)
ScheduledIsReleased ==
    ErrorsStop => (Running /\ disableAllNeeded ~> ~SomeCoil \/ pc["msg"] # "idle")

(* If the errors of Run stop, a cancelled object lets go: Run returns, so   *)
(* that the worker can give the hardware to its successor. It need not be   *)
(* after "one more loop": each loop with an error is followed by another.   *)
CancelledRunReturns == ErrorsStop => (Running /\ ctxDone ~> ~Running)
=============================================================================
