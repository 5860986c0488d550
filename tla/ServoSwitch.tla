----------------------------- MODULE ServoSwitch -----------------------------
(***************************************************************************)
(* A turnout moved by a servo (pkg/service/objects/servo_switch.go). The    *)
(* frog of the turnout is powered through one of two phase relays; while    *)
(* the blades move neither relay may be energised, and never the one of the *)
(* position the blades are not in.                                          *)
(*                                                                         *)
(* Requests write targetPL from goroutines of their own; Run is a state     *)
(* machine that does one thing per iteration and reads targetPL only when   *)
(* it is idle. The two words shared with requests are accessed atomically.  *)
(*                                                                         *)
(* The servo hangs on one of three devices: a pca9685 with four registers   *)
(* per output, a car sensor with one, or an MQTT module that is sent the    *)
(* pulse only if the driver does not remember to have sent it already.      *)
(***************************************************************************)
EXTENDS PhaseRelay, Sequences

CONSTANTS
    StraightPL, OffPL,  \* pulse lengths of the two positions
    StepSize            \* largest change of the pulse length in an iteration

ASSUME PulseAssumption ==
    /\ StraightPL \in Nat /\ OffPL \in Nat /\ StraightPL # OffPL
    /\ StepSize \in Nat \ {0}

VARIABLES
    targetPL,         \* as requested
    currentPL,        \* the pulse length set last
    sendActualNeeded,
    state,            \* the state of Run
    moveTo,           \* local variable targetPL of Run
    pc,               \* where Run is in its iteration
    servo,            \* the PWM device
    reported,         \* the actual direction published last
    ctxDone

vars == <<on, lastActive, failures, targetPL, currentPL, sendActualNeeded, state,
          moveTo, pc, servo, reported, ctxDone>>

Direction == {"straight", "off"}
Target    == {StraightPL, OffPL}

Lowest  == IF StraightPL < OffPL THEN StraightPL ELSE OffPL
Highest == IF StraightPL < OffPL THEN OffPL ELSE StraightPL
Between == Lowest..Highest

(* The output holds pulse, unless a transfer failed half-way (known is      *)
(* FALSE). A pca9685 drives the servo only when enabled, the others always. *)
(* Of MQTT: the cached payload, if any, and the messages on their way. The  *)
(* unit of pulses is one that the device tells apart.                       *)
Servo == [kind : {"pca9685", "carSensor", "mqtt"}, pulse : Between, known : BOOLEAN,
          enabled : BOOLEAN, sent : SUBSET Between, late : Seq(Between)]

ConfigurePc == {"relayStraight", "relayOff", "halfWay", "release"}

TypeOK ==
    /\ on \subseteq Direction
    /\ lastActive \subseteq Direction
    /\ failures \in 0..MaxFailures
    /\ targetPL \in Target
    /\ currentPL \in Between
    /\ sendActualNeeded \in BOOLEAN
    /\ state \in {"idle", "deactivateRelays", "moveServo", "servoSettle",
                  "disableServo", "activateRelays"}
    /\ moveTo \in Target
    /\ pc \in ConfigurePc \cup {"switch", "send", "phaseOff", "select", "done", "failed"}
    /\ servo \in Servo
    /\ Len(servo.late) <= failures
    /\ reported \in Direction \cup {"none"}
    /\ ctxDone \in BOOLEAN

(* newServoSwitch takes the relays for active; they and the servo are as    *)
(* the previous worker left them. Configure starts with its assignments.    *)
Init ==
    /\ on \in SUBSET Direction
    /\ lastActive = Direction
    /\ failures = 0
    /\ targetPL = StraightPL
    /\ currentPL = (StraightPL + OffPL) \div 2
    /\ sendActualNeeded = TRUE
    /\ state = "idle"
    /\ moveTo = StraightPL
    /\ pc = "relayStraight"
    /\ servo \in [kind : {"pca9685", "carSensor", "mqtt"}, pulse : Target, known : {FALSE},
                  enabled : {TRUE}, sent : {{}}, late : {<<>>}]
    /\ reported = "none"
    /\ ctxDone = FALSE

-----------------------------------------------------------------------------
DirectionOf(pl) == IF pl = OffPL THEN "off" ELSE "straight"

(* The switch statement of Run is about to execute state s.                 *)
In(s) == pc = "switch" /\ state = s

(* The iteration ends, in state s.                                          *)
EndIn(s) == state' = s /\ pc' = "select"

(* SetPWM of a pca9685. A failed transfer has written some of the four      *)
(* registers of the output, or all, or none.                                *)
Pca9685SetPWM(pulse, enabled) ==
    \/ /\ servo' = [servo EXCEPT !.pulse = pulse, !.known = TRUE, !.enabled = enabled]
       /\ UNCHANGED failures
    \/ /\ \E e \in {servo.enabled, enabled} :
             servo' = [servo EXCEPT !.known = FALSE, !.enabled = e]
       /\ Fail

(* SetPWM of a car sensor, which does nothing with enabled.                 *)
CarSensorSetPWM(pulse) ==
    \/ /\ servo' = [servo EXCEPT !.pulse = pulse, !.known = TRUE]
       /\ UNCHANGED failures
    \/ /\ \E p \in {servo.pulse, pulse} : servo' = [servo EXCEPT !.pulse = p]
       /\ Fail

(* SetPWM of MQTT never has an error. Messages arrive in the order they     *)
(* were published. One that is not final may be lost, with the driver taking*)
(* it as sent (dropped without a connection) or not (no answer in time);    *)
(* one that is final is kept by the client until it is delivered.           *)
MqttSetPWM(pulse, final) ==
    \/ /\ pulse \in servo.sent
       /\ UNCHANGED <<servo, failures>>
    \/ /\ servo' = [servo EXCEPT !.pulse = pulse, !.known = TRUE, !.sent = {pulse},
                                 !.late = <<>>]
       /\ UNCHANGED failures
    \/ /\ IF final
          THEN servo' = [servo EXCEPT !.late = Append(@, pulse)]
          ELSE \E sent \in {servo.sent, {pulse}} : servo' = [servo EXCEPT !.sent = sent]
       /\ Fail

SetPWM(pulse, enabled, final) ==
    CASE servo.kind = "pca9685"   -> Pca9685SetPWM(pulse, enabled)
      [] servo.kind = "carSensor" -> CarSensorSetPWM(pulse)
      [] servo.kind = "mqtt"      -> MqttSetPWM(pulse, final)

(* The call of SetPWM that this step makes returned an error.               *)
SetPWMFailed == servo.kind # "mqtt" /\ failures' # failures

(* The message that MQTT kept for the servo arrives.                        *)
Deliver ==
    /\ servo.late # <<>>
    /\ servo' = [servo EXCEPT !.pulse = Head(servo.late), !.known = TRUE, !.late = Tail(@)]
    /\ UNCHANGED <<relayVars, targetPL, currentPL, sendActualNeeded, state, moveTo, pc,
                   reported, ctxDone>>

(* onMessage: a state message of the servo overwrites the cached payload.   *)
StateMessage ==
    /\ servo.kind = "mqtt"
    /\ servo.sent # {}
    /\ servo' = [servo EXCEPT !.sent = {}]
    /\ UNCHANGED <<relayVars, targetPL, currentPL, sendActualNeeded, state, moveTo, pc,
                   reported, ctxDone>>

-----------------------------------------------------------------------------
(* configure of a phase relay: an output that is deactivated, whatever it   *)
(* was before; an error ends Configure, and the object is not used.         *)
ConfigureRelay(r, place, next) ==
    /\ pc = place
    /\ \/ /\ on' = on \ {r}
          /\ lastActive' = lastActive \ {r}
          /\ pc' = next
          /\ UNCHANGED failures
       \/ /\ Fail
          /\ on' \in {on, on \cup {r}, on \ {r}}
          /\ pc' = "failed"
          /\ UNCHANGED lastActive
    /\ UNCHANGED <<targetPL, currentPL, sendActualNeeded, state, moveTo, servo, reported,
                   ctxDone>>

(* The servo is sent half way and then switched off.                        *)
ConfigureServo(enabled, place, next) ==
    /\ pc = place
    /\ SetPWM(currentPL, enabled, ~enabled)
    /\ pc' = IF SetPWMFailed THEN "failed" ELSE next
    /\ UNCHANGED <<on, lastActive, targetPL, currentPL, sendActualNeeded, state, moveTo,
                   reported, ctxDone>>

(* After Configure the worker looks at its context, as Select does.         *)
Configure ==
    \/ ConfigureRelay("straight", "relayStraight", "relayOff")
    \/ ConfigureRelay("off", "relayOff", "halfWay")
    \/ ConfigureServo(TRUE, "halfWay", "release")
    \/ ConfigureServo(FALSE, "release", "select")

-----------------------------------------------------------------------------
(* Idle fetches the target and finds that it has to move there.             *)
IdleMoves ==
    /\ In("idle")
    /\ moveTo' = targetPL
    /\ targetPL # currentPL
    /\ EndIn("deactivateRelays")
    /\ UNCHANGED <<relayVars, targetPL, currentPL, sendActualNeeded, servo,
                   reported, ctxDone>>

(* Idle finds that it is there.                                             *)
IdleStays ==
    /\ In("idle")
    /\ moveTo' = targetPL
    /\ targetPL = currentPL
    /\ pc' = "send"
    /\ UNCHANGED <<relayVars, targetPL, currentPL, sendActualNeeded, state, servo,
                   reported, ctxDone>>

(* IdleSends that reports the target.                                       *)
IdleSendsTarget ==
    /\ pc = "send"
    /\ sendActualNeeded' = FALSE
    /\ \/ reported' = DirectionOf(targetPL)
       \/ ~sendActualNeeded /\ UNCHANGED reported
    /\ pc' = "select"
    /\ UNCHANGED <<relayVars, targetPL, currentPL, state, moveTo, servo, ctxDone>>

(* The compare-and-swap of sendActualNeeded; the actual is published if the *)
(* flag was set, and otherwise every five seconds.                          *)
IdleSends ==
    /\ pc = "send"
    /\ sendActualNeeded' = FALSE
    /\ \/ reported' = DirectionOf(currentPL)
       \/ ~sendActualNeeded /\ UNCHANGED reported
    /\ pc' = "select"
    /\ UNCHANGED <<relayVars, targetPL, currentPL, state, moveTo, servo, ctxDone>>

DeactivateStraight ==
    /\ In("deactivateRelays")
    /\ SwitchRelay("straight", FALSE)
    /\ pc' = "phaseOff"
    /\ UNCHANGED <<targetPL, currentPL, sendActualNeeded, state, moveTo, servo,
                   reported, ctxDone>>

(* The second relay. Whatever came of the two, Run goes on to move.         *)
DeactivateOff ==
    /\ pc = "phaseOff"
    /\ SwitchRelay("off", FALSE)
    /\ EndIn("moveServo")
    /\ UNCHANGED <<targetPL, currentPL, sendActualNeeded, moveTo, servo, reported,
                   ctxDone>>

(* The pulse length of the target has been set.                             *)
MoveReached ==
    /\ In("moveServo")
    /\ moveTo = currentPL
    /\ EndIn("servoSettle")
    /\ UNCHANGED <<relayVars, targetPL, currentPL, sendActualNeeded, moveTo, servo,
                   reported, ctxDone>>

Distance(a, b) == IF a < b THEN b - a ELSE a - b

(* NextPL without the limit on the last step.                               *)
NextPLUnlimited == IF currentPL < moveTo THEN currentPL + StepSize
                                         ELSE currentPL - StepSize

NextPL ==
    LET left == Distance(moveTo, currentPL)
        step == IF left < StepSize THEN left ELSE StepSize
    IN  IF currentPL < moveTo THEN currentPL + step ELSE currentPL - step

(* A step towards the target; if it fails the next iteration repeats it.    *)
MoveStep ==
    /\ In("moveServo")
    /\ moveTo # currentPL
    /\ SetPWM(NextPL, TRUE, NextPL = moveTo)
    /\ currentPL' = IF SetPWMFailed THEN currentPL ELSE NextPL
    /\ EndIn("moveServo")
    /\ UNCHANGED <<on, lastActive, targetPL, sendActualNeeded, moveTo, reported,
                   ctxDone>>

(* The settle time has not passed.                                          *)
SettleWaits ==
    /\ In("servoSettle")
    /\ EndIn("servoSettle")
    /\ UNCHANGED <<relayVars, targetPL, currentPL, sendActualNeeded, moveTo, servo,
                   reported, ctxDone>>

(* It has passed.                                                           *)
Settled ==
    /\ In("servoSettle")
    /\ EndIn("disableServo")
    /\ UNCHANGED <<relayVars, targetPL, currentPL, sendActualNeeded, moveTo, servo,
                   reported, ctxDone>>

(* The servo is switched off. A failure is logged and not repeated.         *)
DisableServo ==
    /\ In("disableServo")
    /\ SetPWM(currentPL, FALSE, TRUE)
    /\ EndIn("activateRelays")
    /\ UNCHANGED <<on, lastActive, targetPL, currentPL, sendActualNeeded, moveTo, reported,
                   ctxDone>>

(* ActivateRelay that follows the latest request.                           *)
ActivateRequestedRelay ==
    /\ In("activateRelays")
    /\ SwitchRelay(DirectionOf(targetPL), TRUE)
    /\ sendActualNeeded' = TRUE
    /\ EndIn("idle")
    /\ UNCHANGED <<targetPL, currentPL, moveTo, servo, reported, ctxDone>>

(* ActivateRelay that does not ask for an actual.                           *)
ActivateRelaySilent ==
    /\ In("activateRelays")
    /\ SwitchRelay(DirectionOf(moveTo), TRUE)
    /\ EndIn("idle")
    /\ UNCHANGED <<targetPL, currentPL, sendActualNeeded, moveTo, servo, reported,
                   ctxDone>>

(* The relay of the direction that was moved to is activated, and an actual *)
(* asked for.                                                               *)
ActivateRelay ==
    /\ In("activateRelays")
    /\ SwitchRelay(DirectionOf(moveTo), TRUE)
    /\ sendActualNeeded' = TRUE
    /\ EndIn("idle")
    /\ UNCHANGED <<targetPL, currentPL, moveTo, servo, reported, ctxDone>>

(* The select at the end of an iteration takes its timer or ctx.Done.       *)
Select ==
    /\ pc = "select"
    /\ pc' = IF ctxDone THEN "done" ELSE "switch"
    /\ UNCHANGED <<relayVars, targetPL, currentPL, sendActualNeeded, state, moveTo,
                   servo, reported, ctxDone>>

-----------------------------------------------------------------------------
Running == pc \notin ConfigurePc \cup {"failed"} /\ ~ctxDone

(* A request: targetPL is swapped, and if it changed an actual is asked     *)
(* for. (Between the two Run may publish once less; it publishes anyway     *)
(* when the move is over.)                                                  *)
ProcessMessage ==
    /\ Running
    /\ targetPL' \in Target
    /\ sendActualNeeded' = (sendActualNeeded \/ targetPL' # targetPL)
    /\ UNCHANGED <<relayVars, currentPL, state, moveTo, pc, servo, reported, ctxDone>>

(* Track power is turned on.                                                *)
ProcessPowerMessage ==
    /\ Running
    /\ sendActualNeeded' = TRUE
    /\ UNCHANGED <<relayVars, targetPL, currentPL, state, moveTo, pc, servo,
                   reported, ctxDone>>

Cancel ==
    /\ ~ctxDone
    /\ ctxDone' = TRUE
    /\ UNCHANGED <<relayVars, targetPL, currentPL, sendActualNeeded, state, moveTo,
                   pc, servo, reported>>

-----------------------------------------------------------------------------
Run ==
    \/ IdleMoves
    \/ IdleStays
    \/ IdleSends
    \/ DeactivateStraight
    \/ DeactivateOff
    \/ MoveReached
    \/ MoveStep
    \/ SettleWaits
    \/ Settled
    \/ DisableServo
    \/ ActivateRelay
    \/ Select

Next == Configure \/ Run \/ Deliver \/ StateMessage \/ ProcessMessage \/ ProcessPowerMessage \/ Cancel

Spec == Init /\ [][Next]_vars

(* The goroutine of Run is scheduled, its timers fire, and the settle time  *)
(* passes.                                                                  *)
FairSpec == Spec /\ WF_vars(Configure) /\ WF_vars(Run) /\ SF_vars(Settled)

-----------------------------------------------------------------------------
(* As long as no call of the hardware failed, a phase relay of a configured *)
(* object is energised only while the servo stands still, and switched off  *)
(* if its device can do that, in the position the relay belongs to, whatever*)
(* was requested meanwhile: the frog never has the polarity of the other    *)
(* track, and never both.                                                   *)
RelayMatchesPosition ==
    failures = 0 /\ on # {} /\ pc \notin ConfigurePc =>
        /\ servo.pulse \in Target
        /\ on = {DirectionOf(servo.pulse)}
        /\ servo.kind = "pca9685" => ~servo.enabled

(* Every step of a move sends the servo nearer to its target and never past *)
(* it, so it is not driven beyond the configured positions, and a move      *)
(* ends.                                                                    *)
MovesNearer ==
    [][currentPL' # currentPL =>
          Distance(moveTo, currentPL') < Distance(moveTo, currentPL)]_vars

(* A direction is reported as actual only after the pulse of its position   *)
(* has been set, and while no move is under way.                            *)
ActualIsReached ==
    [][reported' # reported =>
          currentPL = moveTo /\ reported' = DirectionOf(moveTo) /\ state = "idle"]_vars

(* A request that is not replaced by another is obeyed and reported, also   *)
(* when it arrives during a move to the other position and when calls of    *)
(* the hardware fail.                                                       *)
RequestIsObeyed ==
    \A pl \in Target :
        targetPL = pl ~>
            \/ currentPL = pl /\ reported = DirectionOf(pl)
            \/ targetPL # pl
            \/ ctxDone
            \/ pc = "failed"

(* While the servo moves all phase relays have been deactivated, as the     *)
(* comments on servoSwitchRunStateDeactivateRelays say.                     *)
RelaysOffWhileMoving == state = "moveServo" => on = {}
=============================================================================
