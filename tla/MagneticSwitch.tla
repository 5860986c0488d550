---------------------------- MODULE MagneticSwitch ----------------------------
(***************************************************************************)
(* A turnout with two magnets (pkg/service/objects/magnetic_switch.go),     *)
(* each between two pins: current flows through it forward, backward or not *)
(* at all. To switch, both are turned off, the one of the other direction is*)
(* driven backward and then the wanted one forward.                         *)
(*                                                                         *)
(* Requests come in goroutines of their own and wait for the mutex; Run only*)
(* sends actuals. (It would also turn the magnets off when disableAllNeeded *)
(* is set, but nothing sets it.)                                            *)
(***************************************************************************)
EXTENDS Naturals, Sequences

CONSTANTS
    StraightA, StraightB, OffA, OffB,  \* the pins of the magnets
    BankB,          \* pins in the second register of an mcp23017
    InvertPins,     \* magnets whose direction is inverted
    InvertedPin,    \* pins that are inverted
    AlwaysEnabled,  \* requests that are not in use drive the magnets too
    ChipKind,       \* an mcp23017 or a car sensor
    Left,           \* what the registers may hold from before: sets of pins
    Unused,         \* bound: directions of requests that are not in use
    MaxWaiting,     \* bound: requests that wait for the mutex
    MaxFailures     \* bound: calls that fail or are refused

Pin    == {StraightA, StraightB, OffA, OffB}
Magnet == {"straight", "off"}

ASSUME MagneticAssumption ==
    /\ \A p, q \in 1..4 : p # q => <<StraightA, StraightB, OffA, OffB>>[p]
                                    # <<StraightA, StraightB, OffA, OffB>>[q]
    /\ BankB \subseteq Pin /\ InvertedPin \subseteq Pin
    /\ InvertPins \subseteq Magnet
    /\ AlwaysEnabled \in BOOLEAN
    /\ ChipKind \in {"mcp23017", "carSensor"}
    /\ Left \subseteq SUBSET Pin
    /\ Unused \subseteq Magnet
    /\ MaxWaiting \in Nat /\ MaxFailures \in Nat

INSTANCE GpioChip

VARIABLES
    chip,                \* the GPIO chip
    object,              \* where the object is in its life
    configured,          \* pins that Configure has made outputs
    waiting,             \* requests that wait for the mutex
    working,             \* the request that holds it, in a set
    todo,                \* what that one still has to do
    sendActualNeeded,
    requestedDirection,
    reported,            \* the direction sent last
    failures

magnetVars == <<chip, object, configured, waiting, working, todo, sendActualNeeded,
                requestedDirection, reported, failures>>

Request == {r \in [direction : Magnet, isUsed : BOOLEAN] : r.isUsed \/ r.direction \in Unused}
SetCall == [pin : Pin, high : BOOLEAN]
RunPc   == {"lock", "publish"}

MagneticTypeOK ==
    /\ chip \in Chip
    /\ object \in {"none", "configure", "configured", "failed", "done"} \cup RunPc
    /\ configured \subseteq Pin
    /\ waiting \subseteq Request
    /\ working \subseteq Request
    /\ todo \in Seq(SetCall) /\ Len(todo) <= 8
    /\ working = {} => todo = <<>>
    /\ sendActualNeeded \in BOOLEAN
    /\ requestedDirection \in Magnet
    /\ reported \in Magnet \cup {"nothing"}
    /\ failures \in 0..MaxFailures

PinA(m) == IF m = "straight" THEN StraightA ELSE OffA
PinB(m) == IF m = "straight" THEN StraightB ELSE OffB

Active(pin) == pin \in (IF pin \in InvertedPin THEN DrivenLow(chip) ELSE DrivenHigh(chip))

(* The direction of the current through a magnet.                           *)
Forward(m) ==
    IF m \in InvertPins THEN Active(PinB(m)) /\ ~Active(PinA(m))
                        ELSE Active(PinA(m)) /\ ~Active(PinB(m))
Backward(m) ==
    IF m \in InvertPins THEN Active(PinA(m)) /\ ~Active(PinB(m))
                        ELSE Active(PinB(m)) /\ ~Active(PinA(m))

MagneticInit ==
    /\ chip \in {c \in FreshChip : c.kind = ChipKind /\ c.hwValue \in Left}
    /\ object = "none"
    /\ configured = {}
    /\ waiting = {}
    /\ working = {}
    /\ todo = <<>>
    /\ sendActualNeeded = FALSE
    /\ requestedDirection = "straight"
    /\ reported = "nothing"
    /\ failures = 0

Fail == failures < MaxFailures /\ failures' = failures + 1

-----------------------------------------------------------------------------
Opposite(m) == IF m = "straight" THEN "off" ELSE "straight"

Call(pin, value) == [pin |-> pin, high |-> value # (pin \in InvertedPin)]

ActivateMagnet(m, forward) ==
    LET f == forward # (m \in InvertPins)
    IN  <<Call(PinA(m), f), Call(PinB(m), ~f)>>

DeactivateMagnet(m) == <<Call(PinA(m), FALSE), Call(PinB(m), FALSE)>>

(* SwitchTo that leaves the other magnet without current.                   *)
SwitchToOneMagnet(direction, enabled) ==
    DeactivateMagnet("straight") \o DeactivateMagnet("off")
    \o (IF enabled THEN ActivateMagnet(direction, TRUE) ELSE <<>>)

(* The calls of Set that switchTo makes.                                    *)
SwitchTo(direction, enabled) ==
    DeactivateMagnet("straight") \o DeactivateMagnet("off")
    \o (IF enabled
        THEN ActivateMagnet(Opposite(direction), FALSE) \o ActivateMagnet(direction, TRUE)
        ELSE <<>>)

(* Configure makes the pins outputs, in this order. A chip puts out what its*)
(* register still holds.                                                    *)
Configure(contextDone) ==
    LET order == <<StraightA, StraightB, OffA, OffB>>
        next  == CHOOSE i \in 1..4 : /\ order[i] \notin configured
                                     /\ \A j \in 1..(i - 1) : order[j] \in configured
    IN  /\ object = "configure"
        /\ \E o \in SetDirection(chip, order[next], FALSE) :
              /\ o.kind = "refused" => contextDone
              /\ chip' = o.chip
              /\ IF o.kind = "ok"
                 THEN /\ configured' = configured \cup {order[next]}
                      /\ object' = IF next = 4 THEN "configured" ELSE "configure"
                      /\ UNCHANGED failures
                 ELSE /\ Fail
                      /\ object' = "failed"
                      /\ UNCHANGED configured
        /\ UNCHANGED <<waiting, working, todo, sendActualNeeded, requestedDirection, reported>>

-----------------------------------------------------------------------------
(* ProcessMessage takes the mutex and asks for an actual.                   *)
ProcessMessage(r) ==
    /\ r \in waiting
    /\ working = {}
    /\ waiting' = waiting \ {r}
    /\ working' = {r}
    /\ todo' = SwitchTo(r.direction, r.isUsed \/ AlwaysEnabled)
    /\ sendActualNeeded' = TRUE
    /\ UNCHANGED <<chip, object, configured, requestedDirection, reported, failures>>

(* The deferred unlock of ProcessMessage, forgotten.                        *)
UnlockForgotten == UNCHANGED working

Unlock == working' = {}

(* SetMagnetPin that goes on after an error.                                *)
SetMagnetPinAnyway(contextDone) ==
    /\ todo # <<>>
    /\ \E o \in SetPin(chip, Head(todo).pin, Head(todo).high) :
          /\ o.kind = "refused" => contextDone
          /\ chip' = o.chip
          /\ todo' = Tail(todo)
          /\ IF o.kind = "ok" THEN UNCHANGED <<working, failures>> ELSE Fail /\ Unlock
    /\ UNCHANGED <<object, configured, waiting, sendActualNeeded, requestedDirection, reported>>

(* The next call of switchTo; an error ends it.                             *)
SetMagnetPin(contextDone) ==
    /\ todo # <<>>
    /\ \E o \in SetPin(chip, Head(todo).pin, Head(todo).high) :
          /\ o.kind = "refused" => contextDone
          /\ chip' = o.chip
          /\ IF o.kind = "ok"
             THEN todo' = Tail(todo) /\ UNCHANGED <<working, failures>>
             ELSE todo' = <<>> /\ Fail /\ Unlock
    /\ UNCHANGED <<object, configured, waiting, sendActualNeeded, requestedDirection, reported>>

(* All of them went well: the direction is stored and the mutex released.   *)
EndSwitch ==
    /\ todo = <<>>
    /\ \E r \in working : requestedDirection' = r.direction
    /\ Unlock
    /\ UNCHANGED <<chip, object, configured, waiting, todo, sendActualNeeded, reported, failures>>

-----------------------------------------------------------------------------
(* The select at the end of a round.                                        *)
AfterRound(contextDone) == IF contextDone THEN "done" ELSE "lock"

(* RunRound without the mutex.                                              *)
RunRoundUnlocked(contextDone) ==
    /\ object = "lock"
    /\ sendActualNeeded' = FALSE
    /\ object' = IF sendActualNeeded THEN "publish" ELSE AfterRound(contextDone)
    /\ UNCHANGED <<chip, configured, waiting, working, todo, requestedDirection, reported,
                   failures>>

(* A round of Run takes the flag, with the mutex.                           *)
RunRound(contextDone) ==
    /\ object = "lock"
    /\ working = {}
    /\ sendActualNeeded' = FALSE
    /\ object' = IF sendActualNeeded THEN "publish" ELSE AfterRound(contextDone)
    /\ UNCHANGED <<chip, configured, waiting, working, todo, requestedDirection, reported,
                   failures>>

(* The actual is composed and published without it.                         *)
RunPublishes(contextDone) ==
    /\ object = "publish"
    /\ reported' = requestedDirection
    /\ object' = AfterRound(contextDone)
    /\ UNCHANGED <<chip, configured, waiting, working, todo, sendActualNeeded,
                   requestedDirection, failures>>

Run(contextDone) == RunRound(contextDone) \/ RunPublishes(contextDone)

(* ProcessPowerMessage: power is on.                                        *)
ProcessPowerMessage ==
    /\ sendActualNeeded' = TRUE
    /\ UNCHANGED <<chip, object, configured, waiting, working, todo, requestedDirection,
                   reported, failures>>
=============================================================================
