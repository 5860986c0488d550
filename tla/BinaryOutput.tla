---------------------------- MODULE BinaryOutput -----------------------------
(***************************************************************************)
(* A binary output (pkg/service/objects/binary_output.go) on a GPIO chip or *)
(* on an MQTT module. Requests write targetState and then a flag, from      *)
(* goroutines of their own and without a lock; Run sets the pin, takes the  *)
(* target for the current state and publishes it if the flag was set.       *)
(***************************************************************************)
EXTENDS StatusService

CONSTANT InvertOutput

ASSUME OutputAssumption == InvertOutput \in BOOLEAN

VARIABLES
    device,     \* "chip" or "mqtt"
    pin,        \* the level of the pin is high
    late,       \* levels that MQTT has yet to deliver
    output,     \* where Run is
    request,    \* where the callback of a request is
    setting,    \* the argument of the call of Set (out of use it is "inactive")
    initialized,
    targetState,
    currentState,
    sendActualNeeded

outputVars == <<device, pin, late, output, request, setting, initialized, targetState,
                currentState, sendActualNeeded>>

OutputPc == {"test", "set", "store", "report", "publish", "select"}

OutputTypeOK ==
    /\ device \in {"chip", "mqtt"}
    /\ pin \in BOOLEAN
    /\ late \in Seq(BOOLEAN)
    /\ Len(late) <= failures
    /\ output \in OutputPc \cup {"configure", "failed", "done", "none"}
    /\ request \in {"idle", "flag"}
    /\ setting \in Value
    /\ initialized \in BOOLEAN
    /\ targetState \in Value
    /\ currentState \in Value
    /\ sendActualNeeded \in BOOLEAN

OutputInit ==
    /\ device \in {"chip", "mqtt"}
    /\ pin \in BOOLEAN
    /\ late = <<>>
    /\ request = "idle"
    /\ setting = "inactive"
    /\ initialized = FALSE
    /\ targetState = "inactive"
    /\ currentState = "inactive"
    /\ sendActualNeeded = FALSE

-----------------------------------------------------------------------------
Level(state) == (state = "active") # InvertOutput

(* Configure makes the pin an output, five times over; a chip then puts out *)
(* the level in its cache. An error leaves the object unused.               *)
OutputConfigure ==
    /\ output = "configure"
    /\ \/ output' = "test" /\ UNCHANGED failures
       \/ output' = "failed" /\ Fail
    /\ IF device = "chip" THEN pin' \in BOOLEAN ELSE UNCHANGED pin
    /\ UNCHANGED <<device, late, request, setting, initialized, targetState, currentState,
                   sendActualNeeded, statusVars>>

(* TestTarget that sets the pin only the first time.                        *)
TestTargetOnce ==
    /\ output = "test"
    /\ output' = IF ~initialized THEN "set" ELSE "report"
    /\ setting' = IF output' = "set" THEN targetState ELSE "inactive"
    /\ UNCHANGED <<device, pin, late, request, initialized, targetState, currentState,
                   sendActualNeeded, statusVars, failures>>

(* Run reads the target twice: to compare it and to set the pin.            *)
TestTarget ==
    /\ output = "test"
    /\ output' = IF ~initialized \/ targetState # currentState THEN "set" ELSE "report"
    /\ setting' = IF output' = "set" THEN targetState ELSE "inactive"
    /\ UNCHANGED <<device, pin, late, request, initialized, targetState, currentState,
                   sendActualNeeded, statusVars, failures>>

(* A Set of a chip that fails may have changed the pin; the error is logged.*)
SetChip ==
    /\ device = "chip"
    /\ \/ pin' = Level(setting) /\ UNCHANGED failures
       \/ pin' \in {pin, Level(setting)} /\ Fail
    /\ UNCHANGED late

(* Set of MQTT has no error; when it waits in vain for the delivery, the    *)
(* message comes later, before those that follow.                           *)
SetMqtt ==
    /\ device = "mqtt"
    /\ \/ pin' = Level(setting) /\ late' = <<>> /\ UNCHANGED failures
       \/ late' = Append(late, Level(setting)) /\ UNCHANGED pin /\ Fail

SetOutput ==
    /\ output = "set"
    /\ SetChip \/ SetMqtt
    /\ output' = "store"
    /\ setting' = "inactive"
    /\ UNCHANGED <<device, request, initialized, targetState, currentState,
                   sendActualNeeded, statusVars>>

(* The target, read once more, becomes the current state.                   *)
StoreCurrent ==
    /\ output = "store"
    /\ currentState' = targetState
    /\ initialized' = TRUE
    /\ output' = "report"
    /\ UNCHANGED <<device, pin, late, request, setting, targetState, sendActualNeeded,
                   statusVars, failures>>

TestReport ==
    /\ output = "report"
    /\ sendActualNeeded' = FALSE
    /\ output' = IF sendActualNeeded THEN "publish" ELSE "select"
    /\ UNCHANGED <<device, pin, late, request, setting, initialized, targetState,
                   currentState, statusVars, failures>>

(* The current state is published; whether that worked is not looked at.    *)
PublishCurrent ==
    /\ output = "publish"
    /\ \/ Enqueue(currentState) /\ UNCHANGED failures
       \/ PublishTimesOut
    /\ output' = "select"
    /\ UNCHANGED <<device, pin, late, request, setting, initialized, targetState,
                   currentState, sendActualNeeded>>

OutputSelect ==
    /\ output = "select"
    /\ output' = IF ctxDone THEN "done" ELSE "test"
    /\ UNCHANGED <<device, pin, late, request, setting, initialized, targetState,
                   currentState, sendActualNeeded, statusVars, failures>>

OutputRun ==
    \/ OutputConfigure
    \/ TestTarget
    \/ SetOutput
    \/ StoreCurrent
    \/ TestReport
    \/ PublishCurrent
    \/ OutputSelect

-----------------------------------------------------------------------------
(* ProcessMessage writes the target,                                        *)
WriteTarget ==
    /\ output \in OutputPc
    /\ request = "idle" /\ ~ctxDone
    /\ targetState' \in Value
    /\ request' = "flag"
    /\ UNCHANGED <<device, pin, late, output, setting, initialized, currentState,
                   sendActualNeeded>>

(* and then the flag.                                                       *)
WriteFlag ==
    /\ request = "flag"
    /\ sendActualNeeded' = TRUE
    /\ request' = "idle"
    /\ UNCHANGED <<device, pin, late, output, setting, initialized, targetState,
                   currentState>>

(* A late message of MQTT arrives at the module.                            *)
DeliverLate ==
    /\ late # <<>>
    /\ pin' = Head(late)
    /\ late' = Tail(late)
    /\ UNCHANGED <<device, output, request, setting, initialized, targetState,
                   currentState, sendActualNeeded>>
=============================================================================
