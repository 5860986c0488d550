---------------------------- MODULE BinarySensor -----------------------------
(***************************************************************************)
(* A binary sensor (pkg/service/objects/binary_sensor.go), read through a   *)
(* GPIO pin, an analog input or the last MQTT message. Run reads it every   *)
(* 50 ms and publishes a change; it repeats itself every 15 s, after track  *)
(* power was turned on, and after a publication that was not accepted. A    *)
(* sensor that cannot be read counts as active, "to avoid trains running    *)
(* wild".                                                                   *)
(***************************************************************************)
EXTENDS StatusService

CONSTANT InvertSensor  \* the configuration asks for the inverse

ASSUME SensorAssumption == InvertSensor \in BOOLEAN

VARIABLES
    reader,     \* the kind of device: "gpio", "adc" or "mqtt"
    input,      \* what the device has to tell
    readable,   \* its reads succeed
    sensor,     \* where Run is
    value,      \* local variables of Run: the value read last,
    lastValue,  \*   the one that was queued last,
    changes,    \*   whether there has been one,
    stale,      \*   and whether lastSent is 15 s ago
    sendNow

sensorVars == <<sensor, value, lastValue, changes, stale, sendNow>>
wireVars   == <<reader, input, readable>>

SensorPc == {"read", "converting", "test", "publish", "select"}

SensorTypeOK ==
    /\ reader \in {"gpio", "adc", "mqtt"}
    /\ input \in Value
    /\ readable \in BOOLEAN
    /\ sensor \in SensorPc \cup {"done", "none"}
    /\ value \in Value
    /\ lastValue \in Value
    /\ changes \in BOOLEAN
    /\ stale \in BOOLEAN
    /\ sendNow \in BOOLEAN

SensorInit ==
    /\ reader \in {"gpio", "adc", "mqtt"}
    /\ input = "inactive"
    /\ readable = TRUE
    /\ value = "inactive"
    /\ lastValue = "inactive"
    /\ changes = FALSE
    /\ stale = FALSE
    /\ sendNow = FALSE

-----------------------------------------------------------------------------
Opposite(v) == CHOOSE w \in Value : w # v

(* Run inverts what was read without an error.                              *)
Converted == IF InvertSensor THEN Opposite(input) ELSE input

(* The value of an iteration whose read failed.                             *)
FailSafe == "active"

Goto(place) == sensor' = place

(* Get of a pin is one operation of the bus (or a read of a file); an MQTT  *)
(* pin is read from the map that onMessage fills, without an error.         *)
ReadPin ==
    /\ sensor = "read"
    /\ reader \in {"gpio", "mqtt"}
    /\ value' = IF readable \/ reader = "mqtt" THEN Converted ELSE FailSafe
    /\ Goto("test")
    /\ UNCHANGED <<lastValue, changes, stale, sendNow, wireVars, statusVars, shared,
                   failures, ctxDone>>

(* Get of an analog input starts a conversion.                              *)
StartConversion ==
    /\ sensor = "read"
    /\ reader = "adc"
    /\ IF readable
       THEN Goto("converting") /\ UNCHANGED value
       ELSE Goto("test") /\ value' = FailSafe
    /\ UNCHANGED <<lastValue, changes, stale, sendNow, wireVars, statusVars, shared,
                   failures, ctxDone>>

(* It polls until the conversion is complete, and compares the result with  *)
(* the threshold. An error, a second without a result or the end of the     *)
(* context is a failed read.                                                *)
EndConversion ==
    /\ sensor = "converting"
    /\ \/ readable /\ value' = Converted
       \/ (~readable \/ ctxDone) /\ value' = FailSafe
    /\ Goto("test")
    /\ UNCHANGED <<lastValue, changes, stale, sendNow, wireVars, statusVars, shared,
                   failures, ctxDone>>

(* SendNeeded without the repetition of an unchanged value.                 *)
SendNeededNoRepeat == sendNow \/ value # lastValue \/ ~changes

(* SendNeeded that takes the zero value for one that was sent.              *)
SendNeededNoFirst == sendNow \/ value # lastValue \/ stale

SendNeeded == sendNow \/ value # lastValue \/ ~changes \/ stale

(* Run takes the flag, and publishes if there is a reason to. All its       *)
(* messages point to one state, which changes now.                          *)
TestSend ==
    /\ sensor = "test"
    /\ sendNow' = FALSE
    /\ IF SendNeeded
       THEN Goto("publish") /\ shared' = value
       ELSE Goto("select") /\ UNCHANGED shared
    /\ UNCHANGED <<value, lastValue, changes, stale, wireVars, statusVars, failures, ctxDone>>

Published ==
    /\ sensor = "publish"
    /\ Enqueue("shared")
    /\ lastValue' = value
    /\ changes' = TRUE
    /\ stale' = FALSE
    /\ Goto("select")
    /\ UNCHANGED <<value, sendNow, wireVars, shared, failures, ctxDone>>

(* Without success the next iteration is forced to publish.                 *)
NotPublished ==
    /\ sensor = "publish"
    /\ PublishTimesOut
    /\ sendNow' = TRUE
    /\ Goto("select")
    /\ UNCHANGED <<value, lastValue, changes, stale, wireVars, shared, ctxDone>>

SensorSelect ==
    /\ sensor = "select"
    /\ Goto(IF ctxDone THEN "done" ELSE "read")
    /\ UNCHANGED <<value, lastValue, changes, stale, sendNow, wireVars, statusVars, shared,
                   failures, ctxDone>>

SensorRun ==
    \/ ReadPin
    \/ StartConversion
    \/ EndConversion
    \/ TestSend
    \/ Published
    \/ NotPublished
    \/ SensorSelect

-----------------------------------------------------------------------------
(* 15 s have passed since the last publication.                             *)
LastSentAges ==
    /\ sensor \in SensorPc
    /\ ~stale
    /\ stale' = TRUE
    /\ UNCHANGED <<sensor, value, lastValue, changes, sendNow>>

(* ProcessPowerMessage: power was off and is on again.                      *)
ProcessPowerMessage ==
    /\ sensor \in SensorPc
    /\ ~ctxDone
    /\ sendNow' = TRUE
    /\ UNCHANGED <<sensor, value, lastValue, changes, stale>>

(* A train passes, or the device breaks down or recovers.                   *)
InputChanges ==
    /\ sensor \in SensorPc
    /\ \/ input' = Opposite(input) /\ UNCHANGED readable
       \/ readable' = ~readable /\ UNCHANGED input
    /\ UNCHANGED reader
=============================================================================
