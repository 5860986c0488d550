------------------------------ MODULE Reporting ------------------------------
(***************************************************************************)
(* An object that runs with its status service: a binary sensor, or a       *)
(* binary output. They share nothing but the service, which has a queue for *)
(* each kind of object, so one at a time is looked at.                      *)
(***************************************************************************)
EXTENDS BinarySensor, BinaryOutput

vars == <<statusVars, shared, failures, ctxDone, sensorVars, wireVars, outputVars>>

TypeOK == StatusTypeOK /\ SensorTypeOK /\ OutputTypeOK

Init ==
    /\ StatusInit
    /\ SensorInit
    /\ OutputInit
    /\ \/ sensor = "read" /\ output = "none" /\ device = "chip" /\ pin = FALSE
       \/ sensor = "none" /\ output = "configure" /\ reader = "gpio"

-----------------------------------------------------------------------------
SensorStep ==
    \/ SensorRun /\ UNCHANGED outputVars
    \/ /\ LastSentAges \/ ProcessPowerMessage
       /\ UNCHANGED <<wireVars, statusVars, shared, failures, ctxDone, outputVars>>
    \/ /\ InputChanges
       /\ UNCHANGED <<sensorVars, statusVars, shared, failures, ctxDone, outputVars>>

OutputStep ==
    \/ /\ OutputRun
       /\ UNCHANGED <<sensorVars, wireVars, shared, ctxDone>>
    \/ /\ WriteTarget \/ WriteFlag \/ DeliverLate
       /\ UNCHANGED <<sensorVars, wireVars, statusVars, shared, failures, ctxDone>>

SendStep == Send /\ UNCHANGED <<sensorVars, wireVars, outputVars>>

(* The context that the worker gave to the objects and to the service.      *)
Cancel ==
    /\ ~ctxDone
    /\ ctxDone' = TRUE
    /\ UNCHANGED <<statusVars, shared, failures, sensorVars, wireVars, outputVars>>

Next == SensorStep \/ OutputStep \/ SendStep \/ Cancel

(* Goroutines are scheduled, their timers fire, and calls end.              *)
Fairness ==
    /\ WF_vars(SensorRun /\ UNCHANGED outputVars)
    /\ WF_vars(LastSentAges /\ UNCHANGED <<wireVars, statusVars, shared, failures, ctxDone,
                                           outputVars>>)
    /\ WF_vars(OutputRun /\ UNCHANGED <<sensorVars, wireVars, shared, ctxDone>>)
    /\ WF_vars(SendStep)

Spec == Init /\ [][Next]_vars /\ Fairness

-----------------------------------------------------------------------------
(* What a sensor should be reported as: active if it cannot be read.        *)
Expected == IF readable \/ reader = "mqtt" THEN Converted ELSE FailSafe

(* As long as no transmission failed, a sensor that waits for its next      *)
(* reading, with nothing of it in the queue or on the way, has told         *)
(* NetworkControl the value it read: that all its messages point to the one *)
(* state it goes on to change loses no value and holds none back.           *)
WaitingIsReported ==
    /\ sensor = "select" /\ queue = <<>> /\ sender = "once"
    /\ failures = 0 /\ ~ctxDone
    => received = value

(* NetworkControl learns the state of a sensor that lasts, and that a       *)
(* sensor cannot be read, although transmissions fail, messages are dropped *)
(* and the queue is full: a failed one is repeated after 15 seconds.        *)
SensorIsReported ==
    \A v \in Value :
        sensor \in SensorPc /\ Expected = v ~> received = v \/ Expected # v \/ ctxDone

(* A request for another state that comes while Run waits is put out and    *)
(* reported, unless another one follows or something fails. (A request at   *)
(* another moment may be reported without being put out, or put out without *)
(* being reported.)                                                         *)
RequestIsApplied ==
    \A v \in Value :
        /\ output = "select" /\ request = "idle" /\ sendActualNeeded
        /\ targetState = v /\ currentState # v
        ~> \/ pin = Level(v) /\ received = v
           \/ targetState # v \/ failures > 0 \/ ctxDone

(* When the context is done the object and the sender of its messages       *)
(* return, also with a full queue that nobody empties any more: what the    *)
(* worker waits for before it closes the hardware.                          *)
StopsWhenCancelled ==
    ctxDone ~> sensor \notin SensorPc /\ output \notin OutputPc \cup {"configure"} /\ sender = "done"
=============================================================================
