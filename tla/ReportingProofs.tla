--------------------------- MODULE ReportingProofs ---------------------------
(***************************************************************************)
(* Proofs about Reporting, for any size of the queue and any number of      *)
(* failures. First the type invariant: the queue is never longer than its   *)
(* capacity, and MQTT has at most as many late messages as calls have       *)
(* failed. Then that a sensor at rest has reported what it read.            *)
(***************************************************************************)
EXTENDS Reporting, TLAPS

(* What is sent is a value; only messages that wait point to a state.       *)
SenderInv == sender = "sending" => inFlight \in Value

IInv == TypeOK /\ SenderInv

(* What the steps of an object leave to the status service.                 *)
StatusKept ==
    /\ StatusTypeOK'
    /\ SenderInv'
    /\ failures' \in Nat
    /\ failures' >= failures

LEMMA FailuresType ==
    ASSUME TypeOK
    PROVE  /\ QueueSize \in Nat /\ QueueSize > 0 /\ MaxFailures \in Nat
           /\ failures \in Nat /\ failures <= MaxFailures
           /\ queue \in Seq(Message) /\ Len(queue) \in Nat /\ Len(queue) <= QueueSize
           /\ late \in Seq(BOOLEAN) /\ Len(late) \in Nat /\ Len(late) <= failures
  BY StatusAssumption DEF TypeOK, StatusTypeOK, OutputTypeOK

LEMMA OppositeType ==
    ASSUME NEW v \in Value
    PROVE  Opposite(v) \in Value
<1>1. \E w \in Value : w # v
  BY DEF Value
<1> QED BY <1>1 DEF Opposite

LEMMA ReadType == TypeOK => Converted \in Value /\ FailSafe \in Value
  BY OppositeType DEF TypeOK, SensorTypeOK, Converted, FailSafe, Value

-----------------------------------------------------------------------------
(* Putting a message in the queue, or failing to.                           *)
LEMMA EnqueueType ==
    ASSUME IInv, NEW message \in Message, Enqueue(message), UNCHANGED <<failures, ctxDone>>,
           shared' \in Value
    PROVE  StatusKept
<1>1. /\ queue' \in Seq(Message)
      /\ Len(queue') <= QueueSize
  <2>1. Append(queue, message) \in Seq(Message) /\ Len(Append(queue, message)) = Len(queue) + 1
    BY FailuresType DEF IInv
  <2> QED BY <2>1, FailuresType DEF IInv, Enqueue
<1> QED BY <1>1, FailuresType DEF IInv, TypeOK, SenderInv, StatusTypeOK, Enqueue, StatusKept

LEMMA UnchangedType ==
    ASSUME IInv, UNCHANGED <<statusVars, failures, ctxDone>>, shared' \in Value
    PROVE  StatusKept
  BY FailuresType DEF IInv, TypeOK, SenderInv, StatusTypeOK, StatusKept, statusVars

LEMMA FailType ==
    ASSUME IInv, Fail, UNCHANGED <<statusVars, ctxDone>>, shared' \in Value
    PROVE  StatusKept
  BY FailuresType DEF IInv, TypeOK, SenderInv, StatusTypeOK, StatusKept, statusVars, Fail

LEMMA PublishTimesOutType ==
    ASSUME IInv, PublishTimesOut, UNCHANGED ctxDone, shared' \in Value
    PROVE  StatusKept
  BY UnchangedType, FailType DEF PublishTimesOut

LEMMA SendType == IInv /\ Send => StatusKept
<1> SUFFICES ASSUME IInv, Send PROVE StatusKept
  OBVIOUS
<1> USE FailuresType DEF IInv, TypeOK, SenderInv, StatusTypeOK, StatusKept
<1>1. CASE Take
  <2>1. /\ Head(queue) \in Message /\ Tail(queue) \in Seq(Message)
        /\ Len(Tail(queue)) = Len(queue) - 1
    BY <1>1 DEF Take
  <2> QED BY <1>1, <2>1 DEF Take
<1>2. CASE Encode
  BY <1>2 DEF Encode, Message
<1>3. CASE SendSucceeds \/ SendFails
  <2>1. inFlight' \in Message /\ sender' \in {"once", "backOff"}
    BY <1>3 DEF SendSucceeds, SendFails, Message, Value
  <2> QED BY <1>3, <2>1 DEF SendSucceeds, SendFails, Fail
<1>4. CASE BackOffEnds \/ StopSending
  BY <1>4 DEF BackOffEnds, StopSending
<1> QED BY <1>1, <1>2, <1>3, <1>4 DEF Send

-----------------------------------------------------------------------------
(* The object leaves these to the others.                                   *)
LEMMA SensorStepIInv == IInv /\ SensorStep => IInv'
<1> SUFFICES ASSUME IInv, SensorStep PROVE IInv'
  OBVIOUS
<1>0. value \in Value /\ input \in Value /\ shared \in Value
  BY DEF IInv, TypeOK, SensorTypeOK, StatusTypeOK
<1>1. CASE SensorRun /\ UNCHANGED outputVars
  <2>1. StatusKept /\ SensorTypeOK' /\ ctxDone' = ctxDone
    <3> USE DEF IInv, TypeOK, SensorTypeOK, SensorPc, Goto, wireVars
    <3>1. CASE ReadPin
      BY <1>0, <3>1, ReadType, UnchangedType DEF ReadPin
    <3>2. CASE StartConversion
      BY <1>0, <3>2, ReadType, UnchangedType DEF StartConversion
    <3>3. CASE EndConversion
      BY <1>0, <3>3, ReadType, UnchangedType DEF EndConversion
    <3>4. CASE TestSend
      BY <1>0, <3>4, UnchangedType DEF TestSend
    <3>5. CASE Published
      <4>1. "shared" \in Message
        BY DEF Message
      <4> QED BY <1>0, <3>5, <4>1, EnqueueType DEF Published
    <3>6. CASE NotPublished
      BY <1>0, <3>6, PublishTimesOutType DEF NotPublished
    <3>7. CASE SensorSelect
      BY <1>0, <3>7, UnchangedType DEF SensorSelect
    <3> QED BY <1>1, <3>1, <3>2, <3>3, <3>4, <3>5, <3>6, <3>7 DEF SensorRun
  <2>2. OutputTypeOK'
    BY <1>1, <2>1, FailuresType DEF IInv, TypeOK, OutputTypeOK, outputVars, StatusKept
  <2> QED BY <2>1, <2>2 DEF IInv, TypeOK, StatusKept
<1>2. CASE /\ LastSentAges \/ ProcessPowerMessage
           /\ UNCHANGED <<wireVars, statusVars, shared, failures, ctxDone, outputVars>>
  <2>1. SensorTypeOK'
    BY <1>2 DEF IInv, TypeOK, SensorTypeOK, LastSentAges, ProcessPowerMessage, wireVars
  <2>2. OutputTypeOK' /\ StatusKept
    BY <1>0, <1>2, UnchangedType DEF IInv, TypeOK, OutputTypeOK, outputVars
  <2> QED BY <2>1, <2>2 DEF IInv, TypeOK, StatusKept
<1>3. CASE /\ InputChanges
           /\ UNCHANGED <<sensorVars, statusVars, shared, failures, ctxDone, outputVars>>
  <2>1. input' \in Value /\ readable' \in BOOLEAN /\ reader' = reader
    BY <1>0, <1>3, OppositeType DEF IInv, TypeOK, SensorTypeOK, InputChanges
  <2>2. SensorTypeOK'
    BY <1>3, <2>1 DEF IInv, TypeOK, SensorTypeOK, sensorVars
  <2>3. OutputTypeOK' /\ StatusKept
    BY <1>0, <1>3, UnchangedType DEF IInv, TypeOK, OutputTypeOK, outputVars
  <2> QED BY <2>2, <2>3 DEF IInv, TypeOK, StatusKept
<1> QED BY <1>1, <1>2, <1>3 DEF SensorStep

LEMMA OutputStepIInv == IInv /\ OutputStep => IInv'
<1> SUFFICES ASSUME IInv, OutputStep PROVE IInv'
  OBVIOUS
<1>0. /\ shared \in Value /\ targetState \in Value /\ currentState \in Value
      /\ setting \in Value /\ "inactive" \in Value
  BY DEF IInv, TypeOK, OutputTypeOK, StatusTypeOK, Value
<1>1. CASE OutputRun /\ UNCHANGED <<sensorVars, wireVars, shared, ctxDone>>
  <2>1. StatusKept /\ OutputTypeOK'
    <3> USE DEF IInv, TypeOK, OutputTypeOK, OutputPc
    <3>1. CASE OutputConfigure
      <4>1. StatusKept
        BY <1>0, <1>1, <3>1, UnchangedType, FailType DEF OutputConfigure
      <4> QED BY <3>1, <4>1, FailuresType DEF OutputConfigure, StatusKept
    <3>2. CASE TestTarget
      BY <1>0, <1>1, <3>2, UnchangedType DEF TestTarget
    <3>3. CASE SetOutput
      <4>1. StatusKept
        BY <1>0, <1>1, <3>3, UnchangedType, FailType DEF SetOutput, SetChip, SetMqtt
      <4>2. Level(setting) \in BOOLEAN
        BY DEF Level
      <4>3. pin' \in BOOLEAN
        BY <3>3, <4>2 DEF SetOutput, SetChip, SetMqtt
      <4>4. /\ Append(late, Level(setting)) \in Seq(BOOLEAN)
            /\ Len(Append(late, Level(setting))) = Len(late) + 1
            /\ <<>> \in Seq(BOOLEAN) /\ Len(<<>>) = 0
        BY <4>2, FailuresType
      <4>5. late' \in Seq(BOOLEAN) /\ Len(late') <= failures'
        <5> HIDE DEF IInv, TypeOK, OutputTypeOK
        <5>1. CASE UNCHANGED late
          BY <4>1, <5>1, FailuresType DEF StatusKept, IInv
        <5>2. CASE late' = <<>>
          BY <4>1, <4>4, <5>2 DEF StatusKept
        <5>3. CASE late' = Append(late, Level(setting)) /\ Fail
          BY <4>4, <5>3, FailuresType DEF IInv, Fail
        <5> QED BY <3>3, <5>1, <5>2, <5>3 DEF SetOutput, SetChip, SetMqtt
      <4> QED BY <1>0, <3>3, <4>1, <4>3, <4>5 DEF SetOutput
    <3>4. CASE StoreCurrent
      BY <1>0, <1>1, <3>4, UnchangedType DEF StoreCurrent
    <3>5. CASE TestReport
      BY <1>0, <1>1, <3>5, UnchangedType DEF TestReport
    <3>6. CASE PublishCurrent
      <4>1. StatusKept
        <5>1. currentState \in Message
          BY <1>0 DEF Message
        <5> QED BY <1>0, <1>1, <3>6, <5>1, EnqueueType, PublishTimesOutType DEF PublishCurrent
      <4> QED BY <3>6, <4>1, FailuresType DEF PublishCurrent, StatusKept
    <3>7. CASE OutputSelect
      BY <1>0, <1>1, <3>7, UnchangedType DEF OutputSelect
    <3> QED BY <1>1, <3>1, <3>2, <3>3, <3>4, <3>5, <3>6, <3>7 DEF OutputRun
  <2>2. SensorTypeOK'
    BY <1>1 DEF IInv, TypeOK, SensorTypeOK, sensorVars, wireVars
  <2> QED BY <2>1, <2>2 DEF IInv, TypeOK, StatusKept
<1>2. CASE /\ WriteTarget \/ WriteFlag \/ DeliverLate
           /\ UNCHANGED <<sensorVars, wireVars, statusVars, shared, failures, ctxDone>>
  <2>1. StatusKept /\ SensorTypeOK'
    BY <1>0, <1>2, UnchangedType DEF IInv, TypeOK, SensorTypeOK, sensorVars, wireVars
  <2>2. OutputTypeOK'
    <3>1. CASE WriteTarget \/ WriteFlag
      BY <1>2, <3>1 DEF IInv, TypeOK, OutputTypeOK, WriteTarget, WriteFlag
    <3>2. CASE DeliverLate
      <4>1. /\ Head(late) \in BOOLEAN /\ Tail(late) \in Seq(BOOLEAN)
            /\ Len(Tail(late)) = Len(late) - 1
        BY <3>2, FailuresType DEF IInv, DeliverLate
      <4>2. pin' \in BOOLEAN /\ late' \in Seq(BOOLEAN) /\ Len(late') <= failures'
        BY <1>2, <3>2, <4>1, FailuresType DEF IInv, DeliverLate
      <4> QED BY <1>2, <3>2, <4>2 DEF IInv, TypeOK, OutputTypeOK, DeliverLate
    <3> QED BY <1>2, <3>1, <3>2
  <2> QED BY <2>1, <2>2 DEF IInv, TypeOK, StatusKept
<1> QED BY <1>1, <1>2 DEF OutputStep

LEMMA SendStepIInv == IInv /\ SendStep => IInv'
<1> SUFFICES ASSUME IInv, SendStep PROVE IInv'
  OBVIOUS
<1>1. StatusKept
  BY SendType DEF SendStep
<1>2. SensorTypeOK'
  BY DEF SendStep, IInv, TypeOK, SensorTypeOK, sensorVars, wireVars
<1>3. OutputTypeOK'
  BY <1>1, FailuresType DEF SendStep, IInv, TypeOK, OutputTypeOK, outputVars, StatusKept
<1> QED BY <1>1, <1>2, <1>3 DEF IInv, TypeOK, StatusKept

LEMMA InitIInv == Init => IInv
<1> SUFFICES ASSUME Init PROVE IInv
  OBVIOUS
<1>1. /\ <<>> \in Seq(Message) /\ <<>> \in Seq(BOOLEAN) /\ Len(<<>>) = 0
  OBVIOUS
<1>2. StatusTypeOK /\ SenderInv
  <2>1. Len(queue) <= QueueSize /\ failures \in 0..MaxFailures
    BY <1>1, StatusAssumption DEF Init, StatusInit
  <2> QED BY <1>1, <2>1 DEF Init, StatusInit, StatusTypeOK, SenderInv, Message, Value
<1>3. SensorTypeOK
  BY DEF Init, SensorInit, SensorTypeOK, SensorPc, Value
<1>4. OutputTypeOK
  <2>1. Len(late) <= failures /\ late \in Seq(BOOLEAN)
    BY <1>1 DEF Init, OutputInit, StatusInit
  <2> QED BY <2>1 DEF Init, OutputInit, OutputTypeOK, OutputPc, Value
<1> QED BY <1>2, <1>3, <1>4 DEF IInv, TypeOK

LEMMA Invariance == Spec => []IInv
<1>1. IInv /\ [Next]_vars => IInv'
  <2>1. IInv /\ Cancel => IInv'
    BY DEF IInv, TypeOK, StatusTypeOK, SensorTypeOK, OutputTypeOK, SenderInv, Cancel,
           statusVars, sensorVars, wireVars, outputVars
  <2>2. IInv /\ UNCHANGED vars => IInv'
    <3> SUFFICES ASSUME IInv, UNCHANGED vars PROVE IInv'
      OBVIOUS
    <3>1. StatusTypeOK' /\ SenderInv'
      BY DEF IInv, TypeOK, StatusTypeOK, SenderInv, vars, statusVars
    <3>2. SensorTypeOK'
      BY DEF IInv, TypeOK, SensorTypeOK, vars, sensorVars, wireVars
    <3>3. OutputTypeOK'
      BY DEF IInv, TypeOK, OutputTypeOK, vars, outputVars
    <3> QED BY <3>1, <3>2, <3>3 DEF IInv, TypeOK
  <2> QED BY <2>1, <2>2, SensorStepIInv, OutputStepIInv, SendStepIInv DEF Next
<1> QED BY <1>1, InitIInv, PTL DEF Spec

(* The type invariant of the objects and their status service.              *)
THEOREM TypeCorrect == Spec => []TypeOK
<1>1. IInv => TypeOK
  BY DEF IInv
<1> QED BY <1>1, Invariance, PTL

-----------------------------------------------------------------------------
(* WaitingIsReported is not inductive: it does not say what is in the queue *)
(* and with the sender. The messages of a sensor only point to its state;   *)
(* one that waits is as good as the newest, and the value of one that was   *)
(* encoded is the newest unless another one follows.                        *)

(* An object is a sensor or an output, and that of a sensor does nothing.   *)
KindInv == sensor # "none" => output = "none"

PointersInv ==
    sensor # "none" =>
        /\ queue \in Seq({"shared"})
        /\ sender = "taken" => inFlight = "shared"

(* No transmission failed and nobody was asked to stop.                     *)
Clean == failures = 0 /\ ~ctxDone

(* Run is not in the middle of a publication, and not before the first.     *)
Settled == changes /\ sensor # "publish"

ValueInv ==
    Clean /\ sensor # "none" =>
        /\ sender \in {"once", "taken", "sending"}
        /\ sensor = "publish" => shared = value
        /\ sensor = "select" => changes /\ value = lastValue
        /\ Settled => lastValue = shared
        /\ Settled /\ queue = <<>> /\ sender = "sending" => inFlight = shared
        /\ Settled /\ queue = <<>> /\ sender = "once" => received = shared

ReportInv == KindInv /\ PointersInv /\ ValueInv

LEMMA InitReportInv == Init => ReportInv
<1> SUFFICES ASSUME Init PROVE ReportInv
  OBVIOUS
<1>1. <<>> \in Seq({"shared"})
  OBVIOUS
<1> QED
  BY <1>1 DEF Init, StatusInit, SensorInit, ReportInv, KindInv, PointersInv, ValueInv, Clean, Settled

(* A step that leaves the status service alone, and only reads.             *)
LEMMA ReadingReportInv ==
    ASSUME ReportInv, UNCHANGED <<queue, sender, inFlight, received, shared, failures, ctxDone>>,
           sensor # "none", UNCHANGED <<lastValue, changes, output>>,
           sensor' \in {"read", "converting", "test", "done"},
           sensor # "publish"
    PROVE  ReportInv'
  BY DEF ReportInv, KindInv, PointersInv, ValueInv, Clean, Settled

(* A step that leaves the sensor and the status service alone.              *)
LEMMA AsideReportInv ==
    ASSUME ReportInv, UNCHANGED <<queue, sender, inFlight, received, shared, sensor, value,
                                  lastValue, changes, output>>,
           Clean' => Clean
    PROVE  ReportInv'
  BY DEF ReportInv, KindInv, PointersInv, ValueInv, Settled

LEMMA SensorRunReportInv ==
    ASSUME IInv, ReportInv, SensorRun, UNCHANGED outputVars
    PROVE  ReportInv'
<1>0. output' = output
  BY DEF outputVars
<1>1. CASE ReadPin \/ StartConversion \/ EndConversion \/ SensorSelect
  BY <1>0, <1>1, ReadingReportInv
     DEF ReadPin, StartConversion, EndConversion, SensorSelect, Goto, statusVars
<1>2. CASE TestSend
  <2>1. /\ sensor = "test" /\ sensor' = IF SendNeeded THEN "publish" ELSE "select"
        /\ shared' = IF SendNeeded THEN value ELSE shared
        /\ UNCHANGED <<value, lastValue, changes, queue, sender, inFlight, received, failures, ctxDone>>
    BY <1>2 DEF TestSend, Goto, statusVars
  <2>2. ~SendNeeded => changes /\ value = lastValue
    BY DEF SendNeeded
  <2> QED BY <1>0, <2>1, <2>2 DEF ReportInv, KindInv, PointersInv, ValueInv, Clean, Settled
<1>3. CASE Published
  <2>1. /\ sensor = "publish" /\ sensor' = "select" /\ queue' = Append(queue, "shared")
        /\ lastValue' = value /\ changes' = TRUE
        /\ UNCHANGED <<sender, inFlight, received, value, shared, failures, ctxDone>>
    BY <1>3 DEF Published, Enqueue, Goto
  <2>2. queue' \in Seq({"shared"}) /\ queue' # <<>>
    BY <2>1 DEF ReportInv, PointersInv
  <2> QED BY <1>0, <2>1, <2>2 DEF ReportInv, KindInv, PointersInv, ValueInv, Clean, Settled
<1>4. CASE NotPublished
  <2>1. /\ sensor = "publish" /\ sensor' = "select"
        /\ UNCHANGED <<queue, sender, inFlight>>
        /\ (ctxDone /\ ctxDone') \/ failures' = failures + 1
    BY <1>4 DEF NotPublished, PublishTimesOut, Fail, Goto, statusVars
  <2>2. ~Clean'
    BY <2>1, FailuresType DEF IInv, Clean
  <2> QED BY <1>0, <2>1, <2>2 DEF ReportInv, KindInv, PointersInv, ValueInv
<1> QED BY <1>1, <1>2, <1>3, <1>4 DEF SensorRun

LEMMA SensorStepReportInv == ASSUME IInv, ReportInv, SensorStep PROVE ReportInv'
<1>1. CASE SensorRun /\ UNCHANGED outputVars
  BY <1>1, SensorRunReportInv
<1>2. CASE /\ LastSentAges \/ ProcessPowerMessage
           /\ UNCHANGED <<wireVars, statusVars, shared, failures, ctxDone, outputVars>>
  BY <1>2, AsideReportInv DEF LastSentAges, ProcessPowerMessage, statusVars, outputVars, Clean
<1>3. CASE /\ InputChanges
           /\ UNCHANGED <<sensorVars, statusVars, shared, failures, ctxDone, outputVars>>
  BY <1>3, AsideReportInv DEF statusVars, sensorVars, outputVars, Clean
<1> QED BY <1>1, <1>2, <1>3 DEF SensorStep

(* The output has a status service of its own.                              *)
LEMMA OutputStepReportInv == ASSUME IInv, ReportInv, OutputStep PROVE ReportInv'
<1>1. CASE OutputRun /\ UNCHANGED <<sensorVars, wireVars, shared, ctxDone>>
  <2>1. output # "none"
    BY <1>1 DEF OutputRun, OutputConfigure, TestTarget, SetOutput, StoreCurrent, TestReport,
                PublishCurrent, OutputSelect
  <2>2. sensor = "none" /\ sensor' = "none"
    BY <1>1, <2>1 DEF ReportInv, KindInv, sensorVars
  <2> QED BY <2>2 DEF ReportInv, KindInv, PointersInv, ValueInv
<1>2. CASE /\ WriteTarget \/ WriteFlag \/ DeliverLate
           /\ UNCHANGED <<sensorVars, wireVars, statusVars, shared, failures, ctxDone>>
  <2>1. output' = output
    BY <1>2 DEF WriteTarget, WriteFlag, DeliverLate
  <2> QED BY <1>2, <2>1, AsideReportInv DEF statusVars, sensorVars, Clean
<1> QED BY <1>1, <1>2 DEF OutputStep

LEMMA SendStepReportInv == ASSUME IInv, ReportInv, SendStep PROVE ReportInv'
<1>0. /\ UNCHANGED <<sensor, value, lastValue, changes, output>>
      /\ failures \in Nat
  BY FailuresType DEF IInv, SendStep, sensorVars, outputVars
<1> USE DEF ReportInv, KindInv, PointersInv, ValueInv, Clean, Settled
<1>1. CASE Take
  <2>1. /\ sender = "once" /\ sender' = "taken" /\ queue # <<>>
        /\ inFlight' = Head(queue) /\ queue' = Tail(queue)
        /\ UNCHANGED <<received, shared, failures, ctxDone>>
    BY <1>1 DEF Take
  <2>2. sensor # "none" => Head(queue) = "shared" /\ Tail(queue) \in Seq({"shared"})
    BY <2>1
  <2> QED BY <1>0, <2>1, <2>2
<1>2. CASE Encode
  BY <1>0, <1>2 DEF Encode
<1>3. CASE SendSucceeds
  BY <1>0, <1>3 DEF SendSucceeds
<1>4. CASE SendFails
  <2>1. /\ sender' = "backOff" /\ queue' = queue
        /\ (ctxDone /\ ctxDone') \/ failures' = failures + 1
    BY <1>4 DEF SendFails, Fail
  <2> QED BY <1>0, <2>1
<1>5. CASE BackOffEnds \/ StopSending
  BY <1>0, <1>5 DEF BackOffEnds, StopSending
<1> QED BY <1>1, <1>2, <1>3, <1>4, <1>5 DEF SendStep, Send

(* A sensor that waits with nothing under way has reported what it read,    *)
(* for any length of the queue and every kind of reader.                    *)
THEOREM WaitingIsReportedCorrect == Spec => []WaitingIsReported
<1>1. IInv /\ ReportInv /\ [Next]_vars => ReportInv'
  <2> SUFFICES ASSUME IInv, ReportInv, [Next]_vars PROVE ReportInv'
    OBVIOUS
  <2>1. CASE Cancel
    BY <2>1, AsideReportInv DEF Cancel, statusVars, sensorVars, outputVars, Clean
  <2>2. CASE UNCHANGED vars
    BY <2>2, AsideReportInv DEF vars, statusVars, sensorVars, outputVars, Clean
  <2> QED BY <2>1, <2>2, SensorStepReportInv, OutputStepReportInv, SendStepReportInv DEF Next
<1>2. ReportInv => WaitingIsReported
  BY DEF ReportInv, ValueInv, Clean, Settled, WaitingIsReported
<1> QED BY <1>1, <1>2, Invariance, InitReportInv, PTL DEF Spec
=============================================================================
