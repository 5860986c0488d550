-------------------------- MODULE ServoSwitchProofs --------------------------
(***************************************************************************)
(* Proofs about ServoSwitch, for all pulse lengths, step sizes and numbers  *)
(* of failures.                                                             *)
(*                                                                         *)
(* RelayMatchesPosition needs to know where Run is: without failures relays *)
(* and servo are as Run believes them to be, the relays are off from the    *)
(* moment Run starts to move until it activates one, and then the servo is  *)
(* where the move was to go. From the same invariant servo and relays       *)
(* implement Turnout.                                                       *)
(***************************************************************************)
EXTENDS ServoSwitch, TLAPS

(* Places of Run that belong to one state.                                  *)
PlaceInv ==
    /\ pc \in ConfigurePc \cup {"failed", "send"} => state = "idle"
    /\ pc = "phaseOff" => state = "deactivateRelays"
    /\ pc = "failed" => failures > 0

(* What is known of the move.                                               *)
MoveInv ==
    /\ pc = "send" => currentPL = moveTo
    /\ state \in {"servoSettle", "disableServo", "activateRelays"} => currentPL = moveTo

(* Without failures the servo is where the last call sent it.               *)
ServoInv ==
    /\ servo.kind # "mqtt" => servo.sent = {}
    /\ failures = 0 =>
        /\ servo.sent \subseteq {servo.pulse}
        /\ pc \notin {"relayStraight", "relayOff", "halfWay"} => servo.pulse = currentPL
        /\ /\ pc \notin ConfigurePc
           /\ state \in {"idle", "deactivateRelays", "activateRelays"}
           /\ servo.kind = "pca9685"
           => ~servo.enabled

(* Without failures the relays are as they believe they are, and one of     *)
(* them is on only at the position it belongs to.                           *)
RelayInv ==
    failures = 0 =>
        /\ pc \notin {"relayStraight", "relayOff"} => on = lastActive
        /\ pc = "relayOff" => "straight" \notin on \cup lastActive
        /\ pc \in {"halfWay", "release"} => on = {}
        /\ state \in {"moveServo", "servoSettle", "disableServo", "activateRelays"} => on = {}
        /\ pc = "phaseOff" => "straight" \notin on
        /\ pc \notin ConfigurePc /\ on # {} => currentPL \in Target /\ on = {DirectionOf(currentPL)}

IInv == TypeOK /\ PlaceInv /\ MoveInv /\ ServoInv /\ RelayInv

-----------------------------------------------------------------------------
(* s is a servo with these fields.                                          *)
Fields(s, kind, pulse, enabled, sent, late) ==
    /\ s \in Servo
    /\ s.kind = kind
    /\ s.pulse = pulse
    /\ s.enabled = enabled
    /\ s.sent = sent
    /\ s.late = late

LEMMA ServoType ==
    ASSUME NEW s \in Servo
    PROVE  /\ s.kind \in {"pca9685", "carSensor", "mqtt"}
           /\ s.pulse \in Between
           /\ s.known \in BOOLEAN
           /\ s.enabled \in BOOLEAN
           /\ s.sent \in SUBSET Between
           /\ s.late \in Seq(Between)
  BY DEF Servo

(* Changes of some fields.                                                  *)
LEMMA ExceptPca9685 ==
    ASSUME NEW s \in Servo, NEW p \in Between, NEW e \in BOOLEAN
    PROVE  Fields([s EXCEPT !.pulse = p, !.known = TRUE, !.enabled = e],
                  s.kind, p, e, s.sent, s.late)
  BY DEF Servo, Fields
LEMMA ExceptPca9685Failed ==
    ASSUME NEW s \in Servo, NEW e \in BOOLEAN
    PROVE  Fields([s EXCEPT !.known = FALSE, !.enabled = e],
                  s.kind, s.pulse, e, s.sent, s.late)
  BY DEF Servo, Fields
LEMMA ExceptPulse ==
    ASSUME NEW s \in Servo, NEW p \in Between
    PROVE  /\ Fields([s EXCEPT !.pulse = p], s.kind, p, s.enabled, s.sent, s.late)
           /\ Fields([s EXCEPT !.pulse = p, !.known = TRUE],
                     s.kind, p, s.enabled, s.sent, s.late)
  BY DEF Servo, Fields
LEMMA ExceptMessages ==
    ASSUME NEW s \in Servo, NEW p \in Between, NEW t \in SUBSET Between, NEW l \in Seq(Between)
    PROVE  /\ Fields([s EXCEPT !.pulse = p, !.known = TRUE, !.sent = t, !.late = l],
                     s.kind, p, s.enabled, t, l)
           /\ Fields([s EXCEPT !.pulse = p, !.known = TRUE, !.late = l],
                     s.kind, p, s.enabled, s.sent, l)
           /\ Fields([s EXCEPT !.sent = t], s.kind, s.pulse, s.enabled, t, s.late)
           /\ Fields([s EXCEPT !.late = l], s.kind, s.pulse, s.enabled, s.sent, l)
  BY DEF Servo, Fields

(* The outcomes of a call of the servo: it works, it does nothing because   *)
(* the pulse was sent before, or it fails.                                  *)
Works(pulse, enabled) ==
    /\ failures' = failures
    /\ \E e \in BOOLEAN, t \in {servo.sent, {pulse}}, l \in {servo.late, <<>>} :
          /\ Fields(servo', servo.kind, pulse, e, t, l)
          /\ servo.kind = "pca9685" => e = enabled
          /\ servo.kind # "mqtt" => t = servo.sent
          /\ servo.kind = "mqtt" => t = {pulse}

Failed(pulse) ==
    /\ Fail
    /\ \E p \in Between, e \in BOOLEAN, t \in {servo.sent, {pulse}},
          l \in {servo.late, Append(servo.late, pulse)} :
          /\ Fields(servo', servo.kind, p, e, t, l)
          /\ servo.kind # "mqtt" => t = servo.sent

LEMMA SetPWMOutcomes ==
    ASSUME servo \in Servo, NEW pulse \in Between, NEW enabled \in BOOLEAN,
           NEW final \in BOOLEAN, SetPWM(pulse, enabled, final)
    PROVE  \/ Works(pulse, enabled)
           \/ pulse \in servo.sent /\ UNCHANGED <<servo, failures>> /\ servo.kind = "mqtt"
           \/ Failed(pulse)
<1>1. CASE servo.kind = "pca9685"
  <2>1. Pca9685SetPWM(pulse, enabled)
    BY <1>1 DEF SetPWM
  <2>2. CASE /\ servo' = [servo EXCEPT !.pulse = pulse, !.known = TRUE, !.enabled = enabled]
             /\ UNCHANGED failures
    <3>1. Fields(servo', servo.kind, pulse, enabled, servo.sent, servo.late)
      BY <2>2, ExceptPca9685
    <3> QED BY <3>1, <2>2, <1>1 DEF Works
  <2>3. CASE /\ \E e \in {servo.enabled, enabled} :
                    servo' = [servo EXCEPT !.known = FALSE, !.enabled = e]
             /\ Fail
    <3>1. PICK e \in BOOLEAN : servo' = [servo EXCEPT !.known = FALSE, !.enabled = e]
      BY <2>3, ServoType
    <3>2. Fields(servo', servo.kind, servo.pulse, e, servo.sent, servo.late)
      BY <3>1, ExceptPca9685Failed
    <3> QED BY <3>2, <2>3, ServoType DEF Failed
  <2> QED BY <2>1, <2>2, <2>3 DEF Pca9685SetPWM
<1>2. CASE servo.kind = "carSensor"
  <2>1. CarSensorSetPWM(pulse)
    BY <1>2 DEF SetPWM
  <2>2. CASE /\ servo' = [servo EXCEPT !.pulse = pulse, !.known = TRUE]
             /\ UNCHANGED failures
    <3>1. Fields(servo', servo.kind, pulse, servo.enabled, servo.sent, servo.late)
      BY <2>2, ExceptPulse
    <3> QED BY <3>1, <2>2, <1>2, ServoType DEF Works
  <2>3. CASE (\E p \in {servo.pulse, pulse} : servo' = [servo EXCEPT !.pulse = p]) /\ Fail
    <3>1. PICK p \in Between : servo' = [servo EXCEPT !.pulse = p]
      BY <2>3, ServoType
    <3>2. Fields(servo', servo.kind, p, servo.enabled, servo.sent, servo.late)
      BY <3>1, ExceptPulse
    <3> QED BY <3>2, <2>3, ServoType DEF Failed
  <2> QED BY <2>1, <2>2, <2>3 DEF CarSensorSetPWM
<1>3. CASE servo.kind = "mqtt"
  <2>0. MqttSetPWM(pulse, final)
    BY <1>3 DEF SetPWM
  <2>1. CASE pulse \in servo.sent /\ UNCHANGED <<servo, failures>>
    BY <2>1, <1>3
  <2>2. CASE /\ servo' = [servo EXCEPT !.pulse = pulse, !.known = TRUE, !.sent = {pulse},
                                       !.late = <<>>]
             /\ UNCHANGED failures
    <3>0. {pulse} \in SUBSET Between /\ <<>> \in Seq(Between)
      OBVIOUS
    <3>1. Fields(servo', servo.kind, pulse, servo.enabled, {pulse}, <<>>)
      BY <2>2, <3>0, ExceptMessages
    <3> QED BY <3>1, <2>2, <1>3, ServoType DEF Works
  <2>3. CASE servo' = [servo EXCEPT !.late = Append(@, pulse)] /\ Fail
    <3>0. Append(servo.late, pulse) \in Seq(Between)
      BY ServoType
    <3>1. Fields(servo', servo.kind, servo.pulse, servo.enabled, servo.sent,
                 Append(servo.late, pulse))
      BY <2>3, <3>0, ExceptMessages
    <3> QED BY <3>1, <2>3, <1>3, ServoType DEF Failed
  <2>4. CASE /\ \E sent \in {servo.sent, {pulse}} : servo' = [servo EXCEPT !.sent = sent]
             /\ Fail
    <3>1. PICK t \in {servo.sent, {pulse}} : servo' = [servo EXCEPT !.sent = t]
      BY <2>4
    <3>2. t \in SUBSET Between
      BY ServoType
    <3>3. Fields([servo EXCEPT !.sent = t], servo.kind, servo.pulse, servo.enabled, t,
                 servo.late)
      BY <3>2, ServoType, ExceptMessages
    <3>4. Fields(servo', servo.kind, servo.pulse, servo.enabled, t, servo.late)
      BY <3>1, <3>3
    <3> QED BY <3>4, <2>4, <1>3, ServoType DEF Failed
  <2> QED BY <2>0, <2>1, <2>2, <2>3, <2>4 DEF MqttSetPWM
<1> QED BY <1>1, <1>2, <1>3, ServoType

(* What a call of the servo does to types.                                  *)
ServoTyped ==
    /\ servo' \in Servo
    /\ servo'.kind = servo.kind
    /\ failures' \in 0..MaxFailures
    /\ failures' >= failures
    /\ Len(servo'.late) <= failures'
    /\ servo.kind # "mqtt" => servo'.sent = servo.sent

LEMMA SetPWMType ==
    ASSUME TypeOK, NEW pulse \in Between, NEW enabled \in BOOLEAN, NEW final \in BOOLEAN,
           SetPWM(pulse, enabled, final)
    PROVE  ServoTyped
<1>0. /\ servo \in Servo /\ failures \in 0..MaxFailures /\ Len(servo.late) <= failures
      /\ MaxFailures \in Nat
  BY FailuresAssumption DEF TypeOK
<1>1. servo.late \in Seq(Between) /\ Len(servo.late) \in Nat
  BY <1>0, ServoType
<1>2. Len(Append(servo.late, pulse)) = Len(servo.late) + 1
  BY <1>1
<1>3. CASE Works(pulse, enabled)
  <2>1. Len(<<>>) = 0
    OBVIOUS
  <2> QED BY <1>0, <1>1, <1>3, <2>1 DEF Works, Fields, ServoTyped
<1>4. CASE UNCHANGED <<servo, failures>>
  BY <1>0, <1>4 DEF ServoTyped
<1>5. CASE Failed(pulse)
  BY <1>0, <1>1, <1>2, <1>5 DEF Failed, Fields, ServoTyped, Fail
<1> QED BY <1>0, <1>3, <1>4, <1>5, SetPWMOutcomes

(* A call leaves the servo at the pulse, as long as none has failed.        *)
ServoAt(pulse, enabled) ==
    /\ servo'.pulse = pulse
    /\ servo'.sent \subseteq {pulse}
    /\ servo.kind = "pca9685" => servo'.enabled = enabled

LEMMA SetPWMEffect ==
    ASSUME TypeOK, ServoInv, NEW pulse \in Between, NEW enabled \in BOOLEAN,
           NEW final \in BOOLEAN, SetPWM(pulse, enabled, final), failures' = 0
    PROVE  ServoAt(pulse, enabled)
<1>0. servo \in Servo /\ failures \in Nat /\ ~Fail
  BY FailuresAssumption DEF TypeOK, Fail
<1>1. CASE Works(pulse, enabled)
  <2>1. servo.kind # "mqtt" => servo.sent = {}
    BY DEF ServoInv
  <2> QED BY <1>0, <1>1, <2>1 DEF Works, Fields, ServoAt
<1>2. CASE pulse \in servo.sent /\ UNCHANGED <<servo, failures>> /\ servo.kind = "mqtt"
  <2>1. servo.sent \subseteq {servo.pulse}
    BY <1>2 DEF ServoInv
  <2> QED BY <1>2, <2>1 DEF ServoAt
<1>3. CASE Failed(pulse)
  BY <1>0, <1>3 DEF Failed
<1> QED BY <1>0, <1>1, <1>2, <1>3, SetPWMOutcomes

-----------------------------------------------------------------------------
(* What a call of a relay does to types, and to a relay that is what it     *)
(* believes to be.                                                          *)
RelayTyped ==
    /\ on' \subseteq Direction
    /\ lastActive' \subseteq Direction
    /\ failures' \in 0..MaxFailures
    /\ failures' >= failures

Switched(r, active) ==
    /\ on' = IF active = TRUE THEN on \cup {r} ELSE on \ {r}
    /\ lastActive' = on'

LEMMA SwitchRelayType ==
    ASSUME TypeOK, NEW r \in Direction, NEW active \in BOOLEAN, SwitchRelay(r, active)
    PROVE  RelayTyped
<1>0. on \subseteq Direction /\ lastActive \subseteq Direction /\ failures \in 0..MaxFailures
      /\ MaxFailures \in Nat
  BY FailuresAssumption DEF TypeOK
<1>1. CASE UNCHANGED relayVars
  BY <1>0, <1>1 DEF relayVars, RelayTyped
<1>2. ASSUME NEW S \in {on \cup {r}, on \ {r}}, NEW L \in {lastActive \cup {r}, lastActive \ {r}},
             \/ on' = S /\ lastActive' = L /\ UNCHANGED failures
             \/ Fail /\ on' \in {on, S} /\ UNCHANGED lastActive
      PROVE  RelayTyped
  <2>1. S \subseteq Direction /\ L \subseteq Direction
    BY <1>0
  <2>2. on' \subseteq Direction /\ lastActive' \subseteq Direction
    BY <1>0, <1>2, <2>1
  <2>3. failures' \in 0..MaxFailures /\ failures' >= failures
    BY <1>0, <1>2 DEF Fail
  <2> QED BY <2>2, <2>3 DEF RelayTyped
<1> QED BY <1>1, <1>2 DEF SwitchRelay

LEMMA SwitchRelayEffect ==
    ASSUME TypeOK, NEW r \in Direction, NEW active \in BOOLEAN, SwitchRelay(r, active),
           failures' = 0, on = lastActive
    PROVE  Switched(r, active)
<1>0. failures \in Nat /\ ~Fail
  BY FailuresAssumption DEF TypeOK, Fail
<1>1. CASE active = TRUE
  <2>1. CASE r \in lastActive
    BY <1>1, <2>1 DEF SwitchRelay, relayVars, Switched
  <2>2. CASE r \notin lastActive
    BY <1>0, <1>1, <2>2 DEF SwitchRelay, Switched
  <2> QED BY <2>1, <2>2
<1>2. CASE active = FALSE
  <2>1. CASE r \in lastActive
    BY <1>0, <1>2, <2>1 DEF SwitchRelay, Switched
  <2>2. CASE r \notin lastActive
    BY <1>2, <2>2 DEF SwitchRelay, relayVars, Switched
  <2> QED BY <2>1, <2>2
<1> QED BY <1>1, <1>2

-----------------------------------------------------------------------------
(* Pulse lengths.                                                           *)
LEMMA PulseFacts ==
    /\ StraightPL \in Nat /\ OffPL \in Nat
    /\ Between \subseteq Nat
    /\ Target \subseteq Between
    /\ (StraightPL + OffPL) \div 2 \in Between
    /\ \A pl : DirectionOf(pl) \in Direction
<1>1. StraightPL \in Nat /\ OffPL \in Nat /\ (StraightPL + OffPL) \div 2 \in Nat
  BY PulseAssumption
<1>2. Lowest \in Nat /\ Highest \in Nat /\ Lowest <= Highest
  BY <1>1 DEF Lowest, Highest
<1>3. Between \subseteq Nat /\ Target \subseteq Between
  BY <1>1 DEF Between, Lowest, Highest, Target
<1>4. (StraightPL + OffPL) \div 2 \in Between
  BY <1>1 DEF Between, Lowest, Highest
<1> QED BY <1>1, <1>3, <1>4 DEF DirectionOf, Direction

(* A step stays between the positions and goes nearer to the target.        *)
LEMMA NextPLFacts ==
    ASSUME TypeOK, moveTo # currentPL
    PROVE  /\ NextPL \in Between
           /\ Distance(moveTo, NextPL) < Distance(moveTo, currentPL)
<1>1. StraightPL \in Nat /\ OffPL \in Nat /\ StepSize \in Nat /\ StepSize > 0
  BY PulseAssumption
<1>2. moveTo \in {StraightPL, OffPL} /\ currentPL \in Between
  BY DEF TypeOK, Target
<1>3. currentPL \in Nat /\ moveTo \in Nat
  BY <1>1, <1>2, PulseFacts
<1>4. CASE currentPL < moveTo
  <2>1. \/ NextPL = moveTo
        \/ NextPL = currentPL + StepSize /\ StepSize <= moveTo - currentPL
    BY <1>1, <1>3, <1>4 DEF NextPL, Distance
  <2>2. NextPL \in Nat /\ currentPL < NextPL /\ NextPL <= moveTo
    BY <1>1, <1>3, <1>4, <2>1
  <2>3. NextPL \in Between
    BY <1>1, <1>2, <1>3, <2>2 DEF Between, Lowest, Highest
  <2> QED BY <1>3, <1>4, <2>2, <2>3 DEF Distance
<1>5. CASE currentPL > moveTo
  <2>1. \/ NextPL = moveTo
        \/ NextPL = currentPL - StepSize /\ StepSize <= currentPL - moveTo
    BY <1>1, <1>3, <1>5 DEF NextPL, Distance
  <2>2. NextPL \in Nat /\ NextPL < currentPL /\ moveTo <= NextPL
    BY <1>1, <1>3, <1>5, <2>1
  <2>3. NextPL \in Between
    BY <1>1, <1>2, <1>3, <2>2 DEF Between, Lowest, Highest
  <2> QED BY <1>3, <1>5, <2>2, <2>3 DEF Distance
<1> QED BY <1>3, <1>4, <1>5

-----------------------------------------------------------------------------
LEMMA InitIInv == Init => IInv
<1> SUFFICES ASSUME Init PROVE IInv
  OBVIOUS
<1>1. servo \in Servo /\ servo.late = <<>> /\ servo.sent = {}
  <2>1. PICK k \in {"pca9685", "carSensor", "mqtt"}, p \in Target :
            servo = [kind |-> k, pulse |-> p, known |-> FALSE, enabled |-> TRUE,
                     sent |-> {}, late |-> <<>>]
    <3>1. servo \in [kind : {"pca9685", "carSensor", "mqtt"}, pulse : Target, known : {FALSE},
                     enabled : {TRUE}, sent : {{}}, late : {<<>>}]
      BY DEF Init
    <3> QED BY <3>1
  <2>2. <<>> \in Seq(Between) /\ {} \in SUBSET Between /\ p \in Between
    BY PulseFacts
  <2> QED BY <2>1, <2>2 DEF Servo
<1>2. TypeOK
  <2>1. /\ on \subseteq Direction /\ lastActive \subseteq Direction
        /\ targetPL \in Target /\ moveTo \in Target
    BY DEF Init, Target
  <2>2. failures \in 0..MaxFailures /\ Len(servo.late) <= failures
    BY <1>1, FailuresAssumption DEF Init
  <2>3. currentPL \in Between
    BY PulseFacts DEF Init
  <2>4. pc \in ConfigurePc /\ reported = "none" /\ sendActualNeeded \in BOOLEAN
        /\ ctxDone \in BOOLEAN /\ state = "idle"
    BY DEF Init, ConfigurePc
  <2> QED BY <1>1, <2>1, <2>2, <2>3, <2>4 DEF TypeOK
<1>3. PlaceInv /\ MoveInv
  BY DEF Init, PlaceInv, MoveInv, ConfigurePc
<1>4. ServoInv /\ RelayInv
  BY <1>1 DEF Init, ServoInv, RelayInv, ConfigurePc
<1> QED BY <1>2, <1>3, <1>4 DEF IInv

(* Steps that touch neither the servo nor the relays.                       *)
LEMMA IdleMovesIInv == IInv /\ IdleMoves => IInv'
  BY DEF IInv, TypeOK, PlaceInv, MoveInv, ServoInv, RelayInv, ConfigurePc, IdleMoves, relayVars, In, EndIn
LEMMA IdleStaysIInv == IInv /\ IdleStays => IInv'
  BY DEF IInv, TypeOK, PlaceInv, MoveInv, ServoInv, RelayInv, ConfigurePc, IdleStays, relayVars, In
LEMMA IdleSendsIInv == IInv /\ IdleSends => IInv'
  BY DEF IInv, TypeOK, PlaceInv, MoveInv, ServoInv, RelayInv, ConfigurePc, IdleSends, relayVars, DirectionOf, Direction
LEMMA MoveReachedIInv == IInv /\ MoveReached => IInv'
  BY DEF IInv, TypeOK, PlaceInv, MoveInv, ServoInv, RelayInv, ConfigurePc, MoveReached, relayVars, In, EndIn
LEMMA SettleWaitsIInv == IInv /\ SettleWaits => IInv'
  BY DEF IInv, TypeOK, PlaceInv, MoveInv, ServoInv, RelayInv, ConfigurePc, SettleWaits, relayVars, In, EndIn
LEMMA SettledIInv == IInv /\ Settled => IInv'
  BY DEF IInv, TypeOK, PlaceInv, MoveInv, ServoInv, RelayInv, ConfigurePc, Settled, relayVars, In, EndIn
LEMMA SelectIInv == IInv /\ Select => IInv'
  BY DEF IInv, TypeOK, PlaceInv, MoveInv, ServoInv, RelayInv, ConfigurePc, Select, relayVars
LEMMA ProcessMessageIInv == IInv /\ ProcessMessage => IInv'
  BY DEF IInv, TypeOK, PlaceInv, MoveInv, ServoInv, RelayInv, ConfigurePc, ProcessMessage, relayVars
LEMMA ProcessPowerMessageIInv == IInv /\ ProcessPowerMessage => IInv'
  BY DEF IInv, TypeOK, PlaceInv, MoveInv, ServoInv, RelayInv, ConfigurePc, ProcessPowerMessage, relayVars
LEMMA CancelIInv == IInv /\ Cancel => IInv'
  BY DEF IInv, TypeOK, PlaceInv, MoveInv, ServoInv, RelayInv, ConfigurePc, Cancel, relayVars

-----------------------------------------------------------------------------
(* The messages of MQTT.                                                    *)
LEMMA DeliverIInv == IInv /\ Deliver => IInv'
<1> SUFFICES ASSUME IInv, Deliver PROVE IInv'
  OBVIOUS
<1>0. TypeOK /\ servo \in Servo /\ Len(servo.late) <= failures /\ failures \in Nat
      /\ servo.late \in Seq(Between) /\ servo.late # <<>>
  BY ServoType DEF IInv, TypeOK, Deliver
<1>1. /\ Head(servo.late) \in Between /\ Tail(servo.late) \in Seq(Between)
      /\ Len(servo.late) \in Nat /\ Len(servo.late) > 0
      /\ Len(Tail(servo.late)) = Len(servo.late) - 1
  BY <1>0
<1>2. Fields(servo', servo.kind, Head(servo.late), servo.enabled, servo.sent, Tail(servo.late))
  <2>1. {} \in SUBSET Between
    OBVIOUS
  <2>2. servo' = [servo EXCEPT !.pulse = Head(servo.late), !.known = TRUE,
                               !.late = Tail(servo.late)]
    BY DEF Deliver
  <2> QED BY <1>0, <1>1, <2>1, <2>2, ExceptMessages
<1>3. failures # 0
  BY <1>0, <1>1
<1>4. TypeOK'
  BY <1>0, <1>1, <1>2 DEF TypeOK, Fields, Deliver, relayVars
<1>5. PlaceInv' /\ MoveInv'
  BY DEF IInv, PlaceInv, MoveInv, Deliver, relayVars
<1>6. ServoInv' /\ RelayInv'
  BY <1>2, <1>3 DEF IInv, ServoInv, RelayInv, Fields, Deliver, relayVars
<1> QED BY <1>4, <1>5, <1>6 DEF IInv

LEMMA StateMessageIInv == IInv /\ StateMessage => IInv'
<1> SUFFICES ASSUME IInv, StateMessage PROVE IInv'
  OBVIOUS
<1>1. servo \in Servo /\ Len(servo.late) <= failures
  BY DEF IInv, TypeOK
<1>2. Fields(servo', servo.kind, servo.pulse, servo.enabled, {}, servo.late)
  <2>1. {} \in SUBSET Between /\ servo.pulse \in Between /\ servo.late \in Seq(Between)
    BY <1>1, ServoType
  <2> QED BY <1>1, <2>1, ExceptMessages DEF StateMessage
<1>3. TypeOK'
  BY <1>1, <1>2 DEF IInv, TypeOK, Fields, StateMessage, relayVars
<1>4. PlaceInv' /\ MoveInv'
  BY DEF IInv, PlaceInv, MoveInv, StateMessage, relayVars
<1>5. ServoInv' /\ RelayInv'
  BY <1>2 DEF IInv, ServoInv, RelayInv, Fields, StateMessage, relayVars
<1> QED BY <1>3, <1>4, <1>5 DEF IInv

-----------------------------------------------------------------------------
(* Configure of the relays.                                                 *)
LEMMA ConfigureRelayType ==
    ASSUME TypeOK, NEW r \in Direction, NEW place, NEW next \in ConfigurePc,
           ConfigureRelay(r, place, next)
    PROVE  TypeOK'
<1>1. /\ on' \subseteq Direction /\ lastActive' \subseteq Direction
      /\ failures' \in 0..MaxFailures /\ failures' >= failures
      /\ pc' \in ConfigurePc \cup {"failed"}
  BY FailuresAssumption DEF TypeOK, ConfigureRelay, Fail
<1>2. Len(servo.late) \in Nat
  BY ServoType DEF TypeOK
<1> QED BY <1>1, <1>2 DEF TypeOK, ConfigureRelay

LEMMA ConfigureStraightIInv ==
    IInv /\ ConfigureRelay("straight", "relayStraight", "relayOff") => IInv'
<1> SUFFICES ASSUME IInv, ConfigureRelay("straight", "relayStraight", "relayOff") PROVE IInv'
  OBVIOUS
<1>1. TypeOK'
  BY ConfigureRelayType DEF IInv, Direction, ConfigurePc
<1>2. failures \in Nat /\ (failures' = failures + 1 \/ failures' = failures)
  BY DEF IInv, TypeOK, ConfigureRelay, Fail
<1>3. PlaceInv' /\ MoveInv'
  BY <1>2 DEF IInv, PlaceInv, MoveInv, ConfigureRelay, Fail, ConfigurePc
<1>4. ServoInv' /\ RelayInv'
  BY <1>2 DEF IInv, PlaceInv, ServoInv, RelayInv, ConfigureRelay, Fail, ConfigurePc
<1> QED BY <1>1, <1>3, <1>4 DEF IInv

LEMMA ConfigureOffIInv ==
    IInv /\ ConfigureRelay("off", "relayOff", "halfWay") => IInv'
<1> SUFFICES ASSUME IInv, ConfigureRelay("off", "relayOff", "halfWay") PROVE IInv'
  OBVIOUS
<1>1. TypeOK'
  BY ConfigureRelayType DEF IInv, Direction, ConfigurePc
<1>2. failures \in Nat /\ (failures' = failures + 1 \/ failures' = failures)
  BY DEF IInv, TypeOK, ConfigureRelay, Fail
<1>3. PlaceInv' /\ MoveInv'
  BY <1>2 DEF IInv, PlaceInv, MoveInv, ConfigureRelay, Fail, ConfigurePc
<1>4. failures' = 0 => on' = {} /\ lastActive' = {} /\ pc' = "halfWay"
  <2>1. on \subseteq {"straight", "off"} /\ lastActive \subseteq {"straight", "off"}
    BY DEF IInv, TypeOK, Direction
  <2>2. ASSUME failures' = 0
        PROVE  /\ "straight" \notin on \cup lastActive
               /\ on' = on \ {"off"} /\ lastActive' = lastActive \ {"off"} /\ pc' = "halfWay"
    <3>1. failures = 0 /\ ~Fail
      BY <1>2, <2>2 DEF Fail
    <3> QED BY <3>1 DEF IInv, RelayInv, ConfigureRelay
  <2> QED BY <2>1, <2>2
<1>5. ServoInv' /\ RelayInv'
  BY <1>2, <1>4 DEF IInv, PlaceInv, ServoInv, RelayInv, ConfigureRelay, ConfigurePc
<1> QED BY <1>1, <1>3, <1>5 DEF IInv

(* Configure of the servo.                                                  *)
LEMMA ConfigureServoIInv ==
    ASSUME IInv, NEW enabled \in BOOLEAN, NEW place, NEW next,
           ConfigureServo(enabled, place, next),
           \/ enabled = TRUE /\ place = "halfWay" /\ next = "release"
           \/ enabled = FALSE /\ place = "release" /\ next = "select"
    PROVE  IInv'
<1>0. /\ TypeOK /\ ServoInv /\ currentPL \in Between /\ failures \in Nat
      /\ SetPWM(currentPL, enabled, ~enabled)
      /\ pc = place /\ state = "idle"
  BY DEF IInv, TypeOK, ConfigureServo, PlaceInv, ConfigurePc
<1>1. ServoTyped
  <2>1. (~enabled) \in BOOLEAN
    OBVIOUS
  <2> QED BY <1>0, <2>1, SetPWMType
<1>2. failures' = 0 => ServoAt(currentPL, enabled)
  <2>1. (~enabled) \in BOOLEAN
    OBVIOUS
  <2> QED BY <1>0, <2>1, SetPWMEffect
<1>3. failures' \in Nat /\ failures' >= failures
      /\ (pc' = next \/ (pc' = "failed" /\ failures' # failures))
  <2>1. failures' \in Nat /\ failures' >= failures
    BY <1>1, FailuresAssumption DEF ServoTyped
  <2>2. (SetPWMFailed /\ pc' = "failed") \/ pc' = next
    BY DEF ConfigureServo
  <2>3. SetPWMFailed => failures' # failures
    BY DEF SetPWMFailed
  <2> QED BY <2>1, <2>2, <2>3
<1>4. TypeOK'
  BY <1>0, <1>1, <1>3 DEF TypeOK, ServoTyped, ConfigureServo, ConfigurePc
<1>5. PlaceInv' /\ MoveInv'
  BY <1>0, <1>3 DEF IInv, PlaceInv, MoveInv, ConfigureServo, ConfigurePc
<1>6. ServoInv'
  BY <1>0, <1>1, <1>2, <1>3 DEF ServoInv, ServoTyped, ServoAt, ConfigureServo, ConfigurePc
<1>7. RelayInv'
  BY <1>0, <1>3 DEF IInv, RelayInv, ConfigureServo, ConfigurePc
<1> QED BY <1>4, <1>5, <1>6, <1>7 DEF IInv

-----------------------------------------------------------------------------
(* The steps of Run that call the hardware.                                 *)
LEMMA DeactivateStraightIInv == IInv /\ DeactivateStraight => IInv'
<1> SUFFICES ASSUME IInv, DeactivateStraight PROVE IInv'
  OBVIOUS
<1>0. /\ TypeOK /\ SwitchRelay("straight", FALSE) /\ failures \in Nat
      /\ pc = "switch" /\ pc' = "phaseOff" /\ state = "deactivateRelays"
  <2>1. TypeOK /\ ServoInv /\ failures \in Nat
    BY DEF IInv, TypeOK
  <2> QED BY <2>1 DEF DeactivateStraight, In
<1>1. RelayTyped
  BY <1>0, SwitchRelayType DEF Direction
<1>2. TypeOK'
  <2>1. Len(servo.late) \in Nat
    BY <1>0, ServoType DEF TypeOK
  <2> QED BY <1>0, <1>1, <2>1 DEF TypeOK, RelayTyped, DeactivateStraight
<1>3. failures' = 0 => failures = 0 /\ on' = on \ {"straight"} /\ lastActive' = on'
  <2>1. failures' = 0 => failures = 0
    BY <1>0, <1>1 DEF RelayTyped
  <2>2. failures = 0 => on = lastActive
    BY <1>0 DEF IInv, RelayInv, DeactivateStraight
  <2> QED BY <1>0, <2>1, <2>2, SwitchRelayEffect DEF Direction, Switched
<1>4. PlaceInv' /\ MoveInv'
  BY <1>0 DEF IInv, PlaceInv, MoveInv, ConfigurePc, DeactivateStraight
<1>5. ServoInv' /\ RelayInv'
  BY <1>0, <1>3 DEF IInv, ServoInv, RelayInv, ConfigurePc, DeactivateStraight
<1> QED BY <1>2, <1>4, <1>5 DEF IInv

LEMMA DeactivateOffIInv == IInv /\ DeactivateOff => IInv'
<1> SUFFICES ASSUME IInv, DeactivateOff PROVE IInv'
  OBVIOUS
<1>0. /\ TypeOK /\ SwitchRelay("off", FALSE) /\ failures \in Nat
      /\ pc = "phaseOff" /\ pc' = "select" /\ state' = "moveServo"
  <2>1. TypeOK /\ ServoInv /\ failures \in Nat
    BY DEF IInv, TypeOK
  <2> QED BY <2>1 DEF DeactivateOff, EndIn
<1>1. RelayTyped
  BY <1>0, SwitchRelayType DEF Direction
<1>2. TypeOK'
  <2>1. Len(servo.late) \in Nat
    BY <1>0, ServoType DEF TypeOK
  <2> QED BY <1>0, <1>1, <2>1 DEF TypeOK, RelayTyped, DeactivateOff
<1>3. failures' = 0 => failures = 0 /\ on' = {} /\ lastActive' = on'
  <2>1. failures' = 0 => failures = 0
    BY <1>0, <1>1 DEF RelayTyped
  <2>2. failures = 0 => on = lastActive /\ "straight" \notin on /\ on \subseteq {"straight", "off"}
    BY <1>0 DEF IInv, RelayInv, TypeOK, Direction, DeactivateOff
  <2>3. failures' = 0 => on' = on \ {"off"} /\ lastActive' = on'
    BY <1>0, <2>1, <2>2, SwitchRelayEffect DEF Direction, Switched
  <2> QED BY <2>1, <2>2, <2>3
<1>4. PlaceInv' /\ MoveInv'
  BY <1>0 DEF PlaceInv, MoveInv, ConfigurePc, DeactivateOff
<1>5. ServoInv' /\ RelayInv'
  BY <1>0, <1>3 DEF IInv, ServoInv, RelayInv, ConfigurePc, DeactivateOff
<1> QED BY <1>2, <1>4, <1>5 DEF IInv

LEMMA ActivateRelayIInv == IInv /\ ActivateRelay => IInv'
<1> SUFFICES ASSUME IInv, ActivateRelay PROVE IInv'
  OBVIOUS
<1>0. /\ TypeOK /\ SwitchRelay(DirectionOf(moveTo), TRUE) /\ failures \in Nat
      /\ pc = "switch" /\ pc' = "select" /\ state = "activateRelays" /\ state' = "idle"
      /\ currentPL = moveTo /\ sendActualNeeded' = TRUE
  <2>1. TypeOK /\ ServoInv /\ failures \in Nat
    BY DEF IInv, TypeOK
  <2> QED BY <2>1 DEF IInv, MoveInv, ActivateRelay, In, EndIn
<1>1. RelayTyped
  BY <1>0, SwitchRelayType, PulseFacts
<1>2. TypeOK'
  <2>1. Len(servo.late) \in Nat
    BY <1>0, ServoType DEF TypeOK
  <2> QED BY <1>0, <1>1, <2>1 DEF TypeOK, RelayTyped, ActivateRelay
<1>3. failures' = 0 => failures = 0 /\ on' = {DirectionOf(currentPL)} /\ lastActive' = on'
  <2>1. failures' = 0 => failures = 0
    BY <1>0, <1>1 DEF RelayTyped
  <2>2. failures = 0 => on = lastActive /\ on = {}
    BY <1>0 DEF IInv, RelayInv, ActivateRelay
  <2>3. failures' = 0 => on' = on \cup {DirectionOf(moveTo)} /\ lastActive' = on'
    BY <1>0, <2>1, <2>2, SwitchRelayEffect, PulseFacts DEF Switched
  <2> QED BY <1>0, <2>1, <2>2, <2>3
<1>4. PlaceInv' /\ MoveInv'
  BY <1>0 DEF PlaceInv, MoveInv, ConfigurePc, ActivateRelay
<1>5. ServoInv'
  BY <1>0, <1>3 DEF IInv, ServoInv, ConfigurePc, ActivateRelay
<1>6. DirectionOf(currentPL)' = DirectionOf(currentPL)
  BY DEF DirectionOf, ActivateRelay
<1>7. moveTo \in Target
  BY DEF IInv, TypeOK
<1>8. RelayInv'
  BY <1>0, <1>3, <1>6, <1>7 DEF RelayInv, ConfigurePc, ActivateRelay
<1> QED BY <1>2, <1>4, <1>5, <1>8 DEF IInv

LEMMA DisableServoIInv == IInv /\ DisableServo => IInv'
<1> SUFFICES ASSUME IInv, DisableServo PROVE IInv'
  OBVIOUS
<1>0. /\ TypeOK /\ ServoInv /\ SetPWM(currentPL, FALSE, TRUE) /\ failures \in Nat
      /\ pc = "switch" /\ pc' = "select"
      /\ state = "disableServo" /\ state' = "activateRelays"
  <2>1. TypeOK /\ ServoInv /\ failures \in Nat
    BY DEF IInv, TypeOK
  <2> QED BY <2>1 DEF DisableServo, In, EndIn
<1>a. currentPL \in Between
  BY DEF IInv, TypeOK
<1>1. ServoTyped
  BY <1>0, <1>a, SetPWMType
<1>2. failures' = 0 => failures = 0 /\ ServoAt(currentPL, FALSE)
  <2>1. failures' = 0 => failures = 0
    BY <1>0, <1>1 DEF ServoTyped
  <2>2. failures' = 0 => ServoAt(currentPL, FALSE)
    BY <1>0, <1>a, SetPWMEffect
  <2> QED BY <2>1, <2>2
<1>3. TypeOK'
  BY <1>0, <1>1 DEF TypeOK, ServoTyped, DisableServo
<1>4. PlaceInv' /\ MoveInv'
  BY <1>0 DEF IInv, PlaceInv, MoveInv, ConfigurePc, DisableServo
<1>5. ServoInv'
  BY <1>0, <1>1, <1>2 DEF ServoInv, ServoTyped, ServoAt, ConfigurePc, DisableServo
<1>6. RelayInv'
  BY <1>0, <1>2 DEF IInv, RelayInv, ConfigurePc, DisableServo
<1> QED BY <1>3, <1>4, <1>5, <1>6 DEF IInv

LEMMA MoveStepIInv == IInv /\ MoveStep => IInv'
<1> SUFFICES ASSUME IInv, MoveStep PROVE IInv'
  OBVIOUS
<1>0. /\ TypeOK /\ ServoInv /\ failures \in Nat /\ NextPL \in Between
      /\ SetPWM(NextPL, TRUE, NextPL = moveTo)
      /\ pc = "switch" /\ pc' = "select" /\ state = "moveServo" /\ state' = "moveServo"
  <2>1. TypeOK /\ ServoInv /\ failures \in Nat
    BY DEF IInv, TypeOK
  <2> QED BY <2>1, NextPLFacts DEF MoveStep, In, EndIn
<1>a. currentPL \in Between
  BY DEF IInv, TypeOK
<1>1. (NextPL = moveTo) \in BOOLEAN
  OBVIOUS
<1>2. ServoTyped
  BY <1>0, <1>1, SetPWMType
<1>3. failures' = 0 => failures = 0 /\ ServoAt(NextPL, TRUE)
  <2>1. failures' = 0 => failures = 0
    BY <1>0, <1>2 DEF ServoTyped
  <2>2. failures' = 0 => ServoAt(NextPL, TRUE)
    BY <1>0, <1>1, SetPWMEffect
  <2> QED BY <2>1, <2>2
<1>4. currentPL' \in Between /\ (failures' = 0 => currentPL' = NextPL)
  <2>1. currentPL' = IF SetPWMFailed THEN currentPL ELSE NextPL
    BY DEF MoveStep
  <2>2. failures' = 0 => ~SetPWMFailed
    BY <1>3 DEF SetPWMFailed
  <2> QED BY <1>0, <1>a, <2>1, <2>2
<1>5. TypeOK'
  BY <1>0, <1>2, <1>4 DEF TypeOK, ServoTyped, MoveStep
<1>6. PlaceInv' /\ MoveInv'
  BY <1>0 DEF IInv, PlaceInv, MoveInv, ConfigurePc, MoveStep
<1>7. ServoInv'
  BY <1>0, <1>2, <1>3, <1>4 DEF ServoInv, ServoTyped, ServoAt, ConfigurePc, MoveStep
<1>8. RelayInv'
  BY <1>0, <1>3 DEF IInv, RelayInv, ConfigurePc, MoveStep
<1> QED BY <1>5, <1>6, <1>7, <1>8 DEF IInv

-----------------------------------------------------------------------------
LEMMA NextIInv == IInv /\ [Next]_vars => IInv'
<1> SUFFICES ASSUME IInv, [Next]_vars PROVE IInv'
  OBVIOUS
<1>1. CASE Configure
  <2>1. CASE ConfigureServo(TRUE, "halfWay", "release")
    BY <2>1, ConfigureServoIInv
  <2>2. CASE ConfigureServo(FALSE, "release", "select")
    BY <2>2, ConfigureServoIInv
  <2> QED BY <1>1, <2>1, <2>2, ConfigureStraightIInv, ConfigureOffIInv DEF Configure
<1>2. CASE Run
  BY <1>2, IdleMovesIInv, IdleStaysIInv, IdleSendsIInv, DeactivateStraightIInv,
     DeactivateOffIInv, MoveReachedIInv, MoveStepIInv, SettleWaitsIInv, SettledIInv,
     DisableServoIInv, ActivateRelayIInv, SelectIInv DEF Run
<1>3. CASE Deliver \/ StateMessage
  BY <1>3, DeliverIInv, StateMessageIInv
<1>4. CASE ProcessMessage \/ ProcessPowerMessage \/ Cancel
  BY <1>4, ProcessMessageIInv, ProcessPowerMessageIInv, CancelIInv
<1>5. CASE UNCHANGED vars
  BY <1>5 DEF IInv, TypeOK, PlaceInv, MoveInv, ServoInv, RelayInv, ConfigurePc, vars
<1> QED BY <1>1, <1>2, <1>3, <1>4, <1>5 DEF Next

LEMMA Inductive == Spec => []IInv
  BY InitIInv, NextIInv, PTL DEF Spec

(* The type invariant of the servo switch.                                  *)
THEOREM TypeCorrect == Spec => []TypeOK
<1>1. IInv => TypeOK
  BY DEF IInv
<1> QED BY <1>1, Inductive, PTL

(* Without failures of the hardware the frog has the polarity of the        *)
(* position in which the servo stands still, or none.                       *)
THEOREM RelayMatchesPositionCorrect == Spec => []RelayMatchesPosition
<1>1. IInv => RelayMatchesPosition
  <2> SUFFICES ASSUME IInv, failures = 0, on # {}, pc \notin ConfigurePc
               PROVE  /\ servo.pulse \in Target
                      /\ on = {DirectionOf(servo.pulse)}
                      /\ servo.kind = "pca9685" => ~servo.enabled
    BY DEF RelayMatchesPosition
  <2>1. servo.pulse = currentPL
    BY DEF IInv, ServoInv, ConfigurePc
  <2>2. currentPL \in Target /\ on = {DirectionOf(currentPL)}
    BY DEF IInv, RelayInv
  <2>3. state \in {"idle", "deactivateRelays"}
    BY DEF IInv, RelayInv, TypeOK
  <2>4. servo.kind = "pca9685" => ~servo.enabled
    BY <2>3 DEF IInv, ServoInv
  <2> QED BY <2>1, <2>2, <2>4
<1> QED BY <1>1, Inductive, PTL

(* Every step of a move goes nearer to the target.                          *)
THEOREM MovesNearerCorrect == Spec => MovesNearer
<1>1. IInv /\ [Next]_vars => [currentPL' # currentPL =>
          Distance(moveTo, currentPL') < Distance(moveTo, currentPL)]_vars
  <2> SUFFICES ASSUME IInv, Next, currentPL' # currentPL
               PROVE  Distance(moveTo, currentPL') < Distance(moveTo, currentPL)
    OBVIOUS
  <2>1. MoveStep
    BY DEF Next, Configure, ConfigureRelay, ConfigureServo, Run, IdleMoves, IdleStays,
           IdleSends, DeactivateStraight, DeactivateOff, MoveReached, SettleWaits, Settled,
           DisableServo, ActivateRelay, Select, Deliver, StateMessage, ProcessMessage,
           ProcessPowerMessage, Cancel
  <2>2. currentPL' = NextPL /\ moveTo # currentPL
    BY <2>1 DEF MoveStep
  <2> QED BY <2>2, NextPLFacts DEF IInv
<1> QED BY <1>1, Inductive, PTL DEF Spec, MovesNearer

(* The direction reported is that of a position that was moved to, and no   *)
(* move is under way.                                                       *)
THEOREM ActualIsReachedCorrect == Spec => ActualIsReached
<1>1. IInv /\ [Next]_vars => [reported' # reported =>
          currentPL = moveTo /\ reported' = DirectionOf(moveTo) /\ state = "idle"]_vars
  <2> SUFFICES ASSUME IInv, Next, reported' # reported
               PROVE  currentPL = moveTo /\ reported' = DirectionOf(moveTo) /\ state = "idle"
    OBVIOUS
  <2>1. IdleSends
    BY DEF Next, Configure, ConfigureRelay, ConfigureServo, Run, IdleMoves, IdleStays,
           DeactivateStraight, DeactivateOff, MoveReached, MoveStep, SettleWaits, Settled,
           DisableServo, ActivateRelay, Select, Deliver, StateMessage, ProcessMessage,
           ProcessPowerMessage, Cancel
  <2>2. pc = "send" /\ reported' = DirectionOf(currentPL)
    BY <2>1 DEF IdleSends
  <2> QED BY <2>2 DEF IInv, PlaceInv, MoveInv
<1> QED BY <1>1, Inductive, PTL DEF Spec, ActualIsReached

-----------------------------------------------------------------------------
(* Blades and frog of the turnout, once the relays are configured.          *)
Frog == IF failures = 0 /\ pc \notin ConfigurePc THEN on ELSE {}

Layout == INSTANCE Turnout WITH blades <- servo.pulse, frog <- Frog

ImplementsTurnout == Layout!Spec

(* Where the frog has power, and which.                                     *)
FrogInv ==
    /\ servo.pulse \in Layout!Travel
    /\ Frog # {} => servo.pulse \in Target /\ Frog = {DirectionOf(servo.pulse)}

LEMMA FrogFacts == IInv => FrogInv
<1> SUFFICES ASSUME IInv PROVE FrogInv
  OBVIOUS
<1>1. servo.pulse \in Layout!Travel
  BY ServoType DEF IInv, TypeOK, Between, Lowest, Highest, Layout!Travel
<1>2. ASSUME Frog # {}
      PROVE  servo.pulse \in Target /\ Frog = {DirectionOf(servo.pulse)}
  <2>1. failures = 0 /\ pc \notin ConfigurePc /\ on = Frog
    BY <1>2 DEF Frog
  <2> QED BY <1>2, <2>1 DEF IInv, ServoInv, RelayInv, ConfigurePc
<1> QED BY <1>1, <1>2 DEF FrogInv

(* While the servo is sent somewhere the frog has no power.                 *)
LEMMA MovesWithoutPower ==
    ASSUME IInv, [Next]_vars, servo'.pulse # servo.pulse
    PROVE  Frog = {} /\ Frog' = {}
<1>0. /\ failures \in Nat /\ servo \in Servo /\ TypeOK
      /\ currentPL \in Between /\ servo' # servo
  BY FailuresAssumption DEF IInv, TypeOK
<1>1. ASSUME NEW pulse \in Between, NEW enabled \in BOOLEAN, NEW final \in BOOLEAN,
             SetPWM(pulse, enabled, final)
      PROVE  failures' = 0 => failures = 0
  BY <1>0, <1>1, SetPWMType DEF ServoTyped
<1>2. CASE MoveStep
  <2>1. failures' = 0 => failures = 0
    BY <1>0, <1>1, <1>2, NextPLFacts DEF MoveStep
  <2> QED BY <1>2, <2>1 DEF IInv, RelayInv, MoveStep, In, Frog
<1>3. CASE DisableServo
  <2>1. failures' = 0 => failures = 0
    BY <1>0, <1>1, <1>3 DEF DisableServo
  <2> QED BY <1>3, <2>1 DEF IInv, RelayInv, DisableServo, In, Frog
<1>4. CASE ConfigureServo(TRUE, "halfWay", "release") \/ ConfigureServo(FALSE, "release", "select")
  <2>1. failures' = 0 => failures = 0
    BY <1>0, <1>1, <1>4 DEF ConfigureServo
  <2> QED BY <1>4, <2>1 DEF ConfigureServo, IInv, RelayInv, ConfigurePc, Frog
<1>5. CASE Deliver
  <2>1. servo.late \in Seq(Between) /\ servo.late # <<>> /\ Len(servo.late) <= failures
    BY <1>0, <1>5, ServoType DEF Deliver, TypeOK
  <2>2. Len(servo.late) \in Nat /\ Len(servo.late) # 0
    BY <2>1
  <2>3. failures # 0
    BY <1>0, <2>1, <2>2
  <2> QED BY <1>5, <2>3 DEF Deliver, relayVars, Frog
<1>6. ~StateMessage
  BY <1>0 DEF StateMessage, Servo
<1>7. CASE Configure
  BY <1>0, <1>4, <1>7 DEF Configure, ConfigureRelay
<1>8. CASE Run
  BY <1>0, <1>2, <1>3, <1>8
     DEF Run, IdleMoves, IdleStays, IdleSends, DeactivateStraight, DeactivateOff, MoveReached,
         SettleWaits, Settled, ActivateRelay, Select
<1> QED
  BY <1>0, <1>5, <1>6, <1>7, <1>8 DEF Next, ProcessMessage, ProcessPowerMessage, Cancel, vars

(* As long as no call fails, servo and relays are a turnout that never moves*)
(* its blades under power, never drives them beyond the two positions, and  *)
(* powers its frog only in the position the blades have reached             *)
(* (servo_switch.go, the state machine of Run), for all pulse lengths and   *)
(* step sizes and whatever is requested meanwhile.                          *)
THEOREM TurnoutRefinement == Spec => ImplementsTurnout
<1>1. Init => Layout!Init
  <2> SUFFICES ASSUME Init PROVE Layout!Init
    OBVIOUS
  <2>1. servo.pulse \in Target
    BY DEF Init
  <2> QED BY <2>1 DEF Init, Frog, ConfigurePc, Layout!Init, Target
<1>2. IInv' => FrogInv'
  BY FrogFacts, PTL
<1>3. IInv /\ FrogInv' /\ [Next]_vars => [Layout!Next]_<<servo.pulse, Frog>>
  <2> SUFFICES ASSUME IInv, FrogInv', [Next]_vars
               PROVE  Layout!Next \/ UNCHANGED <<servo.pulse, Frog>>
    OBVIOUS
  <2>1. CASE servo'.pulse # servo.pulse
    BY <2>1, MovesWithoutPower DEF FrogInv, Layout!Next, Layout!Move
  <2>2. CASE servo'.pulse = servo.pulse /\ Frog' = {}
    BY <2>2 DEF Layout!Next, Layout!PowerOff
  <2>3. CASE servo'.pulse = servo.pulse /\ Frog' # {}
    <3>1. Frog' = {DirectionOf(servo.pulse)} /\ servo.pulse \in Target
      BY <2>3 DEF FrogInv
    <3>2. CASE Frog # {}
      BY <2>3, <3>1, <3>2, FrogFacts DEF FrogInv
    <3>3. CASE Frog = {}
      BY <2>3, <3>1, <3>3, PulseAssumption DEF Layout!Next, Layout!PowerOn, DirectionOf, Target
    <3> QED BY <3>2, <3>3
  <2> QED BY <2>1, <2>2, <2>3
<1> QED BY <1>1, <1>2, <1>3, Inductive, PTL DEF Spec, ImplementsTurnout, Layout!Spec, Layout!vars
==============================================================================
