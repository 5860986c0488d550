------------------------- MODULE TrackInverterProofs -------------------------
(***************************************************************************)
(* Proofs about TrackInverter, for any number of failing calls.             *)
(*                                                                         *)
(* NoShort is not inductive: it does not say what Run has still to do. The  *)
(* invariant adds which relays each place of Run may find energised, which  *)
(* holds because the relays are right in what they believe of themselves,   *)
(* so that the loop that lets go skips none that is energised. From the     *)
(* same invariant the inverter implements Interlock.                        *)
(***************************************************************************)
EXTENDS TrackInverter, TLAPS

(* What is left of the loops over the relays.                               *)
ToDeactivate ==
    {<<"OutAInA", "OutAInB", "OutBInA", "OutBInB">>,
     <<"OutAInB", "OutBInA", "OutBInB">>, <<"OutBInA", "OutBInB">>, <<"OutBInB">>, <<>>}

ToActivate == {<<"OutAInA", "OutBInB">>, <<"OutAInB", "OutBInA">>, <<"OutBInB">>, <<"OutBInA">>}

(* The relays that a loop has still to switch.                              *)
Pending(s) == {s[i] : i \in DOMAIN s}

(* The relays that may be energised when activate has s left to do.         *)
Activated(s) ==
    CASE s = <<"OutBInB">> -> {"OutAInA"}
      [] s = <<"OutBInA">> -> {"OutAInB"}
      [] OTHER -> {}

(* The loops take the relays in the order of the code.                      *)
TodoInv ==
    /\ todo \in ToDeactivate \cup ToActivate
    /\ pc = "deactivate" => todo \in ToDeactivate
    /\ pc = "activate" => todo \in ToActivate

OnePolarity(set) == \E s \in State : set \subseteq RelaysOf(s)

(* Without failures relays know their state, and Run finds energised only   *)
(* those that it has not let go, or those of the one polarity it sets.      *)
OnInv ==
    failures = 0 =>
        /\ on = lastActive
        /\ OnePolarity(on)
        /\ pc = "deactivate" => on \subseteq Pending(todo)
        /\ pc \in {"ifDefault", "ifReverse"} => on = {}
        /\ pc = "activate" => on \subseteq Activated(todo)

IInv == TypeOK /\ TodoInv /\ OnInv

-----------------------------------------------------------------------------
LEMMA TodoIsSeq == ASSUME NEW s \in ToDeactivate \cup ToActivate PROVE s \in Seq(Relay)
<1>1. <<"OutAInA", "OutAInB", "OutBInA", "OutBInB">> \in Seq(Relay)
  BY DEF Relay
<1>2. <<"OutAInB", "OutBInA", "OutBInB">> \in Seq(Relay)
  BY DEF Relay
<1>3. {<<"OutBInA", "OutBInB">>, <<"OutAInA", "OutBInB">>, <<"OutAInB", "OutBInA">>} \subseteq Seq(Relay)
  BY DEF Relay
<1>4. {<<"OutBInA">>, <<"OutBInB">>, <<>>} \subseteq Seq(Relay)
  BY DEF Relay
<1> QED BY <1>1, <1>2, <1>3, <1>4 DEF ToDeactivate, ToActivate

LEMMA PendingOfFew ==
    ASSUME NEW a, NEW b
    PROVE  Pending(<<>>) = {} /\ Pending(<<a>>) = {a} /\ Pending(<<a, b>>) = {a, b}
<1>1. DOMAIN <<>> = {} /\ DOMAIN <<a>> = {1} /\ DOMAIN <<a, b>> = {1, 2}
  OBVIOUS
<1> QED BY <1>1 DEF Pending

LEMMA PendingOfThree == ASSUME NEW a, NEW b, NEW c PROVE Pending(<<a, b, c>>) = {a, b, c}
<1>1. DOMAIN <<a, b, c>> = {1, 2, 3}
  OBVIOUS
<1> QED BY <1>1 DEF Pending

LEMMA PendingOfFour ==
    ASSUME NEW a, NEW b, NEW c, NEW d PROVE Pending(<<a, b, c, d>>) = {a, b, c, d}
<1>1. DOMAIN <<a, b, c, d>> = {1, 2, 3, 4}
  OBVIOUS
<1> QED BY <1>1 DEF Pending

(* Each iteration of a loop takes one relay off the list.                   *)
LEMMA DeactivateNext ==
    ASSUME NEW s \in ToDeactivate, s # <<>>
    PROVE  /\ Head(s) \in Relay
           /\ Tail(s) \in ToDeactivate
           /\ Pending(s) \ {Head(s)} \subseteq Pending(Tail(s))
<1>1. CASE s = <<"OutAInA", "OutAInB", "OutBInA", "OutBInB">>
  <2>1. Head(s) = "OutAInA" /\ Tail(s) = <<"OutAInB", "OutBInA", "OutBInB">>
    BY <1>1
  <2>2. Pending(s) = {"OutAInA", "OutAInB", "OutBInA", "OutBInB"}
    BY <1>1, PendingOfFour
  <2>3. Pending(Tail(s)) = {"OutAInB", "OutBInA", "OutBInB"}
    BY <2>1, PendingOfThree
  <2> QED BY <2>1, <2>2, <2>3 DEF ToDeactivate, Relay
<1>2. CASE s = <<"OutAInB", "OutBInA", "OutBInB">>
  <2>1. Head(s) = "OutAInB" /\ Tail(s) = <<"OutBInA", "OutBInB">>
    BY <1>2
  <2>2. Pending(s) = {"OutAInB", "OutBInA", "OutBInB"}
    BY <1>2, PendingOfThree
  <2>3. Pending(Tail(s)) = {"OutBInA", "OutBInB"}
    BY <2>1, PendingOfFew
  <2> QED BY <2>1, <2>2, <2>3 DEF ToDeactivate, Relay
<1>3. CASE s = <<"OutBInA", "OutBInB">>
  <2>1. Head(s) = "OutBInA" /\ Tail(s) = <<"OutBInB">>
    BY <1>3
  <2>2. Pending(s) = {"OutBInA", "OutBInB"}
    BY <1>3, PendingOfFew
  <2>3. Pending(Tail(s)) = {"OutBInB"}
    BY <2>1, PendingOfFew
  <2> QED BY <2>1, <2>2, <2>3 DEF ToDeactivate, Relay
<1>4. CASE s = <<"OutBInB">>
  <2>1. Head(s) = "OutBInB" /\ Tail(s) = <<>>
    BY <1>4
  <2>2. Pending(s) = {"OutBInB"}
    BY <1>4, PendingOfFew
  <2> QED BY <2>1, <2>2 DEF ToDeactivate, Relay
<1> QED BY <1>1, <1>2, <1>3, <1>4 DEF ToDeactivate

(* The relays that activate has done and does next are of one polarity.     *)
LEMMA ActivateNext ==
    ASSUME NEW s \in ToActivate
    PROVE  /\ Head(s) \in Relay
           /\ OnePolarity(Activated(s) \cup {Head(s)})
           /\ Tail(s) \in ToActivate \cup {<<>>}
           /\ Len(s) # 1 => /\ Tail(s) \in ToActivate
                            /\ Activated(s) \cup {Head(s)} \subseteq Activated(Tail(s))
<1> USE DEF OnePolarity, State, RelaysOf, Relay, ToActivate
<1>1. CASE s = <<"OutAInA", "OutBInB">>
  <2>1. Head(s) = "OutAInA" /\ Tail(s) = <<"OutBInB">> /\ s # <<"OutBInB">> /\ s # <<"OutBInA">>
    BY <1>1
  <2>2. Activated(s) = {} /\ Activated(Tail(s)) = {"OutAInA"}
    BY <2>1 DEF Activated
  <2> QED BY <2>1, <2>2
<1>2. CASE s = <<"OutAInB", "OutBInA">>
  <2>1. Head(s) = "OutAInB" /\ Tail(s) = <<"OutBInA">> /\ s # <<"OutBInB">> /\ s # <<"OutBInA">>
    BY <1>2
  <2>2. <<"OutBInA">> # <<"OutBInB">>
    OBVIOUS
  <2>3. Activated(s) = {} /\ Activated(Tail(s)) = {"OutAInB"}
    BY <2>1, <2>2 DEF Activated
  <2> QED BY <2>1, <2>3
<1>3. CASE s = <<"OutBInB">>
  <2>1. Head(s) = "OutBInB" /\ Tail(s) = <<>> /\ Len(s) = 1 /\ Activated(s) = {"OutAInA"}
    BY <1>3 DEF Activated
  <2> QED BY <2>1
<1>4. CASE s = <<"OutBInA">>
  <2>1. <<"OutBInA">> # <<"OutBInB">>
    OBVIOUS
  <2>2. Head(s) = "OutBInA" /\ Tail(s) = <<>> /\ Len(s) = 1 /\ Activated(s) = {"OutAInB"}
    BY <1>4, <2>1 DEF Activated
  <2> QED BY <2>2
<1> QED BY <1>1, <1>2, <1>3, <1>4

-----------------------------------------------------------------------------
LEMMA InitIInv == Init => IInv
<1> SUFFICES ASSUME Init PROVE IInv
  OBVIOUS
<1>1. todo \in ToDeactivate
  BY DEF Init, ToDeactivate
<1>2. TypeOK
  <2>1. todo \in Seq(Relay)
    BY <1>1, TodoIsSeq
  <2>2. failures \in 0..MaxFailures
    BY FailuresAssumption DEF Init
  <2> QED BY <2>1, <2>2 DEF Init, TypeOK, State
<1> QED BY <1>1, <1>2 DEF Init, IInv, TodoInv, OnInv, OnePolarity, State

(* A call of a relay changes that relay at most; without an error it is as  *)
(* asked for, and what the relays believe stays true.                       *)
LEMMA SwitchRelayEffect ==
    ASSUME NEW r \in Relay, NEW active \in BOOLEAN, TypeOK, SwitchRelay(r, active)
    PROVE  /\ on' \subseteq Relay /\ lastActive' \subseteq Relay
           /\ failures' \in 0..MaxFailures
           /\ failures' = 0 => failures = 0
           /\ failures' = 0 /\ on = lastActive
                => on' = lastActive' /\ on' = IF active THEN on \cup {r} ELSE on \ {r}
<1> USE FailuresAssumption DEF TypeOK
<1>1. CASE (r \in lastActive) = active
  BY <1>1 DEF SwitchRelay, relayVars
<1>2. CASE (r \in lastActive) # active
  <2>1. CASE /\ on' = IF active THEN on \cup {r} ELSE on \ {r}
             /\ lastActive' = IF active THEN lastActive \cup {r} ELSE lastActive \ {r}
             /\ UNCHANGED failures
    BY <2>1
  <2>2. CASE /\ Fail
             /\ on' \in {on, IF active THEN on \cup {r} ELSE on \ {r}}
             /\ UNCHANGED lastActive
    BY <2>2 DEF Fail
  <2> QED BY <1>2, <2>1, <2>2 DEF SwitchRelay
<1> QED BY <1>1, <1>2

LEMMA StepIInv == ASSUME IInv, [Next]_vars PROVE IInv'
<1> USE DEF IInv
<1>1. CASE UNCHANGED vars
  BY <1>1 DEF vars, TypeOK, TodoInv, OnInv, OnePolarity
<1>2. CASE NothingToDo
  BY <1>2 DEF NothingToDo, TypeOK, TodoInv, OnInv, OnePolarity, Switching
<1>3. CASE StartSwitching
  <2>1. todo' \in ToDeactivate
    BY <1>3 DEF StartSwitching, ToDeactivate
  <2>2. TypeOK'
    BY <1>3, <2>1, TodoIsSeq DEF StartSwitching, TypeOK, Switching
  <2>3. Pending(todo') = Relay
    <3>1. todo' = <<"OutAInA", "OutAInB", "OutBInA", "OutBInB">>
      BY <1>3 DEF StartSwitching
    <3> QED BY <3>1, PendingOfFour DEF Relay
  <2>4. OnInv'
    BY <1>3, <2>2, <2>3 DEF StartSwitching, TypeOK, OnInv, OnePolarity
  <2> QED BY <1>3, <2>1, <2>2, <2>4 DEF StartSwitching, TodoInv
<1>4. CASE Deactivate
  <2> DEFINE r == Head(todo)
  <2>1. /\ pc = "deactivate" /\ pc' = pc /\ todo # <<>> /\ todo' = Tail(todo)
        /\ SwitchRelay(r, FALSE)
    BY <1>4 DEF Deactivate
  <2>2. /\ todo \in ToDeactivate /\ r \in Relay /\ todo' \in ToDeactivate
        /\ Pending(todo) \ {r} \subseteq Pending(todo')
    BY <2>1, DeactivateNext DEF TodoInv
  <2> HIDE DEF r
  <2>3. /\ on' \subseteq Relay /\ lastActive' \subseteq Relay
        /\ failures' \in 0..MaxFailures
        /\ failures' = 0 => failures = 0
        /\ failures' = 0 /\ on = lastActive => on' = lastActive' /\ on' = on \ {r}
    BY <2>1, <2>2, SwitchRelayEffect
  <2>4. TypeOK'
    BY <1>4, <2>2, <2>3, TodoIsSeq DEF Deactivate, TypeOK
  <2>5. OnInv'
    BY <2>1, <2>2, <2>3 DEF OnInv, OnePolarity
  <2> QED BY <2>1, <2>2, <2>4, <2>5 DEF TodoInv
<1>5. CASE Deactivated
  <2>1. Pending(<<>>) = {}
    BY PendingOfFew
  <2> QED BY <1>5, <2>1 DEF Deactivated, TypeOK, TodoInv, OnInv, OnePolarity, Switching
<1>6. CASE IfDefault
  <2>1. <<"OutAInA", "OutBInB">> \in ToActivate
    BY DEF ToActivate
  <2>2. TodoInv'
    BY <1>6, <2>1 DEF IfDefault, TodoInv
  <2>3. TypeOK'
    BY <1>6, <2>2, TodoIsSeq DEF IfDefault, TypeOK, TodoInv, Switching
  <2>4. OnInv'
    BY <1>6 DEF IfDefault, OnInv, OnePolarity
  <2> QED BY <2>2, <2>3, <2>4
<1>7. CASE IfReverse
  <2>1. <<"OutAInB", "OutBInA">> \in ToActivate
    BY DEF ToActivate
  <2>2. TodoInv'
    BY <1>7, <2>1 DEF IfReverse, TodoInv
  <2>3. TypeOK'
    BY <1>7, <2>2, TodoIsSeq DEF IfReverse, TypeOK, TodoInv, Switching
  <2>4. OnInv'
    BY <1>7 DEF IfReverse, OnInv, OnePolarity
  <2> QED BY <2>2, <2>3, <2>4
<1>8. CASE Activate
  <2> DEFINE r == Head(todo)
  <2>1. /\ pc = "activate" /\ todo' = Tail(todo) /\ SwitchRelay(r, TRUE)
        /\ pc' = IF Len(todo) = 1 THEN "store" ELSE "activate"
    BY <1>8 DEF Activate
  <2>2. /\ todo \in ToActivate /\ r \in Relay
        /\ OnePolarity(Activated(todo) \cup {r})
        /\ todo' \in ToActivate \cup ToDeactivate
        /\ Len(todo) # 1 => /\ todo' \in ToActivate
                            /\ Activated(todo) \cup {r} \subseteq Activated(todo')
    BY <2>1, ActivateNext DEF TodoInv, ToDeactivate
  <2> HIDE DEF r
  <2>3. /\ on' \subseteq Relay /\ lastActive' \subseteq Relay
        /\ failures' \in 0..MaxFailures
        /\ failures' = 0 => failures = 0
        /\ failures' = 0 /\ on = lastActive => on' = lastActive' /\ on' = on \cup {r}
    BY <2>1, <2>2, SwitchRelayEffect
  <2>4. TypeOK'
    BY <1>8, <2>1, <2>2, <2>3, TodoIsSeq DEF Activate, TypeOK, Switching
  <2>5. OnInv'
    <3> SUFFICES ASSUME failures' = 0
                 PROVE  /\ on' = lastActive'
                        /\ OnePolarity(on')
                        /\ pc' = "activate" => on' \subseteq Activated(todo')
      BY <2>1 DEF OnInv
    <3>1. on' \subseteq Activated(todo) \cup {r} /\ on' = lastActive'
      BY <2>1, <2>3 DEF OnInv
    <3> QED BY <2>1, <2>2, <3>1 DEF OnePolarity
  <2> QED BY <2>1, <2>2, <2>4, <2>5 DEF TodoInv
<1>9. CASE StoreState
  BY <1>9 DEF StoreState, TypeOK, TodoInv, OnInv, OnePolarity, Switching
<1>10. CASE TestSend
  BY <1>10 DEF TestSend, TypeOK, TodoInv, OnInv, OnePolarity, Switching
<1>11. CASE Report
  BY <1>11 DEF Report, TypeOK, TodoInv, OnInv, OnePolarity, Switching
<1>12. CASE Continue
  BY <1>12 DEF Continue, TypeOK, TodoInv, OnInv, OnePolarity, Switching
<1>13. CASE ProcessMessage
  BY <1>13 DEF ProcessMessage, TypeOK, TodoInv, OnInv, OnePolarity
<1>14. CASE ProcessPowerMessage
  BY <1>14 DEF ProcessPowerMessage, TypeOK, TodoInv, OnInv, OnePolarity
<1>15. CASE Cancel
  BY <1>15 DEF Cancel, TypeOK, TodoInv, OnInv, OnePolarity
<1> QED
  BY <1>1, <1>2, <1>3, <1>4, <1>5, <1>6, <1>7, <1>8, <1>9, <1>10, <1>11, <1>12,
     <1>13, <1>14, <1>15 DEF Next, Run

-----------------------------------------------------------------------------
LEMMA Invariance == Spec => []IInv
<1>1. IInv /\ [Next]_vars => IInv'
  BY StepIInv
<1> QED BY InitIInv, <1>1, PTL DEF Spec

(* The variables stay in their types, whenever requests come.               *)
THEOREM TypeCorrect == Spec => []TypeOK
<1>1. IInv => TypeOK
  BY DEF IInv
<1> QED BY <1>1, Invariance, PTL

(* As long as no call fails the booster is never shorted, for any number of *)
(* requests and wherever Run is when they write the target.                 *)
THEOREM NoShortCorrect == Spec => []NoShort
<1>1. IInv => NoShort
  BY DEF IInv, OnInv, OnePolarity, NoShort, Short, RelaysOf, State
<1> QED BY <1>1, Invariance, PTL

-----------------------------------------------------------------------------
(* The four relays as an interlock of the two polarities.                   *)
ClosedRelays == IF failures = 0 THEN on ELSE {}

Polarities == INSTANCE Interlock WITH
    closed <- ClosedRelays, Sides <- {RelaysOf(s) : s \in State}

ImplementsInterlock == Polarities!Spec

(* Only a call of a relay changes what is energised.                        *)
LEMMA RelaysChange ==
    ASSUME IInv, [Next]_vars, UNCHANGED failures
    PROVE  on' \subseteq on \/ on \subseteq on'
<1>1. ASSUME NEW r, NEW active \in BOOLEAN, SwitchRelay(r, active)
      PROVE  on' \subseteq on \/ on \subseteq on'
  BY <1>1 DEF SwitchRelay, relayVars
<1>2. CASE Deactivate \/ Activate
  BY <1>1, <1>2 DEF Deactivate, Activate
<1>3. CASE UNCHANGED on
  BY <1>3
<1>4. CASE Run
  BY <1>2, <1>3, <1>4
     DEF Run, NothingToDo, StartSwitching, Deactivated, IfDefault, IfReverse, StoreState,
         TestSend, Report, Continue
<1> QED BY <1>3, <1>4 DEF Next, ProcessMessage, ProcessPowerMessage, Cancel, vars

(* Failures are not forgotten.                                              *)
LEMMA FailuresStay == ASSUME IInv, [Next]_vars, failures # 0 PROVE failures' # 0
<1>0. failures \in Nat
  BY FailuresAssumption DEF IInv, TypeOK
<1>1. ASSUME NEW r, NEW active \in BOOLEAN, SwitchRelay(r, active) PROVE failures' # 0
  BY <1>0, <1>1 DEF SwitchRelay, relayVars, Fail
<1>2. CASE Run
  BY <1>1, <1>2
     DEF Run, NothingToDo, StartSwitching, Deactivate, Deactivated, IfDefault, IfReverse,
         Activate, StoreState, TestSend, Report, Continue
<1> QED BY <1>2 DEF Next, ProcessMessage, ProcessPowerMessage, Cancel, vars

(* As long as no call fails the rails change from one polarity to the other *)
(* only through a moment with all relays let go (track_inverter.go, Run and *)
(* its two loops), for any number of requests and wherever they come. This  *)
(* is more than NoShort: there is no change-over of one rail at a time.     *)
THEOREM InterlockRefinement == Spec => ImplementsInterlock
<1>1. Init => Polarities!Init
  BY InitIInv DEF Init, ClosedRelays, Polarities!Init, State
<1>2. IInv /\ IInv' /\ [Next]_vars => [Polarities!Next]_ClosedRelays
  <2> SUFFICES ASSUME IInv, IInv', [Next]_vars PROVE Polarities!Next
    OBVIOUS
  <2>1. CASE failures' # 0 \/ failures # 0
    <3>1. failures' # 0
      BY <2>1, FailuresStay
    <3> QED BY <3>1 DEF ClosedRelays, Polarities!Next, Polarities!Open
  <2>2. CASE failures = 0 /\ failures' = 0
    <3>1. ClosedRelays = on /\ ClosedRelays' = on'
      BY <2>2 DEF ClosedRelays
    <3>2. CASE on' \subseteq on
      BY <3>1, <3>2 DEF Polarities!Next, Polarities!Open
    <3>3. CASE on \subseteq on'
      <4>1. PICK s \in State : on' \subseteq RelaysOf(s)
        BY <2>2 DEF IInv, OnInv, OnePolarity
      <4> QED BY <3>1, <3>3, <4>1 DEF Polarities!Next, Polarities!Close
    <3> QED BY <2>2, <3>2, <3>3, RelaysChange
  <2> QED BY <2>1, <2>2
<1> QED BY <1>1, <1>2, Invariance, PTL DEF Spec, ImplementsInterlock, Polarities!Spec
==============================================================================
