---------------------------- MODULE TrackInverter ----------------------------
(***************************************************************************)
(* A track inverter (pkg/service/objects/track_inverter.go): four relays    *)
(* connect the rails OutA and OutB to the booster outputs InA and InB, in   *)
(* the default or the reverse polarity. Connecting one rail to both booster *)
(* outputs shorts the booster.                                              *)
(*                                                                         *)
(* Requests write targetState from other goroutines, without a lock; Run    *)
(* reads it several times while it switches, with waits of up to 250 ms in  *)
(* between. The relays are phaseRelays (PhaseRelay).                        *)
(***************************************************************************)
EXTENDS PhaseRelay, Sequences

VARIABLES
    targetState,
    currentState,
    initialized,       \* local variable of Run
    sendActualNeeded,
    pc,                \* where Run is
    todo,              \* relays it still has to switch there
    reported,          \* the actual state sent last
    ctxDone,
    raced              \* history: a request came while Run was switching

vars == <<on, lastActive, targetState, currentState, initialized,
          sendActualNeeded, pc, todo, reported, ctxDone, failures, raced>>

Relay == {"OutAInA", "OutAInB", "OutBInA", "OutBInB"}
State == {"default", "reverse"}

RelaysOf(s) == IF s = "default" THEN {"OutAInA", "OutBInB"} ELSE {"OutAInB", "OutBInA"}

(* Places of Run: the test for a new target, the loop over the relays to    *)
(* deactivate, the two tests of the target that choose what to activate,    *)
(* the loop that activates, the assignment to currentState, the send of the *)
(* actual, and the select.                                                  *)
Switching == {"deactivate", "ifDefault", "ifReverse", "activate", "store"}

TypeOK ==
    /\ on \subseteq Relay
    /\ lastActive \subseteq Relay
    /\ targetState \in State
    /\ currentState \in State
    /\ initialized \in BOOLEAN
    /\ sendActualNeeded \in BOOLEAN
    /\ pc \in Switching \cup {"test", "send", "report", "select", "done"}
    /\ todo \in Seq(Relay)
    /\ reported \in State \cup {"none"}
    /\ ctxDone \in BOOLEAN
    /\ failures \in 0..MaxFailures
    /\ raced \in BOOLEAN

(* Configure has deactivated all relays, and the states are zero values.    *)
Init ==
    /\ on = {}
    /\ lastActive = {}
    /\ targetState = "default"
    /\ currentState = "default"
    /\ initialized = FALSE
    /\ sendActualNeeded = FALSE
    /\ pc = "test"
    /\ todo = <<>>
    /\ reported = "none"
    /\ ctxDone = FALSE
    /\ failures = 0
    /\ raced = FALSE

-----------------------------------------------------------------------------
(* NothingToDo as soon as a first state has been set.                       *)
NothingToDoOnceInitialized ==
    /\ pc = "test"
    /\ initialized
    /\ pc' = "send"
    /\ UNCHANGED <<on, lastActive, targetState, currentState, initialized,
                   sendActualNeeded, todo, reported, ctxDone, failures, raced>>

(* Run has nothing new to set.                                              *)
NothingToDo ==
    /\ pc = "test"
    /\ initialized
    /\ targetState = currentState
    /\ pc' = "send"
    /\ UNCHANGED <<on, lastActive, targetState, currentState, initialized,
                   sendActualNeeded, todo, reported, ctxDone, failures, raced>>

(* StartSwitching that leaves one relay out.                                *)
StartSwitchingMissingOne ==
    /\ pc = "test"
    /\ ~initialized \/ targetState # currentState
    /\ pc' = "deactivate"
    /\ todo' = <<"OutAInA", "OutAInB", "OutBInB">>
    /\ UNCHANGED <<on, lastActive, targetState, currentState, initialized,
                   sendActualNeeded, reported, ctxDone, failures, raced>>

(* Run goes to deactivate all relays.                                       *)
StartSwitching ==
    /\ pc = "test"
    /\ ~initialized \/ targetState # currentState
    /\ pc' = "deactivate"
    /\ todo' = <<"OutAInA", "OutAInB", "OutBInA", "OutBInB">>
    /\ UNCHANGED <<on, lastActive, targetState, currentState, initialized,
                   sendActualNeeded, reported, ctxDone, failures, raced>>

Deactivate ==
    /\ pc = "deactivate"
    /\ todo # <<>>
    /\ SwitchRelay(Head(todo), FALSE)
    /\ todo' = Tail(todo)
    /\ UNCHANGED <<targetState, currentState, initialized, sendActualNeeded, pc,
                   reported, ctxDone, raced>>

(* The relays have settled.                                                 *)
Deactivated ==
    /\ pc = "deactivate"
    /\ todo = <<>>
    /\ pc' = "ifDefault"
    /\ UNCHANGED <<on, lastActive, targetState, currentState, initialized,
                   sendActualNeeded, todo, reported, ctxDone, failures, raced>>

(* The first reading of targetState after the wait.                         *)
IfDefault ==
    /\ pc = "ifDefault"
    /\ IF targetState = "default"
       THEN /\ pc' = "activate"
            /\ todo' = <<"OutAInA", "OutBInB">>
       ELSE /\ pc' = "ifReverse"
            /\ UNCHANGED todo
    /\ UNCHANGED <<on, lastActive, targetState, currentState, initialized,
                   sendActualNeeded, reported, ctxDone, failures, raced>>

(* The second. If the target went back in between, nothing is activated.    *)
IfReverse ==
    /\ pc = "ifReverse"
    /\ IF targetState = "reverse"
       THEN /\ pc' = "activate"
            /\ todo' = <<"OutAInB", "OutBInA">>
       ELSE /\ pc' = "store"
            /\ UNCHANGED todo
    /\ UNCHANGED <<on, lastActive, targetState, currentState, initialized,
                   sendActualNeeded, reported, ctxDone, failures, raced>>

Activate ==
    /\ pc = "activate"
    /\ todo # <<>>
    /\ SwitchRelay(Head(todo), TRUE)
    /\ todo' = Tail(todo)
    /\ pc' = IF Len(todo) = 1 THEN "store" ELSE "activate"
    /\ UNCHANGED <<targetState, currentState, initialized, sendActualNeeded,
                   reported, ctxDone, raced>>

(* StoreState that takes the state that was reported last.                  *)
StoreReportedState ==
    /\ pc = "store"
    /\ currentState' = reported
    /\ initialized' = TRUE
    /\ pc' = "send"
    /\ UNCHANGED <<on, lastActive, targetState, sendActualNeeded, todo, reported,
                   ctxDone, failures, raced>>

(* currentState takes whatever targetState is by now.                       *)
StoreState ==
    /\ pc = "store"
    /\ currentState' = targetState
    /\ initialized' = TRUE
    /\ pc' = "send"
    /\ UNCHANGED <<on, lastActive, targetState, sendActualNeeded, todo, reported,
                   ctxDone, failures, raced>>

(* The compare-and-swap of sendActualNeeded.                                *)
TestSend ==
    /\ pc = "send"
    /\ sendActualNeeded' = FALSE
    /\ pc' = IF sendActualNeeded THEN "report" ELSE "select"
    /\ UNCHANGED <<on, lastActive, targetState, currentState, initialized, todo,
                   reported, ctxDone, failures, raced>>

(* The actual that is sent is read from targetState.                        *)
Report ==
    /\ pc = "report"
    /\ reported' = targetState
    /\ pc' = "select"
    /\ UNCHANGED <<on, lastActive, targetState, currentState, initialized,
                   sendActualNeeded, todo, ctxDone, failures, raced>>

(* The select of Run: its timer, or the end of the context, upon which the  *)
(* relays are left as they are.                                             *)
Continue ==
    /\ pc = "select"
    /\ pc' = IF ctxDone THEN "done" ELSE "test"
    /\ UNCHANGED <<on, lastActive, targetState, currentState, initialized,
                   sendActualNeeded, todo, reported, ctxDone, failures, raced>>

-----------------------------------------------------------------------------
(* ProcessMessage of a request, in a goroutine of its own.                  *)
ProcessMessage ==
    /\ ~ctxDone
    /\ \E s \in State : targetState' = s
    /\ sendActualNeeded' = TRUE
    /\ raced' = (raced \/ pc \in Switching)
    /\ UNCHANGED <<on, lastActive, currentState, initialized, pc, todo, reported,
                   ctxDone, failures>>

(* ProcessPowerMessage when the track power is turned on.                   *)
ProcessPowerMessage ==
    /\ ~ctxDone
    /\ sendActualNeeded' = TRUE
    /\ UNCHANGED <<on, lastActive, targetState, currentState, initialized, pc,
                   todo, reported, ctxDone, failures, raced>>

Cancel ==
    /\ ~ctxDone
    /\ ctxDone' = TRUE
    /\ UNCHANGED <<on, lastActive, targetState, currentState, initialized,
                   sendActualNeeded, pc, todo, reported, failures, raced>>

-----------------------------------------------------------------------------
Run ==
    \/ NothingToDo
    \/ StartSwitching
    \/ Deactivate
    \/ Deactivated
    \/ IfDefault
    \/ IfReverse
    \/ Activate
    \/ StoreState
    \/ TestSend
    \/ Report
    \/ Continue

Next == Run \/ ProcessMessage \/ ProcessPowerMessage \/ Cancel

Spec == Init /\ [][Next]_vars

(* The goroutine of Run is scheduled and its timers fire.                   *)
FairSpec == Spec /\ WF_vars(Run)

-----------------------------------------------------------------------------
(* One rail is connected to both outputs of the booster.                    *)
Short == \E out \in {{"OutAInA", "OutAInB"}, {"OutBInA", "OutBInB"}} : out \subseteq on

(* As long as no call of the hardware failed, the booster is never shorted, *)
(* not for a moment, whenever requests arrive: all relays are let go before *)
(* any is activated, and what the relays believe is true.                   *)
NoShort == failures = 0 => ~Short

(* A request is obeyed: if the target differs from the current state, the   *)
(* relays get the target's positions, unless requests came while relays     *)
(* were being switched, the hardware failed, or the object is cancelled.    *)
RequestIsObeyed ==
    targetState # currentState ~>
        on = RelaysOf(targetState) \/ raced \/ failures > 0 \/ ctxDone

(* Between two rounds of Run the relays are in the positions of             *)
(* currentState: Run has "set the desired relays".                          *)
CurrentStateIsApplied ==
    pc = "select" /\ initialized /\ failures = 0 => on = RelaysOf(currentState)
=============================================================================
