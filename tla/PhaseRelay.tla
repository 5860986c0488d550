----------------------------- MODULE PhaseRelay -----------------------------
(***************************************************************************)
(* The relays of servo switches and track inverters (phaseRelay in          *)
(* pkg/service/objects/servo_switch.go). A phaseRelay remembers whether it  *)
(* activated its pin last and leaves the hardware alone when a call would   *)
(* change nothing in its memory.                                            *)
(***************************************************************************)
EXTENDS Naturals

CONSTANT MaxFailures  \* bound: calls of the hardware that fail

ASSUME FailuresAssumption == MaxFailures \in Nat

VARIABLES
    on,          \* relays that are energised
    lastActive,  \* relays that believe they are
    failures     \* calls of the hardware that failed so far

relayVars == <<on, lastActive, failures>>

(* A call of the hardware that fails is counted, up to the bound.           *)
Fail ==
    /\ failures < MaxFailures
    /\ failures' = failures + 1

(* activateRelay and deactivateRelay: nothing if the relay believes to be   *)
(* in that state already; otherwise a call of the hardware, which on an     *)
(* error may or may not have changed it, and leaves the belief as it was.   *)
(* The callers log the error and go on.                                     *)
SwitchRelay(r, active) ==
    IF (r \in lastActive) = active
    THEN UNCHANGED relayVars
    ELSE LET switched(S) == IF active THEN S \cup {r} ELSE S \ {r}
         IN  \/ /\ on' = switched(on)
                /\ lastActive' = switched(lastActive)
                /\ UNCHANGED failures
             \/ /\ Fail
                /\ on' \in {on, switched(on)}
                /\ UNCHANGED lastActive
=============================================================================
