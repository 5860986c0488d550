------------------------------- MODULE Turnout -------------------------------
(***************************************************************************)
(* What a servo switch (pkg/service/objects/servo_switch.go) promises the   *)
(* layout: the blades never move while the frog has power, stay between     *)
(* the two positions, and the frog only gets the power of the position that *)
(* the blades are in. How a servo, relays, requests and waits bring this    *)
(* about is the matter of ServoSwitch, which implements this module.        *)
(***************************************************************************)
EXTENDS Integers

CONSTANTS StraightPL, OffPL

VARIABLES
    blades,  \* where the servo holds the blades
    frog     \* the phases that power the frog

vars == <<blades, frog>>

Travel == IF StraightPL < OffPL THEN StraightPL..OffPL ELSE OffPL..StraightPL

Init ==
    /\ blades \in {StraightPL, OffPL}
    /\ frog = {}

Move ==
    /\ frog = {}
    /\ blades' \in Travel
    /\ UNCHANGED frog

PowerOn ==
    /\ frog = {}
    /\ \/ blades = StraightPL /\ frog' = {"straight"}
       \/ blades = OffPL /\ frog' = {"off"}
    /\ UNCHANGED blades

PowerOff ==
    /\ frog' = {}
    /\ UNCHANGED blades

Next == Move \/ PowerOn \/ PowerOff

Spec == Init /\ [][Next]_vars
=============================================================================
