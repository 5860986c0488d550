------------------------------ MODULE Interlock ------------------------------
(***************************************************************************)
(* What the relays of a switch or a track inverter promise the layout: break*)
(* before make. Relays are grouped in sides, such as the two polarities of a*)
(* rail or the two coils of a turnout. Those of a side may be closed one by *)
(* one, and those of another side only after all of it have been opened.    *)
(***************************************************************************)
CONSTANT Sides  \* the sets of relays that may be closed together

VARIABLE closed \* relays that are closed

Init == \E side \in Sides : closed \subseteq side

Open == closed' \subseteq closed

Close == \E side \in Sides : closed \subseteq closed' /\ closed' \subseteq side

Next == Open \/ Close

Spec == Init /\ [][Next]_closed
=============================================================================
