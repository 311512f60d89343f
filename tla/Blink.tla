-------------------------------- MODULE Blink --------------------------------
(***************************************************************************)
(* What the FreeRTOS demo shows on its board: two of the lights take       *)
(* turns.  The sender toggles light 2, and only when both lights agree;    *)
(* the receiver answers by toggling light 3.  No toggle is ever lost, and  *)
(* the sender never toggles twice without an answer.                       *)
(***************************************************************************)
VARIABLES on, led2, led3

Init == on = FALSE /\ led2 \in BOOLEAN /\ led3 \in BOOLEAN

Start == ~on /\ on' = TRUE /\ led2' = TRUE /\ led3' = TRUE

Send == on /\ led2 = led3 /\ led2' = ~led2 /\ UNCHANGED <<on, led3>>

Answer == on /\ led2 # led3 /\ led3' = ~led3 /\ UNCHANGED <<on, led2>>

Next == Start \/ Send \/ Answer

Spec == Init /\ [][Next]_<<on, led2, led3>>
===============================================================================
