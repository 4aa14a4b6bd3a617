-------------------------------- MODULE Baud --------------------------------
(***************************************************************************)
(* What a baud rate divider promises to the unit it drives: a pulse one    *)
(* clock wide, once every Period + 1 clocks, counted from the last reset.  *)
(* ClkDivider.tla implements it with a toggled signal and a 16 bit         *)
(* counter.                                                                *)
(***************************************************************************)
EXTENDS Naturals

CONSTANT Period

VARIABLES age,      \* clocks since the last pulse (or since reset)
          pulse

Init == age = 0 /\ pulse = FALSE

Restart == age' = 0 /\ pulse' = FALSE

Count == /\ age < Period
         /\ age' = age + 1
         /\ pulse' = FALSE

Pulse == /\ age = Period
         /\ age' = 0
         /\ pulse' = TRUE

Next == Restart \/ Count \/ Pulse

Spec == Init /\ [][Next]_<<age, pulse>>
=============================================================================
