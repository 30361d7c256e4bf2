------------------------------ MODULE MCBuzzer ------------------------------
(* Buzzer with two alert levels and two shells. *)
EXTENDS Buzzer

CONSTANTS s1, s2
TwoShells == {s1, s2}
=============================================================================
