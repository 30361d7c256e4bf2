------------------------------ MODULE MCEwAlert ------------------------------
(* EwAlert with two alert levels and two link states. *)
EXTENDS EwAlert

CONSTANTS dead, ok
TwoLinks == {dead, ok}
=============================================================================
