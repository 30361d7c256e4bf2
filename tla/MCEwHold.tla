------------------------------ MODULE MCEwHold ------------------------------
(* EwHold with millisecond limits scaled to a few ticks.                   *)
EXTENDS EwHold
=============================================================================
