--------------------------- MODULE MCLd2451Parser ---------------------------
(* Ld2451Parser with a two-byte header and tail, two targets and four kinds *)
(* of target; symbol 4 is a target whose direction byte is invalid.         *)
EXTENDS Ld2451Parser, TLC

MCHeader == <<244, 243>>
MCTails == <<248, 247>>

Approaching(range, speed, snr) ==
  [range |-> range, speed |-> speed, snr |-> snr, approaching |-> TRUE,
   alarm |-> FALSE, phys |-> TRUE]

(* A near slow target, a far fast one, a nearer one that is too faint and,  *)
(* since a header may also appear among targets, one that moves away.       *)
MCTargets == 0 :> Approaching(20, 10, 20) @@ 1 :> Approaching(24, 60, 20)
             @@ 244 :> Approaching(7, 20, 2)
             @@ 243 :> [Approaching(5, 30, 20) EXCEPT !.approaching = FALSE]

MCSymbols == {0, 1, 2, 3, 4, 244, 243, 248, 247}
=============================================================================
