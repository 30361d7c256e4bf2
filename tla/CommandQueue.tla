---------------------------- MODULE CommandQueue ----------------------------
(***************************************************************************)
(* What the serial command queue promises: commands come out in the order   *)
(* they went in, each once; of those that find the queue full none goes in, *)
(* and those already waiting are kept.                                      *)
(***************************************************************************)
EXTENDS Naturals, Sequences

CONSTANTS Commands, NoLine, Capacity

VARIABLES queue, out

Init == queue = <<>> /\ out = NoLine

Put(c) ==
  /\ queue' = IF Len(queue) < Capacity THEN Append(queue, c) ELSE queue
  /\ UNCHANGED out

Take ==
  /\ queue # <<>>
  /\ out' = Head(queue)
  /\ queue' = Tail(queue)

Next == Take \/ \E c \in Commands : Put(c)

Spec == Init /\ [][Next]_<<queue, out>>
=============================================================================
