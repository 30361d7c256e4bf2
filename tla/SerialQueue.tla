---------------------------- MODULE SerialQueue ----------------------------
(***************************************************************************)
(* The ring of ew_serial_ctl.c between the thread that reads lines from the *)
(* console, q_push, and the UI loop that runs them, q_pop.  The mutex makes *)
(* each of the two one step.  One slot always stays free, so that a full    *)
(* ring is told from an empty one.                                          *)
(***************************************************************************)
EXTENDS Naturals, Sequences

CONSTANTS
  Commands,  \* the lines that may arrive
  NoLine,    \* no line
  QMax       \* EW_CTL_Q_MAX, the slots of the ring

ASSUME QueueAssumption == QMax \in Nat /\ QMax > 1 /\ NoLine \notin Commands

VARIABLES
  lines,  \* g_q.lines, by slot
  head,   \* the oldest line
  tail,   \* the next free slot
  run     \* the command that was dispatched last

queueVars == <<lines, head, tail, run>>

Slots == 0 .. QMax - 1
Lines == Commands \cup {NoLine}

QueueTypeOK ==
  /\ lines \in [Slots -> Lines]
  /\ head \in Slots /\ tail \in Slots
  /\ run \in Lines

QueueInit ==
  /\ lines = [s \in Slots |-> NoLine]
  /\ head = 0 /\ tail = 0
  /\ run = NoLine

(* (s + 1) % EW_CTL_Q_MAX, for a slot s. *)
After(s) == IF s + 1 = QMax THEN 0 ELSE s + 1

(* Fault: the index of the next slot does not wrap. *)
FullUnwrapped == tail + 1 = head

Full == After(tail) = head

Push(c) ==
  /\ ~Full
  /\ lines' = [lines EXCEPT ![tail] = c]
  /\ tail' = After(tail)
  /\ UNCHANGED <<head, run>>

(* A line that finds the ring full is dropped. *)
Drop == Full /\ UNCHANGED queueVars

Pop ==
  /\ head # tail
  /\ run' = lines[head]
  /\ head' = After(head)
  /\ UNCHANGED <<lines, tail>>

QueueNext == Pop \/ Drop \/ \E c \in Commands : Push(c)

QueueSpec == QueueInit /\ [][QueueNext]_queueVars

(* The lines waiting in the ring, oldest first. *)
Count == IF head <= tail THEN tail - head ELSE tail + QMax - head
SlotOf(i) == IF head + i - 1 < QMax THEN head + i - 1 ELSE head + i - 1 - QMax
Waiting == [i \in 1 .. Count |-> lines[SlotOf(i)]]

Queue == INSTANCE CommandQueue WITH
  queue <- Waiting, out <- run, Capacity <- QMax - 1

(* The ring is a queue of one entry less than its slots: nothing waiting is *)
(* lost, repeated or reordered when the indices wrap or the ring is full.   *)
ImplementsQueue == Queue!Spec
=============================================================================
