------------------------------ MODULE AlertSlot ------------------------------
(***************************************************************************)
(* What the alert transport promises, without its files: one cell holds at *)
(* most one request; a request is applied at most once; its acknowledgement*)
(* appears only after it was applied and stays until the next request is   *)
(* prepared; nothing but an operator's recovery discards a request.        *)
(***************************************************************************)
EXTENDS Naturals

CONSTANTS Events   (* Identities of the requests, none of them 0. *)

VARIABLES
  cell,     \* what the slot holds
  ack,      \* the acknowledgement a publisher can read
  outcome   \* [Events -> result of applying the request]

slotVars == <<cell, ack, outcome>>

Results == {"applied", "rejected"}
NoRecord == [ev |-> 0, res |-> "none"]
Empty == [state |-> "empty", ev |-> 0]

SlotInit ==
  /\ cell = Empty
  /\ ack = NoRecord
  /\ outcome = [e \in Events |-> "none"]

(* A publisher prepares the slot for its request. *)
ForgetAck ==
  /\ cell = Empty
  /\ ack' = NoRecord
  /\ UNCHANGED <<cell, outcome>>

(* A request enters an empty cell, and only once. *)
Offer(e) ==
  /\ cell = Empty
  /\ ack = NoRecord
  /\ outcome[e] = "none"
  /\ cell' = [state |-> "queued", ev |-> e]
  /\ UNCHANGED <<ack, outcome>>

Apply(e, r) ==
  /\ cell = [state |-> "queued", ev |-> e]
  /\ outcome[e] = "none"
  /\ outcome' = [outcome EXCEPT ![e] = r]
  /\ cell' = [state |-> "done", ev |-> e]
  /\ UNCHANGED ack

Acknowledge(e) ==
  /\ cell = [state |-> "done", ev |-> e]
  /\ ack' = [ev |-> e, res |-> outcome[e]]
  /\ UNCHANGED <<cell, outcome>>

(* The cell is freed only when the acknowledgement can be read. *)
Retire(e) ==
  /\ cell = [state |-> "done", ev |-> e]
  /\ ack = [ev |-> e, res |-> outcome[e]]
  /\ cell' = Empty
  /\ UNCHANGED <<ack, outcome>>

(* The operator clears the slot after a crash. *)
Discard ==
  /\ cell # Empty
  /\ cell' = Empty
  /\ UNCHANGED <<ack, outcome>>

SlotNext ==
  \/ ForgetAck
  \/ Discard
  \/ \E e \in Events :
       \/ Offer(e)
       \/ Acknowledge(e)
       \/ Retire(e)
       \/ \E r \in Results : Apply(e, r)

SlotSpec == SlotInit /\ [][SlotNext]_slotVars
=============================================================================
