------------------------------- MODULE AlertIpc -------------------------------
(***************************************************************************)
(* The single-slot alert transport of ew_alert_ipc.h.  Publishers (the     *)
(* agent's tool, the alert page's own queue_request) and consumers (the    *)
(* alert page's poll) share nothing but a directory: mkdir is the lock,    *)
(* rename moves a request, and a small completion record lets any consumer *)
(* finish what another one applied.  One action is one file operation, so  *)
(* a process can stop, and an operation can fail, between any two of them. *)
(***************************************************************************)
EXTENDS Naturals, FiniteSets

CONSTANTS
  Publishers,    (* Processes or threads that publish.                      *)
  Consumers,     (* Processes that poll and apply.                          *)
  Events,        (* Request ids, none of them 0.                            *)
  Failing,       (* The kinds of file operations that may fail, see Kinds.  *)
  MaxTries,      (* Bound: publish calls of all publishers together.        *)
  MaxFaults,     (* Bound: file operations that fail.                       *)
  MaxCrashes     (* Bound: processes that stop in mid-call.                 *)

(* What can fail: creating a directory; reading a record or a file's state; *)
(* reading the claimed request; writing a file; renaming one; removing one; *)
(* and giving back what was taken, whose failure the code cannot repair.    *)
Kinds == {"make", "read", "request", "write", "move", "remove", "release"}

ASSUME IpcAssumption ==
  /\ Publishers \cap Consumers = {}
  /\ Events \subseteq Nat \ {0}
  /\ Failing \subseteq Kinds
  /\ MaxTries \in Nat /\ MaxFaults \in Nat /\ MaxCrashes \in Nat

Procs == Publishers \cup Consumers
NoEvent == 0
EventOrNone == Events \cup {NoEvent}

(* Directories and files of the transport; a file is absent when it holds   *)
(* NoEvent or NoRecord.                                                     *)
Dirs == {"mutex", "slot", "consumer"}
Record == [ev: EventOrNone, res: {"none", "applied", "rejected"}]
NoRecord == [ev |-> NoEvent, res |-> "none"]

VARIABLES
  dirs,        \* the directories that exist
  staging, req, processing,      \* request files: the id they carry
  ack, ackTmp, result, resultTmp,\* acknowledgement and completion records
  pc,          \* where each process is in publish() or consume()
  reg,         \* [Procs -> Record]: request->event_id and result of the call
  pending,     \* [Consumers -> record]: the static of ew_alert_ipc_consume
  faults, crashes, tries,        \* used so far, of the bounds
  (* History, for the properties only. *)
  outcome,     \* [Events -> what applying the request returned]
  applies,     \* [Events -> how often the callback ran for it]
  accepted,    \* events whose publish reached its rename
  discarded    \* events an operator's recovery removed

requests == <<staging, req, processing>>
records == <<ack, ackTmp, result, resultTmp>>
files == <<dirs, requests, records>>
budget == <<faults, crashes, tries>>
past == <<outcome, applies, accepted, discarded>>
vars == <<files, pc, reg, pending, budget, past>>

Idle == [active |-> FALSE, durable |-> FALSE, rec |-> NoRecord]

PublishAt == {"p_lock", "p_slot", "p_check", "p_unlinkAck", "p_stage",
              "p_rename", "p_undo"}
ConsumeAt == {"c_lock", "c_result", "c_claim", "c_take", "c_unclaim",
              "c_apply", "c_record", "c_recordMv", "c_slot", "c_ack",
              "c_ackMv", "c_rmProcessing", "c_rmConsumer", "c_rmSlot",
              "c_rmResult"}

TypeOK ==
  /\ dirs \subseteq Dirs
  /\ staging \in EventOrNone /\ req \in EventOrNone
  /\ processing \in EventOrNone
  /\ ack \in Record /\ ackTmp \in Record
  /\ result \in Record /\ resultTmp \in Record
  /\ pc \in [Procs -> PublishAt \cup ConsumeAt \cup {"idle", "unlock", "down"}]
  /\ reg \in [Procs -> Record]
  /\ pending \in [Consumers -> [active: BOOLEAN, durable: BOOLEAN, rec: Record]]
  /\ faults \in 0..MaxFaults /\ crashes \in 0..MaxCrashes
  /\ tries \in 0..MaxTries
  /\ outcome \in [Events -> {"none", "applied", "rejected", "unread"}]
  /\ applies \in [Events -> Nat]
  /\ accepted \subseteq Events /\ discarded \subseteq Events

Init ==
  /\ dirs = {}
  /\ staging = NoEvent /\ req = NoEvent /\ processing = NoEvent
  /\ ack = NoRecord /\ ackTmp = NoRecord
  /\ result = NoRecord /\ resultTmp = NoRecord
  /\ pc = [p \in Procs |-> "idle"]
  /\ reg = [p \in Procs |-> NoRecord]
  /\ pending = [c \in Consumers |-> Idle]
  /\ faults = 0 /\ crashes = 0 /\ tries = 0
  /\ outcome = [e \in Events |-> "none"]
  /\ applies = [e \in Events |-> 0]
  /\ accepted = {} /\ discarded = {}

-----------------------------------------------------------------------------
(* Control and file operations. *)

Goto(p, from, to) ==
  /\ pc[p] = from
  /\ pc' = [pc EXCEPT ![p] = to]

Mkdir(d) == d \notin dirs /\ dirs' = dirs \cup {d}
Rmdir(d) == dirs' = dirs \ {d}

(* An operation fails, if it still may. *)
Fault(kind) ==
  /\ kind \in Failing
  /\ faults < MaxFaults
  /\ faults' = faults + 1
Works == UNCHANGED faults

(* mkdir of a directory that exists, or one that fails. *)
Refused(d) ==
  \/ d \in dirs /\ Works
  \/ Fault("make")

(* rmdir of the slot works on an empty directory only. *)
NothingClaimed ==
  /\ "consumer" \notin dirs
  /\ processing = NoEvent
  /\ ackTmp = NoRecord /\ resultTmp = NoRecord

SlotEmpty == NothingClaimed /\ staging = NoEvent

Unlock(p) ==
  /\ Goto(p, "unlock", "idle")
  /\ \/ Works /\ Rmdir("mutex")
     \/ Fault("release") /\ UNCHANGED dirs
  /\ reg' = [reg EXCEPT ![p] = NoRecord]
  /\ UNCHANGED <<requests, records, pending, crashes, tries, past>>

-----------------------------------------------------------------------------
(* ew_alert_ipc_publish *)

Publish(p, e) ==
  /\ Goto(p, "idle", "p_lock")
  /\ tries < MaxTries
  /\ tries' = tries + 1
  /\ e \notin accepted
  /\ \A q \in Publishers : reg[q].ev # e
  /\ reg' = [reg EXCEPT ![p] = [ev |-> e, res |-> "none"]]
  /\ UNCHANGED <<files, pending, faults, crashes, past>>

(* mkdir(MUTEX): busy when it exists. *)
PLock(p) ==
  /\ \/ /\ Mkdir("mutex") /\ Works
        /\ Goto(p, "p_lock", "p_slot") /\ UNCHANGED reg
     \/ /\ Refused("mutex")
        /\ Goto(p, "p_lock", "idle")
        /\ reg' = [reg EXCEPT ![p] = NoRecord]
        /\ UNCHANGED dirs
  /\ UNCHANGED <<requests, records, pending, crashes, tries, past>>

(* mkdir(SLOT): busy when it exists. *)
PSlot(p) ==
  /\ \/ Mkdir("slot") /\ Works /\ Goto(p, "p_slot", "p_check")
     \/ Refused("slot") /\ Goto(p, "p_slot", "unlock") /\ UNCHANGED dirs
  /\ UNCHANGED <<requests, records, reg, pending, crashes, tries, past>>

(* An unfinished completion or a request without its lock: busy. *)
PCheck(p) ==
  /\ \/ /\ result = NoRecord /\ req = NoEvent /\ Works
        /\ Goto(p, "p_check", "p_unlinkAck")
     \/ /\ \/ (result # NoRecord \/ req # NoEvent) /\ Works
           \/ Fault("read")
        /\ Goto(p, "p_check", "p_undo")
  /\ UNCHANGED <<files, reg, pending, crashes, tries, past>>

PUnlinkAck(p) ==
  /\ \/ /\ Works /\ Goto(p, "p_unlinkAck", "p_stage")
        /\ ack' = NoRecord
     \/ Fault("remove") /\ Goto(p, "p_unlinkAck", "p_undo") /\ UNCHANGED ack
  /\ UNCHANGED <<dirs, requests, ackTmp, result, resultTmp, reg, pending,
                 crashes, tries, past>>

(* write_file(STAGING); a failed write removes the file. *)
PStage(p) ==
  /\ \/ /\ Works /\ Goto(p, "p_stage", "p_rename")
        /\ staging' = reg[p].ev
     \/ Fault("write") /\ Goto(p, "p_stage", "p_undo") /\ UNCHANGED staging
  /\ UNCHANGED <<dirs, req, processing, records, reg, pending, crashes, tries,
                 past>>

PRenameIgnoringError(p) ==
  /\ Goto(p, "p_rename", "unlock")
  /\ accepted' = accepted \cup {reg[p].ev}
  /\ \/ Works /\ req' = staging /\ staging' = NoEvent
     \/ Fault("move") /\ UNCHANGED <<req, staging>>
  /\ UNCHANGED <<dirs, processing, records, reg, pending, crashes, tries,
                 outcome, applies, discarded>>

PRename(p) ==
  /\ \/ /\ Works /\ Goto(p, "p_rename", "unlock")
        /\ req' = staging /\ staging' = NoEvent
        /\ accepted' = accepted \cup {staging}
     \/ /\ Fault("move") /\ Goto(p, "p_rename", "p_undo")
        /\ UNCHANGED <<req, staging, accepted>>
  /\ UNCHANGED <<dirs, processing, records, reg, pending, crashes, tries,
                 outcome, applies, discarded>>

(* unlink(STAGING); rmdir(SLOT) *)
PUndo(p) ==
  /\ Goto(p, "p_undo", "unlock")
  /\ \/ /\ Works
        /\ staging' = NoEvent
        /\ IF NothingClaimed THEN Rmdir("slot") ELSE UNCHANGED dirs
     \/ Fault("release") /\ UNCHANGED dirs /\ staging' \in {staging, NoEvent}
  /\ UNCHANGED <<req, processing, records, reg, pending, crashes, tries, past>>

-----------------------------------------------------------------------------
(* ew_alert_ipc_consume *)

Poll(c) ==
  /\ Goto(c, "idle", "c_lock")
  /\ UNCHANGED <<files, reg, pending, budget, past>>

(* mkdir(MUTEX): nothing to do when it exists. *)
CLock(c) ==
  /\ \/ Mkdir("mutex") /\ Works /\ Goto(c, "c_lock", "c_result")
     \/ Refused("mutex") /\ Goto(c, "c_lock", "idle") /\ UNCHANGED dirs
  /\ UNCHANGED <<requests, records, reg, pending, crashes, tries, past>>

(* A completion record is finished by whoever finds it; without one, a      *)
(* result this consumer still owes is recorded first.                       *)
OwesAfterRecord(c) == pending[c].active
OwesNothing(c) == FALSE
Owes(c) == pending[c].active /\ ~pending[c].durable

(* Its static state proves that this consumer applied the claimed request.  *)
StillClaimed == "consumer" \in dirs /\ processing # NoEvent

CFinish(c) ==
  /\ result # NoRecord
  /\ Works
  /\ Goto(c, "c_result", "c_slot")
  /\ reg' = [reg EXCEPT ![c] = result]
  /\ pending' = [pending EXCEPT ![c].active = FALSE]

CStart(c) ==
  /\ result = NoRecord /\ ~Owes(c)
  /\ Works
  /\ Goto(c, "c_result", "c_claim")
  /\ pending' = [pending EXCEPT ![c].active = FALSE]
  /\ UNCHANGED reg

ResumeAt(c, next) ==
  /\ result = NoRecord /\ Owes(c) /\ StillClaimed
  /\ Works
  /\ Goto(c, "c_result", next)
  /\ reg' = [reg EXCEPT ![c] = pending[c].rec]
  /\ UNCHANGED pending

CResumeApplying(c) == ResumeAt(c, "c_apply")
CResume(c) == ResumeAt(c, "c_record")

CGiveUp(c) ==
  /\ \/ Fault("read")
     \/ result = NoRecord /\ Owes(c) /\ ~StillClaimed /\ Works
  /\ Goto(c, "c_result", "unlock")
  /\ UNCHANGED <<reg, pending>>

CResult(c) ==
  /\ CFinish(c) \/ CStart(c) \/ CResume(c) \/ CGiveUp(c)
  /\ UNCHANGED <<files, crashes, tries, past>>

(* mkdir(CONSUMER): no slot, or a claim of unknown ownership, is left alone.*)
CClaim(c) ==
  /\ \/ /\ "slot" \in dirs
        /\ Mkdir("consumer") /\ Works /\ Goto(c, "c_claim", "c_take")
     \/ /\ \/ "slot" \notin dirs /\ Works
           \/ Refused("consumer")
        /\ Goto(c, "c_claim", "unlock") /\ UNCHANGED dirs
  /\ UNCHANGED <<requests, records, reg, pending, crashes, tries, past>>

(* rename(REQ, PROCESSING) *)
CTake(c) ==
  /\ \/ /\ req # NoEvent
        /\ Works
        /\ Goto(c, "c_take", "c_apply")
        /\ processing' = req /\ req' = NoEvent
     \/ /\ \/ req = NoEvent /\ Works
           \/ Fault("move")
        /\ Goto(c, "c_take", "c_unclaim")
        /\ UNCHANGED <<req, processing>>
  /\ UNCHANGED <<dirs, staging, records, reg, pending, crashes, tries, past>>

CUnclaim(c) ==
  /\ Goto(c, "c_unclaim", "unlock")
  /\ \/ Works /\ Rmdir("consumer")
     \/ Fault("release") /\ UNCHANGED dirs
  /\ UNCHANGED <<requests, records, reg, pending, crashes, tries, past>>

(* Read, decode and apply.  A request that cannot be read is answered as    *)
(* rejected, with the id of the cleared request structure.                  *)
Settle(c, rec) ==
  /\ reg' = [reg EXCEPT ![c] = rec]
  /\ pending' = [pending EXCEPT ![c] =
                   [active |-> TRUE, durable |-> FALSE, rec |-> rec]]

(* The callback returns 0, a negative error, or a positive value that must  *)
(* not become success.                                                      *)
Returns == {"zero", "negative", "positive"}
RecordedUnlessNegative(r) == IF r = "negative" THEN "rejected" ELSE "applied"
RecordedRaw(r) == IF r = "zero" THEN "applied" ELSE r
Recorded(r) == IF r = "zero" THEN "applied" ELSE "rejected"

CApply(c) ==
  /\ Goto(c, "c_apply", "c_record")
  /\ \/ /\ Works
        /\ \E r \in Returns :
             /\ Settle(c, [ev |-> processing, res |-> Recorded(r)])
             /\ outcome' = [outcome EXCEPT ![processing] =
                               IF r = "zero" THEN "applied" ELSE "rejected"]
             /\ applies' = [applies EXCEPT ![processing] = @ + 1]
     \/ /\ Fault("request")
        /\ Settle(c, [ev |-> NoEvent, res |-> "rejected"])
        /\ outcome' = [outcome EXCEPT ![processing] = "unread"]
        /\ UNCHANGED applies
  /\ UNCHANGED <<files, crashes, tries, accepted, discarded>>

(* unlink(RESULT_TMP), write it; a failed write removes it. *)
CRecord(c) ==
  /\ \/ /\ Works /\ Goto(c, "c_record", "c_recordMv")
        /\ resultTmp' = reg[c]
     \/ /\ \/ Fault("write") /\ resultTmp' = NoRecord
           \/ Fault("remove") /\ UNCHANGED resultTmp
        /\ Goto(c, "c_record", "unlock")
  /\ UNCHANGED <<dirs, requests, ack, ackTmp, result, reg, pending, crashes,
                 tries, past>>

(* rename(RESULT_TMP, RESULT) *)
CRecordMv(c) ==
  /\ \/ /\ Works /\ Goto(c, "c_recordMv", "c_slot")
        /\ result' = resultTmp /\ resultTmp' = NoRecord
        /\ pending' = [pending EXCEPT ![c].durable = TRUE]
     \/ /\ Fault("move") /\ Goto(c, "c_recordMv", "unlock")
        /\ UNCHANGED <<result, resultTmp, pending>>
  /\ UNCHANGED <<dirs, requests, ack, ackTmp, reg, crashes, tries, past>>

(* An earlier call may have removed the slot already. *)
CSlot(c) ==
  /\ \/ /\ Works /\ Goto(c, "c_slot", "c_ack")
        /\ dirs' = dirs \cup {"slot"}
     \/ Fault("make") /\ Goto(c, "c_slot", "unlock") /\ UNCHANGED dirs
  /\ UNCHANGED <<requests, records, reg, pending, crashes, tries, past>>

(* The acknowledgement is written once; another one's is an error. *)
CAck(c) ==
  /\ \/ /\ ack = reg[c] /\ Works
        /\ Goto(c, "c_ack", "c_rmProcessing") /\ UNCHANGED ackTmp
     \/ /\ ack # NoRecord /\ ack # reg[c] /\ Works
        /\ Goto(c, "c_ack", "unlock") /\ UNCHANGED ackTmp
     \/ /\ ack = NoRecord /\ Works
        /\ Goto(c, "c_ack", "c_ackMv") /\ ackTmp' = reg[c]
     \/ /\ \/ Fault("read") /\ UNCHANGED ackTmp
           \/ ack = NoRecord /\ Fault("remove") /\ UNCHANGED ackTmp
           \/ ack = NoRecord /\ Fault("write") /\ ackTmp' = NoRecord
        /\ Goto(c, "c_ack", "unlock")
  /\ UNCHANGED <<dirs, requests, ack, result, resultTmp, reg, pending, crashes,
                 tries, past>>

(* rename(ACK_TMP, ACK) *)
CAckMv(c) ==
  /\ \/ /\ Works /\ Goto(c, "c_ackMv", "c_rmProcessing")
        /\ ack' = ackTmp /\ ackTmp' = NoRecord
     \/ Fault("move") /\ Goto(c, "c_ackMv", "unlock") /\ UNCHANGED <<ack, ackTmp>>
  /\ UNCHANGED <<dirs, requests, result, resultTmp, reg, pending, crashes,
                 tries, past>>

(* The cleanup stops at the first operation that fails. *)
CRmProcessing(c) ==
  /\ \/ /\ Works /\ Goto(c, "c_rmProcessing", "c_rmConsumer")
        /\ processing' = NoEvent
     \/ Fault("remove") /\ Goto(c, "c_rmProcessing", "unlock") /\ UNCHANGED processing
  /\ UNCHANGED <<dirs, staging, req, records, reg, pending, crashes, tries,
                 past>>

CRmConsumer(c) ==
  /\ \/ Works /\ Goto(c, "c_rmConsumer", "c_rmSlot") /\ Rmdir("consumer")
     \/ Fault("remove") /\ Goto(c, "c_rmConsumer", "unlock") /\ UNCHANGED dirs
  /\ UNCHANGED <<requests, records, reg, pending, crashes, tries, past>>

CRmSlot(c) ==
  /\ \/ SlotEmpty /\ Works /\ Goto(c, "c_rmSlot", "c_rmResult") /\ Rmdir("slot")
     \/ ~SlotEmpty /\ Works /\ Goto(c, "c_rmSlot", "unlock") /\ UNCHANGED dirs
     \/ Fault("remove") /\ Goto(c, "c_rmSlot", "unlock") /\ UNCHANGED dirs
  /\ UNCHANGED <<requests, records, reg, pending, crashes, tries, past>>

CRmResult(c) ==
  /\ Goto(c, "c_rmResult", "unlock")
  /\ \/ /\ Works
        /\ result' = NoRecord
        /\ pending' = [pending EXCEPT ![c].active = FALSE]
     \/ Fault("remove") /\ UNCHANGED <<result, pending>>
  /\ UNCHANGED <<dirs, requests, ack, ackTmp, resultTmp, reg, crashes, tries,
                 past>>

-----------------------------------------------------------------------------
(* Crashes and the recovery that the README describes. *)

Crash(p) ==
  /\ pc[p] # "down"
  /\ crashes < MaxCrashes
  /\ crashes' = crashes + 1
  /\ pc' = [pc EXCEPT ![p] = "down"]
  /\ reg' = [reg EXCEPT ![p] = NoRecord]
  /\ pending' = IF p \in Consumers THEN [pending EXCEPT ![p] = Idle]
                ELSE pending
  /\ UNCHANGED <<files, faults, tries, past>>

(* A stopped process starts again; its static state is lost, the files stay.*)
Restart(p) ==
  /\ Goto(p, "down", "idle")
  /\ UNCHANGED <<files, reg, pending, budget, past>>

(* With every process stopped, the files the README lists are removed; the  *)
(* slot goes only if that empties it.                                       *)
Recover ==
  /\ crashes > 0 \/ faults > 0
  /\ \A p \in Procs : pc[p] \in {"idle", "down"}
  /\ pc' = [p \in Procs |-> "idle"]
  /\ reg' = [p \in Procs |-> NoRecord]
  /\ pending' = [c \in Consumers |-> Idle]
  /\ dirs' = IF resultTmp = NoRecord THEN {} ELSE dirs \cap {"slot"}
  /\ staging' = NoEvent /\ req' = NoEvent /\ processing' = NoEvent
  /\ ackTmp' = NoRecord
  /\ discarded' = discarded \cup ({req, processing} \cap Events)
  /\ UNCHANGED <<ack, result, resultTmp, budget, outcome, applies, accepted>>

-----------------------------------------------------------------------------
PublishStep(p) ==
  \/ \E e \in Events : Publish(p, e)
  \/ PLock(p) \/ PSlot(p) \/ PCheck(p) \/ PUnlinkAck(p) \/ PStage(p)
  \/ PRename(p) \/ PUndo(p) \/ Unlock(p)

ConsumeStep(c) ==
  \/ Poll(c) \/ CLock(c) \/ CResult(c) \/ CClaim(c) \/ CTake(c) \/ CUnclaim(c)
  \/ CApply(c) \/ CRecord(c) \/ CRecordMv(c) \/ CSlot(c) \/ CAck(c)
  \/ CAckMv(c) \/ CRmProcessing(c) \/ CRmConsumer(c) \/ CRmSlot(c)
  \/ CRmResult(c) \/ Unlock(c)

Next ==
  \/ \E p \in Publishers : PublishStep(p)
  \/ \E c \in Consumers : ConsumeStep(c)
  \/ \E p \in Procs : Crash(p) \/ Restart(p)
  \/ Recover

Spec == Init /\ [][Next]_vars

(* Every call returns, and the alert page polls for ever: poll_request runs *)
(* from the page's loop.  No publisher has to try again.                    *)
FairSpec ==
  /\ Spec
  /\ \A c \in Consumers : WF_vars(ConsumeStep(c))
  /\ \A p \in Publishers :
       WF_vars(PLock(p) \/ PSlot(p) \/ PCheck(p) \/ PUnlinkAck(p)
               \/ PStage(p) \/ PRename(p) \/ PUndo(p) \/ Unlock(p))

-----------------------------------------------------------------------------
(* Properties. *)

(* However calls overlap, fail, are retried by this or by another consumer, *)
(* or stop half way, the callback runs at most once for a request.          *)
AppliedAtMostOnce == \A e \in Events : applies[e] <= 1

(* An acknowledgement that can be read states what applying its request     *)
(* really returned.                                                         *)
AckIsTrue ==
  ack.ev \in Events => ack.res = outcome[ack.ev]

(* An accepted request is never lost without an operator's recovery: until  *)
(* it has been applied it waits in REQ or PROCESSING.                       *)
NoRequestLost ==
  \A e \in accepted \ discarded :
    outcome[e] = "none" => e \in {req, processing}

(* The transport behaves as the one-cell mailbox of AlertSlot. *)
Cell ==
  CASE req # NoEvent -> [state |-> "queued", ev |-> req]
    [] req = NoEvent /\ result # NoRecord ->
         [state |-> "done", ev |-> result.ev]
    [] req = NoEvent /\ result = NoRecord /\ processing # NoEvent ->
         [state |-> IF outcome[processing] = "none" THEN "queued" ELSE "done",
          ev |-> processing]
    [] OTHER -> [state |-> "empty", ev |-> NoEvent]

Slot == INSTANCE AlertSlot WITH cell <- Cell

ImplementsSlot == Slot!SlotSpec

(* After the recovery the README describes, the slot is free again. *)
RecoveryFreesSlot == [][Recover => "slot" \notin dirs']_vars

(* An accepted request is applied and its completion finished, unless an    *)
(* operator discards it: file operations may fail for a while and are then  *)
(* taken up again at the next poll of the one consumer.                     *)
Answered(e) ==
  /\ outcome[e] # "none"
  /\ req # e /\ processing # e
  /\ result = NoRecord

EventuallyAnswered ==
  \A e \in Events : e \in accepted ~> Answered(e) \/ e \in discarded
=============================================================================
