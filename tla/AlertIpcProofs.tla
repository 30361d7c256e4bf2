--------------------------- MODULE AlertIpcProofs ---------------------------
(***************************************************************************)
(* Proofs about AlertIpc, for any number of publishers, consumers, events,  *)
(* failing file operations and crashes: a request is applied at most once,  *)
(* its acknowledgement is true, none is lost, and the files implement the   *)
(* mailbox of AlertSlot.                                                    *)
(***************************************************************************)
EXTENDS AlertIpc, TLAPS

-----------------------------------------------------------------------------
(* The invariant. *)

(* Where a process holds the mutex directory, and nobody else does. *)
Inside ==
  ((PublishAt \cup ConsumeAt) \ {"p_lock", "c_lock"}) \cup {"unlock"}

MutexHeld ==
  \A p \in Procs : pc[p] \in Inside =>
    /\ "mutex" \in dirs
    /\ \A q \in Procs : pc[q] \in Inside => q = p

(* What has happened to an event. *)
History ==
  \A e \in Events :
    /\ applies[e] <= 1
    /\ outcome[e] = "none" => applies[e] = 0
    /\ e \notin accepted => outcome[e] = "none"

(* A queued request waits alone; a claimed one has its directories. *)
Queue ==
  /\ req # NoEvent =>
       /\ req \in accepted /\ outcome[req] = "none"
       /\ processing = NoEvent /\ result = NoRecord
  /\ processing # NoEvent => processing \in accepted /\ "consumer" \in dirs
  /\ "consumer" \in dirs => "slot" \in dirs
  /\ result # NoRecord /\ processing # NoEvent => outcome[processing] # "none"

(* A record that names an event says what applying it returned. *)
Truthful(r) == r.ev \in Events => r.res = outcome[r.ev] /\ r.res # "none"

Records ==
  /\ Truthful(ack) /\ Truthful(ackTmp)
  /\ Truthful(result) /\ Truthful(resultTmp)
  /\ \A c \in Consumers : Truthful(reg[c]) /\ Truthful(pending[c].rec)

(* A consumer that owes a result owes that of the claimed request. *)
Owed ==
  \A c \in Consumers : Owes(c) =>
    /\ processing # NoEvent /\ outcome[processing] # "none"
    /\ result = NoRecord /\ pending[c].rec.res # "none"
    /\ \A d \in Consumers : Owes(d) => d = c

(* An event is prepared by one publisher at a time, and accepted once. *)
Names ==
  \A p \in Publishers :
    /\ pc[p] \in PublishAt => reg[p].ev \in Events \ accepted
    /\ \A q \in Publishers \ {p} : reg[p].ev # NoEvent => reg[q].ev # reg[p].ev

(* What a publisher knows where it is. *)
PublisherKnows(p) ==
  /\ pc[p] \in {"p_check", "p_unlinkAck", "p_stage", "p_rename"} =>
       processing = NoEvent
  /\ pc[p] \in {"p_unlinkAck", "p_stage", "p_rename"} =>
       req = NoEvent /\ result = NoRecord
  /\ pc[p] \in {"p_stage", "p_rename"} => ack = NoRecord
  /\ pc[p] = "p_rename" => staging = reg[p].ev

(* What a consumer knows where it is. *)
Cleared == {"c_rmConsumer", "c_rmSlot", "c_rmResult"}
Acknowledged == Cleared \cup {"c_rmProcessing"}
Finishing == Acknowledged \cup {"c_slot", "c_ack", "c_ackMv"}

ConsumerKnows(c) ==
  /\ pc[c] \in {"c_claim", "c_take", "c_unclaim", "c_apply"} => result = NoRecord
  /\ pc[c] \in Cleared \cup {"c_take", "c_unclaim"} => processing = NoEvent
  /\ pc[c] = "c_take" => "consumer" \in dirs
  /\ pc[c] = "c_apply" => processing # NoEvent /\ outcome[processing] = "none"
  /\ pc[c] \in {"c_record", "c_recordMv"} => Owes(c) /\ reg[c] = pending[c].rec
  /\ pc[c] = "c_recordMv" => resultTmp = reg[c]
  /\ pc[c] \in Finishing => result # NoRecord /\ reg[c] = result
  /\ pc[c] = "c_ackMv" => ackTmp = reg[c]
  /\ pc[c] \in Acknowledged => ack = result

(* When every claimed request can be read, no record is nameless. *)
NamesKept ==
  "request" \notin Failing =>
    /\ result # NoRecord => result.ev \in Events
    /\ \A c \in Consumers : Owes(c) => pending[c].rec.ev = processing

Knowledge ==
  /\ \A p \in Publishers : PublisherKnows(p)
  /\ \A c \in Consumers : ConsumerKnows(c)

Facts == History /\ Queue /\ Records /\ Owed /\ NoRequestLost /\ NamesKept

IInv == TypeOK /\ MutexHeld /\ Names /\ Knowledge /\ Facts

Places == PublishAt \cup ConsumeAt \cup {"idle", "unlock", "down"}

-----------------------------------------------------------------------------
(* Steps. *)

(* A process that holds the mutex and goes on leaves the others outside.    *)
LEMMA StepInside ==
  ASSUME IInv, NEW p \in Procs, NEW from \in Inside, NEW to \in Places,
         Goto(p, from, to), "mutex" \in dirs' \/ to \notin Inside
  PROVE  /\ pc[p] = from /\ pc'[p] = to
         /\ pc' \in [Procs -> Places]
         /\ MutexHeld'
         /\ \A q \in Procs \ {p} :
              /\ pc'[q] = pc[q] /\ pc'[q] \notin Inside
              /\ PublisherKnows(q)' /\ ConsumerKnows(q)'
<1>1. pc \in [Procs -> Places]
  BY DEF IInv, TypeOK, Places
<1>2. /\ pc[p] = from /\ pc'[p] = to /\ pc' \in [Procs -> Places]
      /\ \A q \in Procs \ {p} : pc'[q] = pc[q]
  BY <1>1 DEF Goto
<1>3. \A q \in Procs \ {p} : pc[q] \notin Inside
  BY <1>2 DEF IInv, MutexHeld
<1>4. MutexHeld'
  BY <1>2, <1>3 DEF MutexHeld
<1>5. \A q \in Procs \ {p} : PublisherKnows(q)'
  BY <1>2, <1>3 DEF PublisherKnows, Inside, PublishAt, ConsumeAt
<1>6. \A q \in Procs \ {p} : ConsumerKnows(q)'
  BY <1>2, <1>3 DEF ConsumerKnows, Inside, PublishAt, ConsumeAt, Cleared,
     Acknowledged, Finishing
<1> QED
  BY <1>2, <1>3, <1>4, <1>5, <1>6

(* What a publisher does inside disturbs no consumer's knowledge, and vice  *)
(* versa: only the actor's own has to be shown.                             *)
LEMMA PublisherMoves ==
  ASSUME IInv, NEW p \in Publishers, NEW from \in Inside, NEW to \in Places,
         Goto(p, from, to), "mutex" \in dirs' \/ to \notin Inside,
         PublisherKnows(p)'
  PROVE  MutexHeld' /\ Knowledge'
BY StepInside, IpcAssumption DEF Knowledge, Procs

LEMMA ConsumerMoves ==
  ASSUME IInv, NEW c \in Consumers, NEW from \in Inside, NEW to \in Places,
         Goto(c, from, to), "mutex" \in dirs' \/ to \notin Inside,
         ConsumerKnows(c)'
  PROVE  MutexHeld' /\ Knowledge'
BY StepInside, IpcAssumption DEF Knowledge, Procs

(* The mutex is there while a process is inside. *)
LEMMA HolderHasMutex ==
  ASSUME IInv, NEW p \in Procs, pc[p] \in Inside
  PROVE  "mutex" \in dirs
BY DEF IInv, MutexHeld

(* Steps that change directories only, as long as a claim keeps its own.    *)
LEMMA FactsFrame ==
  ASSUME IInv, UNCHANGED <<req, processing, records, pending, past>>,
         \A c \in Consumers : reg'[c] = reg[c],
         processing # NoEvent => "consumer" \in dirs',
         "consumer" \in dirs' => "slot" \in dirs'
  PROVE  Facts'
<1> USE DEF IInv, Facts, records, past
<1>1. History'
  BY DEF History
<1>2. Queue'
  BY DEF Queue
<1>3. Records'
  BY DEF Records, Truthful
<1>4. Owed' /\ NamesKept'
  BY DEF Owed, NamesKept, Owes
<1>5. NoRequestLost'
  BY DEF NoRequestLost
<1> QED
  BY <1>1, <1>2, <1>3, <1>4, <1>5

(* What no publisher does keeps the names. *)
LEMMA ConsumerKeepsNames ==
  ASSUME IInv, NEW c \in Consumers, NEW from \in Places, NEW to \in Places,
         Goto(c, from, to), accepted' = accepted,
         \A p \in Publishers : reg'[p] = reg[p]
  PROVE  Names'
<1>1. \A p \in Publishers : pc'[p] = pc[p]
  BY IpcAssumption DEF IInv, TypeOK, Goto, Procs
<1> QED
  BY <1>1 DEF IInv, Names

-----------------------------------------------------------------------------
(* The initial states. *)

LEMMA InitSound == Init => IInv
<1> SUFFICES ASSUME Init PROVE IInv
  OBVIOUS
<1> USE IpcAssumption DEF Init
<1>1. NoRecord \in Record /\ NoEvent \in EventOrNone /\ NoRecord.ev \notin Events
  BY DEF NoRecord, Record, EventOrNone, NoEvent
<1>2. TypeOK
  <2>1. /\ pc \in [Procs -> PublishAt \cup ConsumeAt \cup {"idle", "unlock", "down"}]
        /\ reg \in [Procs -> Record]
        /\ pending \in [Consumers -> [active: BOOLEAN, durable: BOOLEAN, rec: Record]]
    BY <1>1 DEF Idle
  <2>2. /\ outcome \in [Events -> {"none", "applied", "rejected", "unread"}]
        /\ applies \in [Events -> Nat]
    OBVIOUS
  <2>3. faults \in 0..MaxFaults /\ crashes \in 0..MaxCrashes /\ tries \in 0..MaxTries
    OBVIOUS
  <2> QED
    BY <1>1, <2>1, <2>2, <2>3 DEF TypeOK
<1>3. MutexHeld /\ Knowledge /\ Names
  BY DEF MutexHeld, Knowledge, Names, PublisherKnows, ConsumerKnows, Inside,
     Procs, PublishAt, ConsumeAt, Cleared, Acknowledged, Finishing, NoRecord,
     NoEvent
<1>4. History /\ NoRequestLost
  BY DEF History, NoRequestLost
<1>5. Queue /\ Owed /\ NamesKept
  BY DEF Queue, Owed, NamesKept, Owes, Idle
<1>6. Records
  BY <1>1 DEF Records, Truthful, Idle, Procs
<1> QED
  BY <1>2, <1>3, <1>4, <1>5, <1>6 DEF IInv, Facts

-----------------------------------------------------------------------------
(* A publisher's steps. *)

LEMMA BudgetKept ==
  ASSUME IInv, NEW kind, Works \/ Fault(kind)
  PROVE  faults' \in 0..MaxFaults
BY IpcAssumption DEF IInv, TypeOK, Works, Fault

(* A publisher that goes on keeps the name it has. *)
LEMMA PublisherKeepsNames ==
  ASSUME IInv, NEW p \in Publishers, NEW from \in Places, NEW to \in Places,
         Goto(p, from, to), accepted' = accepted,
         reg' = reg \/ reg' = [reg EXCEPT ![p] = NoRecord],
         to \in PublishAt => from \in PublishAt /\ reg' = reg
  PROVE  Names'
<1>1. /\ p \in Procs /\ Publishers \subseteq Procs
      /\ pc \in [Procs -> Places] /\ reg \in [Procs -> Record]
  BY DEF IInv, TypeOK, Procs, Places
<1>2. /\ pc[p] = from /\ pc'[p] = to
      /\ \A q \in Procs \ {p} : pc'[q] = pc[q] /\ reg'[q] = reg[q]
      /\ reg'[p] \in {reg[p], NoRecord}
  BY <1>1 DEF Goto
<1>3. NoRecord.ev = NoEvent
  BY DEF NoRecord
<1> QED
  BY <1>1, <1>2, <1>3 DEF IInv, Names

(* A call ends: the mutex is given back, or stays for ever. *)
LEMMA UnlockSound ==
  ASSUME IInv, NEW p \in Procs, Unlock(p)
  PROVE  IInv'
<1> USE DEF Unlock
<1>a. /\ TypeOK /\ pc \in [Procs -> Places] /\ reg \in [Procs -> Record]
      /\ NoRecord \in Record /\ NoRecord.ev = NoEvent /\ NoEvent \notin Events
  BY IpcAssumption DEF IInv, TypeOK, Places, NoRecord, Record, EventOrNone,
     NoEvent
<1>1. /\ Goto(p, "unlock", "idle") /\ (Works \/ Fault("release"))
      /\ reg' = [reg EXCEPT ![p] = NoRecord]
      /\ UNCHANGED <<requests, records, pending, crashes, tries, past>>
      /\ dirs' \subseteq dirs /\ dirs \ {"mutex"} \subseteq dirs'
  BY DEF Rmdir
<1>2. "unlock" \in Inside /\ "idle" \in Places \ Inside /\ "idle" \notin PublishAt
  BY DEF Inside, Places, PublishAt, ConsumeAt
<1>3. /\ pc[p] = "unlock" /\ pc'[p] = "idle" /\ pc' \in [Procs -> Places]
      /\ MutexHeld'
      /\ \A q \in Procs \ {p} :
           PublisherKnows(q)' /\ ConsumerKnows(q)' /\ pc'[q] = pc[q]
  BY <1>1, <1>2, StepInside
<1>4. reg' \in [Procs -> Record] /\ \A q \in Procs : reg'[q] \in {reg[q], NoRecord}
  BY <1>1, <1>a
<1>5. TypeOK'
  BY <1>1, <1>3, <1>4, <1>a, BudgetKept DEF TypeOK, Places, requests, records,
     past
<1>6. PublisherKnows(p)' /\ ConsumerKnows(p)'
  BY <1>3 DEF PublisherKnows, ConsumerKnows, Finishing, Acknowledged, Cleared
<1>7. Knowledge'
  BY <1>3, <1>6 DEF Knowledge, Procs
<1>8. Names'
  <2>1. \A q \in Procs \ {p} : reg'[q] = reg[q]
    BY <1>1, <1>a
  <2>2. reg'[p] = NoRecord
    BY <1>1, <1>a
  <2> QED
    BY <2>1, <2>2, <1>1, <1>2, <1>3, <1>a DEF IInv, Names, past, Procs
<1>9. Records'
  BY <1>1, <1>4, <1>a DEF IInv, Facts, Records, Truthful, records, past, Procs
<1>10. History' /\ Queue' /\ Owed' /\ NoRequestLost' /\ NamesKept'
  BY <1>1 DEF IInv, Facts, History, Queue, Owed, Owes, NoRequestLost, NamesKept,
     past, requests, records
<1> QED
  BY <1>5, <1>3, <1>7, <1>8, <1>9, <1>10 DEF IInv, Facts

LEMMA PublishStepSound ==
  ASSUME IInv, NEW p \in Publishers, PublishStep(p)
  PROVE  IInv'
<1>0. p \in Procs /\ p \notin Consumers /\ \A c \in Consumers : c # p /\ c \in Procs
  BY IpcAssumption DEF Procs
<1>a. TypeOK /\ pc \in [Procs -> Places] /\ reg \in [Procs -> Record]
  BY DEF IInv, TypeOK, Places
<1>b. NoRecord \in Record /\ NoRecord.ev = NoEvent
  BY DEF NoRecord, Record, EventOrNone
<1>1. ASSUME NEW e \in Events, Publish(p, e) PROVE IInv'
  <2> USE <1>1 DEF Publish
  <2>1. /\ pc[p] = "idle" /\ pc' = [pc EXCEPT ![p] = "p_lock"]
        /\ reg' = [reg EXCEPT ![p] = [ev |-> e, res |-> "none"]]
        /\ e \notin accepted /\ \A q \in Publishers : reg[q].ev # e
        /\ UNCHANGED <<files, pending, faults, crashes, past>>
        /\ tries < MaxTries /\ tries' = tries + 1
    BY DEF Goto
  <2>2. [ev |-> e, res |-> "none"] \in Record
    BY DEF Record, EventOrNone
  <2>3. reg' \in [Procs -> Record] /\ reg'[p].ev = e /\ \A q \in Procs \ {p} : reg'[q] = reg[q]
    BY <2>1, <2>2, <1>0, <1>a
  <2>4. pc' \in [Procs -> Places] /\ pc'[p] = "p_lock" /\ \A q \in Procs \ {p} : pc'[q] = pc[q]
    BY <2>1, <1>0, <1>a DEF Places, PublishAt
  <2>5. TypeOK'
    <3>1. tries' \in 0..MaxTries
      BY <2>1, <1>a, IpcAssumption DEF TypeOK
    <3> QED
      BY <2>1, <2>3, <2>4, <3>1, <1>a DEF TypeOK, Places, files, requests,
         records, past
  <2>6. MutexHeld'
    BY <2>1, <2>4 DEF IInv, MutexHeld, Inside, files
  <2>7. Names'
    BY <2>1, <2>3, <2>4, <1>0, IpcAssumption DEF IInv, Names, past, NoEvent,
       Procs
  <2>8. Knowledge'
    <3>1. ASSUME NEW q \in Publishers PROVE PublisherKnows(q)'
      BY <2>1, <2>3, <2>4, <3>1 DEF IInv, Knowledge, PublisherKnows, files,
         requests, records, Procs
    <3>2. ASSUME NEW c \in Consumers PROVE ConsumerKnows(c)'
      BY <2>1, <2>3, <2>4, <3>2, <1>0 DEF IInv, Knowledge, ConsumerKnows, Owes,
         files, requests, records, past
    <3> QED
      BY <3>1, <3>2 DEF Knowledge
  <2>9. Facts'
    BY <2>1, <2>3, <1>0, FactsFrame DEF files, requests, IInv, Facts, Queue
  <2> QED
    BY <2>5, <2>6, <2>7, <2>8, <2>9 DEF IInv
<1>2. CASE PLock(p)
  <2> USE <1>2 DEF PLock
  <2>1. /\ pc[p] = "p_lock"
        /\ UNCHANGED <<requests, records, pending, crashes, tries, past>>
        /\ (Works \/ Fault("make"))
        /\ \/ /\ "mutex" \notin dirs /\ dirs' = dirs \cup {"mutex"} /\ reg' = reg
              /\ pc' = [pc EXCEPT ![p] = "p_slot"]
           \/ /\ pc' = [pc EXCEPT ![p] = "idle"] /\ dirs' = dirs
              /\ reg' = [reg EXCEPT ![p] = NoRecord]
    BY DEF Mkdir, Refused, Goto
  <2>2. reg' \in [Procs -> Record] /\ \A q \in Procs \ {p} : reg'[q] = reg[q]
    BY <2>1, <1>0, <1>a, <1>b
  <2>3. pc' \in [Procs -> Places] /\ \A q \in Procs \ {p} : pc'[q] = pc[q]
    BY <2>1, <1>0, <1>a DEF Places, PublishAt
  <2>4. TypeOK'
    BY <2>1, <2>2, <2>3, <1>a, BudgetKept DEF TypeOK, Places, requests, records,
       past, Dirs
  <2>5. MutexHeld'
    <3>1. CASE "mutex" \notin dirs /\ dirs' = dirs \cup {"mutex"}
      <4>1. \A q \in Procs : pc[q] \notin Inside
        BY <3>1 DEF IInv, MutexHeld
      <4> QED
        BY <3>1, <4>1, <2>3 DEF MutexHeld
    <3>2. CASE pc' = [pc EXCEPT ![p] = "idle"] /\ dirs' = dirs
      <4>1. pc'[p] \notin Inside
        BY <3>2, <1>0, <1>a DEF Inside, PublishAt, ConsumeAt
      <4> QED
        BY <3>2, <4>1, <2>3 DEF IInv, MutexHeld
    <3> QED
      BY <2>1, <3>1, <3>2
  <2>6. Names'
    BY <2>1, <2>2, <2>3, <1>0, <1>a, <1>b DEF IInv, Names, past, NoEvent, Procs,
       PublishAt
  <2>7. Knowledge'
    <3>1. ASSUME NEW q \in Publishers PROVE PublisherKnows(q)'
      <4>1. q # p => pc'[q] = pc[q] /\ reg'[q] = reg[q]
        BY <2>2, <2>3 DEF Procs
      <4>2. q = p => pc'[q] \in {"p_slot", "idle"}
        BY <2>1, <1>0, <1>a
      <4> QED
        BY <2>1, <3>1, <4>1, <4>2 DEF IInv, Knowledge, PublisherKnows, requests,
           records
    <3>2. ASSUME NEW c \in Consumers PROVE ConsumerKnows(c)'
      <4>1. pc'[c] = pc[c] /\ reg'[c] = reg[c]
        BY <2>2, <2>3, <1>0
      <4> QED
        BY <2>1, <3>2, <4>1 DEF IInv, Knowledge, ConsumerKnows, Owes, requests,
           records, past
    <3> QED
      BY <3>1, <3>2 DEF Knowledge
  <2>8. Facts'
    BY <2>1, <2>2, <1>0, FactsFrame DEF requests, IInv, Facts, Queue
  <2> QED
    BY <2>4, <2>5, <2>6, <2>7, <2>8 DEF IInv

<1>3. CASE PSlot(p)
  <2> USE <1>3 DEF PSlot
  <2>1. PICK to \in {"p_check", "unlock"} :
          /\ Goto(p, "p_slot", to) /\ (Works \/ Fault("make"))
          /\ UNCHANGED <<requests, records, reg, pending, crashes, tries, past>>
          /\ IF to = "p_check" THEN "slot" \notin dirs /\ dirs' = dirs \cup {"slot"}
             ELSE dirs' = dirs
    BY DEF Mkdir, Refused
  <2>2. /\ "p_slot" \in Inside /\ "p_slot" \in Places
        /\ to \in Inside /\ to \in Places
        /\ "p_slot" \in PublishAt
    BY DEF Inside, Places, PublishAt, ConsumeAt
  <2>3. pc[p] = "p_slot" /\ pc'[p] = to /\ pc' \in [Procs -> Places]
    BY <2>1, <2>2, <1>0, <1>a DEF Goto
  <2>4. "mutex" \in dirs'
    BY <2>1, <2>2, <2>3, <1>0, HolderHasMutex
  <2>5. TypeOK'
    BY <2>1, <2>3, <1>a, BudgetKept DEF TypeOK, Places, requests, records, past,
       Dirs
  <2>6. PublisherKnows(p)'
    BY <2>1, <2>3 DEF IInv, Facts, Queue, PublisherKnows, requests
  <2>7. MutexHeld' /\ Knowledge'
    BY <2>1, <2>2, <2>4, <2>6, PublisherMoves
  <2>8. Names'
    BY <2>1, <2>2, PublisherKeepsNames DEF past
  <2>9. Facts'
    BY <2>1, FactsFrame DEF requests, IInv, Facts, Queue
  <2> QED
    BY <2>5, <2>7, <2>8, <2>9 DEF IInv
<1>4. CASE PCheck(p)
  <2> USE <1>4 DEF PCheck
  <2>1. PICK to \in {"p_unlinkAck", "p_undo"} :
          /\ Goto(p, "p_check", to) /\ (Works \/ Fault("read"))
          /\ UNCHANGED <<files, reg, pending, crashes, tries, past>>
          /\ to = "p_unlinkAck" => result = NoRecord /\ req = NoEvent
    OBVIOUS
  <2>2. /\ "p_check" \in Inside /\ "p_check" \in Places
        /\ to \in Inside /\ to \in Places
        /\ "p_check" \in PublishAt
    BY DEF Inside, Places, PublishAt, ConsumeAt
  <2>3. pc[p] = "p_check" /\ pc'[p] = to /\ pc' \in [Procs -> Places]
    BY <2>1, <2>2, <1>0, <1>a DEF Goto
  <2>4. "mutex" \in dirs'
    BY <2>1, <2>2, <2>3, <1>0, HolderHasMutex DEF files
  <2>5. TypeOK'
    BY <2>1, <2>3, <1>a, BudgetKept DEF TypeOK, Places, files, requests,
       records, past
  <2>6. PublisherKnows(p)'
    BY <2>1, <2>3 DEF IInv, Knowledge, PublisherKnows, files, requests, records
  <2>7. MutexHeld' /\ Knowledge'
    BY <2>1, <2>2, <2>4, <2>6, PublisherMoves
  <2>8. Names'
    BY <2>1, <2>2, PublisherKeepsNames DEF past
  <2>9. Facts'
    BY <2>1, FactsFrame DEF files, requests, IInv, Facts, Queue
  <2> QED
    BY <2>5, <2>7, <2>8, <2>9 DEF IInv
<1>5. CASE PUnlinkAck(p)
  <2> USE <1>5 DEF PUnlinkAck
  <2>1. PICK to \in {"p_stage", "p_undo"} :
          /\ Goto(p, "p_unlinkAck", to) /\ (Works \/ Fault("remove"))
          /\ UNCHANGED <<dirs, requests, ackTmp, result, resultTmp, reg, pending,
                         crashes, tries, past>>
          /\ IF to = "p_stage" THEN ack' = NoRecord ELSE ack' = ack
    OBVIOUS
  <2>2. /\ "p_unlinkAck" \in Inside /\ "p_unlinkAck" \in Places
        /\ to \in Inside /\ to \in Places
        /\ "p_unlinkAck" \in PublishAt
    BY DEF Inside, Places, PublishAt, ConsumeAt
  <2>3. pc[p] = "p_unlinkAck" /\ pc'[p] = to /\ pc' \in [Procs -> Places]
    BY <2>1, <2>2, <1>0, <1>a DEF Goto
  <2>4. "mutex" \in dirs'
    BY <2>1, <2>2, <2>3, <1>0, HolderHasMutex
  <2>5. TypeOK'
    BY <2>1, <2>3, <1>a, <1>b, BudgetKept DEF TypeOK, Places, requests, past
  <2>6. PublisherKnows(p)'
    BY <2>1, <2>3 DEF IInv, Knowledge, PublisherKnows, requests
  <2>7. MutexHeld' /\ Knowledge'
    BY <2>1, <2>2, <2>4, <2>6, PublisherMoves
  <2>8. Names'
    BY <2>1, <2>2, PublisherKeepsNames DEF past
  <2>9. Records'
    BY <2>1, <1>b, IpcAssumption DEF IInv, Facts, Records, Truthful, past,
       NoEvent
  <2>10. History' /\ Queue' /\ Owed' /\ NoRequestLost' /\ NamesKept'
    BY <2>1 DEF IInv, Facts, History, Queue, Owed, Owes, NoRequestLost,
       NamesKept, past, requests
  <2> QED
    BY <2>5, <2>7, <2>8, <2>9, <2>10 DEF IInv, Facts
<1>6. CASE PStage(p)
  <2> USE <1>6 DEF PStage
  <2>1. PICK to \in {"p_rename", "p_undo"} :
          /\ Goto(p, "p_stage", to) /\ (Works \/ Fault("write"))
          /\ UNCHANGED <<dirs, req, processing, records, reg, pending, crashes,
                         tries, past>>
          /\ IF to = "p_rename" THEN staging' = reg[p].ev ELSE staging' = staging
    OBVIOUS
  <2>2. /\ "p_stage" \in Inside /\ "p_stage" \in Places
        /\ to \in Inside /\ to \in Places
        /\ "p_stage" \in PublishAt
    BY DEF Inside, Places, PublishAt, ConsumeAt
  <2>3. pc[p] = "p_stage" /\ pc'[p] = to /\ pc' \in [Procs -> Places]
    BY <2>1, <2>2, <1>0, <1>a DEF Goto
  <2>4. "mutex" \in dirs'
    BY <2>1, <2>2, <2>3, <1>0, HolderHasMutex
  <2>5. TypeOK'
    <3>1. reg[p].ev \in EventOrNone
      BY <1>0, <1>a DEF Record
    <3> QED
      BY <2>1, <2>3, <3>1, <1>a, BudgetKept DEF TypeOK, Places, records, past
  <2>6. PublisherKnows(p)'
    BY <2>1, <2>3 DEF IInv, Knowledge, PublisherKnows, records
  <2>7. MutexHeld' /\ Knowledge'
    BY <2>1, <2>2, <2>4, <2>6, PublisherMoves
  <2>8. Names'
    BY <2>1, <2>2, PublisherKeepsNames DEF past
  <2>9. Facts'
    BY <2>1, FactsFrame DEF IInv, Facts, Queue
  <2> QED
    BY <2>5, <2>7, <2>8, <2>9 DEF IInv
<1>7. CASE PRename(p)
  <2> USE <1>7 DEF PRename
  <2>1. PICK to \in {"unlock", "p_undo"} :
          /\ Goto(p, "p_rename", to) /\ (Works \/ Fault("move"))
          /\ UNCHANGED <<dirs, processing, records, reg, pending, crashes, tries,
                         outcome, applies, discarded>>
          /\ IF to = "unlock"
               THEN /\ req' = staging /\ staging' = NoEvent
                    /\ accepted' = accepted \cup {staging}
               ELSE UNCHANGED <<req, staging, accepted>>
    OBVIOUS
  <2>2. /\ "p_rename" \in Inside /\ "p_rename" \in Places
        /\ to \in Inside /\ to \in Places
        /\ "p_rename" \in PublishAt /\ "unlock" \notin PublishAt
    BY DEF Inside, Places, PublishAt, ConsumeAt
  <2>3. pc[p] = "p_rename" /\ pc'[p] = to /\ pc' \in [Procs -> Places]
    BY <2>1, <2>2, <1>0, <1>a DEF Goto
  <2>4. "mutex" \in dirs'
    BY <2>1, <2>2, <2>3, <1>0, HolderHasMutex
  <2>k. /\ staging = reg[p].ev /\ staging \in Events \ accepted
        /\ processing = NoEvent /\ req = NoEvent /\ result = NoRecord
        /\ outcome[staging] = "none" /\ NoEvent \notin Events
    BY <2>2, <2>3, IpcAssumption DEF IInv, Knowledge, PublisherKnows, Names,
       Facts, History, NoEvent
  <2>5. TypeOK'
    BY <2>1, <2>3, <2>k, <1>a, BudgetKept DEF TypeOK, Places, records,
       EventOrNone
  <2>6. PublisherKnows(p)'
    BY <2>1, <2>3 DEF PublisherKnows
  <2>7. MutexHeld' /\ Knowledge'
    BY <2>1, <2>2, <2>4, <2>6, PublisherMoves
  <2>8. Names'
    <3>1. \A q \in Publishers \ {p} : pc'[q] = pc[q] /\ reg[q].ev # staging
      BY <2>1, <2>k, <1>0, <1>a DEF Goto, IInv, Names, Procs
    <3> QED
      BY <3>1, <2>1, <2>2, <2>3, <2>k DEF IInv, Names
  <2>9. Queue' /\ History' /\ NoRequestLost'
    BY <2>1, <2>k DEF IInv, Facts, Queue, History, NoRequestLost, records
  <2>10. Records' /\ Owed' /\ NamesKept'
    BY <2>1 DEF IInv, Facts, Records, Truthful, Owed, Owes, NamesKept, records
  <2> QED
    BY <2>5, <2>7, <2>8, <2>9, <2>10 DEF IInv, Facts
<1>8. CASE PUndo(p)
  <2> USE <1>8 DEF PUndo
  <2>1. /\ Goto(p, "p_undo", "unlock")
        /\ (Works \/ Fault("release"))
        /\ UNCHANGED <<req, processing, records, reg, pending, crashes, tries, past>>
        /\ staging' \in {staging, NoEvent}
        /\ dirs' = dirs \/ (NothingClaimed /\ dirs' = dirs \ {"slot"})
    BY DEF Rmdir
  <2>2. /\ "p_undo" \in Inside /\ "p_undo" \in Places
        /\ "unlock" \in Inside /\ "unlock" \in Places
        /\ "unlock" \notin PublishAt
    BY DEF Inside, Places, PublishAt, ConsumeAt
  <2>3. pc[p] = "p_undo" /\ pc'[p] = "unlock" /\ pc' \in [Procs -> Places]
    BY <2>1, <2>2, <1>0, <1>a DEF Goto
  <2>4. "mutex" \in dirs'
    BY <2>1, <2>2, <2>3, <1>0, HolderHasMutex
  <2>5. TypeOK'
    BY <2>1, <2>3, <1>a, BudgetKept DEF TypeOK, Places, records, past,
       EventOrNone
  <2>6. PublisherKnows(p)'
    BY <2>3 DEF PublisherKnows
  <2>7. MutexHeld' /\ Knowledge'
    BY <2>1, <2>2, <2>4, <2>6, PublisherMoves
  <2>8. Names'
    BY <2>1, <2>2, PublisherKeepsNames DEF past
  <2>9. Facts'
    BY <2>1, FactsFrame DEF NothingClaimed, IInv, Facts, Queue
  <2> QED
    BY <2>5, <2>7, <2>8, <2>9 DEF IInv
<1>9. CASE Unlock(p)
  BY <1>9, UnlockSound, <1>0
<1> QED
  BY <1>1, <1>2, <1>3, <1>4, <1>5, <1>6, <1>7, <1>8, <1>9 DEF PublishStep

-----------------------------------------------------------------------------
(* A consumer's steps. *)

(* What a consumer forgets of what it owes. *)
LEMMA DebtForgotten ==
  ASSUME IInv, NEW c \in Consumers, pending' = [pending EXCEPT ![c].active = FALSE]
  PROVE  /\ pending' \in [Consumers -> [active: BOOLEAN, durable: BOOLEAN, rec: Record]]
         /\ ~Owes(c)'
         /\ \A d \in Consumers : /\ pending'[d].rec = pending[d].rec
                                 /\ d # c => (Owes(d)' <=> Owes(d))
<1>1. pending \in [Consumers -> [active: BOOLEAN, durable: BOOLEAN, rec: Record]]
  BY DEF IInv, TypeOK
<1>2. pending'[c] = [pending[c] EXCEPT !.active = FALSE]
  BY <1>1
<1>3. ~pending'[c].active /\ pending'[c].rec = pending[c].rec
  BY <1>1, <1>2
<1>4. \A d \in Consumers \ {c} : pending'[d] = pending[d]
  BY <1>1
<1>5. pending' \in [Consumers -> [active: BOOLEAN, durable: BOOLEAN, rec: Record]]
  BY <1>1
<1> QED
  BY <1>3, <1>4, <1>5 DEF Owes

(* The file operations of consume, in the order in which it makes them.     *)
LEMMA ConsumeStepSound ==
  ASSUME IInv, NEW c \in Consumers, ConsumeStep(c)
  PROVE  IInv'
<1>0. /\ c \in Procs /\ \A p \in Publishers : p # c /\ p \in Procs
      /\ \A d \in Consumers : d \in Procs
  BY IpcAssumption DEF Procs
<1>a. /\ TypeOK /\ pc \in [Procs -> Places] /\ reg \in [Procs -> Record]
      /\ pending \in [Consumers -> [active: BOOLEAN, durable: BOOLEAN, rec: Record]]
  BY DEF IInv, TypeOK, Places
<1>b. /\ NoRecord \in Record /\ NoRecord.ev = NoEvent /\ NoRecord.res = "none"
      /\ NoEvent \notin Events
  BY IpcAssumption DEF NoRecord, Record, EventOrNone, NoEvent
<1>1. CASE Poll(c)
  <2>1. /\ pc[c] = "idle" /\ pc' = [pc EXCEPT ![c] = "c_lock"]
        /\ UNCHANGED <<files, reg, pending, budget, past>>
    BY <1>1 DEF Poll, Goto
  <2>2. pc' \in [Procs -> Places] /\ pc'[c] = "c_lock" /\ \A q \in Procs \ {c} : pc'[q] = pc[q]
    BY <2>1, <1>0, <1>a DEF Places, ConsumeAt
  <2>3. TypeOK'
    BY <2>1, <2>2, <1>a DEF TypeOK, Places, files, requests, records, budget,
       past
  <2>4. MutexHeld'
    BY <2>1, <2>2 DEF IInv, MutexHeld, Inside, files
  <2>5. Names'
    BY <2>1, <2>2, <1>0 DEF IInv, Names, past
  <2>6. Knowledge'
    <3>1. ASSUME NEW p \in Publishers PROVE PublisherKnows(p)'
      BY <2>1, <2>2, <1>0 DEF IInv, Knowledge, PublisherKnows, files, requests,
         records
    <3>2. ASSUME NEW d \in Consumers PROVE ConsumerKnows(d)'
      BY <2>1, <2>2, <1>0 DEF IInv, Knowledge, ConsumerKnows, Finishing,
         Acknowledged, Cleared, Owes, files, requests, records, past
    <3> QED
      BY <3>1, <3>2 DEF Knowledge
  <2>7. Facts'
    BY <2>1, FactsFrame DEF files, requests, IInv, Facts, Queue
  <2> QED
    BY <2>3, <2>4, <2>5, <2>6, <2>7 DEF IInv
<1>2. CASE CLock(c)
  <2>1. /\ pc[c] = "c_lock"
        /\ UNCHANGED <<requests, records, reg, pending, crashes, tries, past>>
        /\ (Works \/ Fault("make"))
        /\ \/ /\ "mutex" \notin dirs /\ dirs' = dirs \cup {"mutex"}
              /\ pc' = [pc EXCEPT ![c] = "c_result"]
           \/ pc' = [pc EXCEPT ![c] = "idle"] /\ dirs' = dirs
    BY <1>2 DEF CLock, Mkdir, Refused, Goto
  <2>2. pc' \in [Procs -> Places] /\ \A q \in Procs \ {c} : pc'[q] = pc[q]
    BY <2>1, <1>0, <1>a DEF Places, ConsumeAt
  <2>3. pc'[c] \in {"c_result", "idle"}
    BY <2>1, <1>0, <1>a
  <2>4. TypeOK'
    BY <2>1, <2>2, <1>a, BudgetKept DEF TypeOK, Places, requests, records, past,
       Dirs
  <2>5. MutexHeld'
    <3>1. CASE "mutex" \notin dirs /\ dirs' = dirs \cup {"mutex"}
      <4>1. \A q \in Procs : pc[q] \notin Inside
        BY <3>1 DEF IInv, MutexHeld
      <4> QED
        BY <3>1, <4>1, <2>2 DEF MutexHeld
    <3>2. CASE pc' = [pc EXCEPT ![c] = "idle"] /\ dirs' = dirs
      <4>1. pc'[c] \notin Inside
        BY <3>2, <1>0, <1>a DEF Inside, PublishAt, ConsumeAt
      <4> QED
        BY <3>2, <4>1, <2>2 DEF IInv, MutexHeld
    <3> QED
      BY <2>1, <3>1, <3>2
  <2>6. Names'
    BY <2>1, <2>2, <1>0 DEF IInv, Names, past
  <2>7. Knowledge'
    <3>1. ASSUME NEW p \in Publishers PROVE PublisherKnows(p)'
      BY <2>1, <2>2, <1>0 DEF IInv, Knowledge, PublisherKnows, requests, records
    <3>2. ASSUME NEW d \in Consumers PROVE ConsumerKnows(d)'
      BY <2>1, <2>2, <2>3, <1>0 DEF IInv, Knowledge, ConsumerKnows, Finishing,
         Acknowledged, Cleared, Owes, requests, records, past
    <3> QED
      BY <3>1, <3>2 DEF Knowledge
  <2>8. Facts'
    BY <2>1, FactsFrame DEF requests, IInv, Facts, Queue
  <2> QED
    BY <2>4, <2>5, <2>6, <2>7, <2>8 DEF IInv
<1>3. CASE CFinish(c) /\ UNCHANGED <<files, crashes, tries, past>>
  <2> USE <1>3 DEF CFinish
  <2>1. /\ Goto(c, "c_result", "c_slot") /\ Works
        /\ result # NoRecord /\ UNCHANGED <<files, crashes, tries, past>>
        /\ reg' = [reg EXCEPT ![c] = result]
        /\ pending' = [pending EXCEPT ![c].active = FALSE]
    OBVIOUS
  <2>2. /\ "c_result" \in Inside /\ "c_result" \in Places
        /\ "c_slot" \in Inside /\ "c_slot" \in Places
    BY DEF Inside, Places, PublishAt, ConsumeAt
  <2>3. pc[c] = "c_result" /\ pc'[c] = "c_slot" /\ pc' \in [Procs -> Places]
    BY <2>1, <2>2, <1>0, <1>a DEF Goto
  <2>4. "mutex" \in dirs'
    BY <2>1, <2>2, <2>3, <1>0, HolderHasMutex DEF files
  <2>a. /\ reg' \in [Procs -> Record] /\ reg'[c] = result
        /\ \A q \in Procs \ {c} : reg'[q] = reg[q]
    BY <2>1, <1>0, <1>a DEF TypeOK
  <2>b. /\ pending' \in [Consumers -> [active: BOOLEAN, durable: BOOLEAN, rec: Record]]
        /\ \A d \in Consumers : pending'[d].rec = pending[d].rec /\ ~Owes(d)'
    BY <2>1, DebtForgotten DEF IInv, Facts, Owed
  <2>5. TypeOK'
    BY <2>1, <2>3, <1>a, BudgetKept, <2>a, <2>b DEF TypeOK, Places, files,
       requests, records, past
  <2>6. ConsumerKnows(c)'
    BY <2>1, <2>3, <1>0, <2>a, <2>b DEF IInv, Knowledge, Owes, ConsumerKnows,
       Finishing, Acknowledged, Cleared, files, requests, records, past
  <2>7. MutexHeld' /\ Knowledge'
    BY <2>1, <2>2, <2>4, <2>6, ConsumerMoves
  <2>8. Names'
    BY <2>1, <2>2, <1>0, ConsumerKeepsNames DEF past
  <2>9. Facts'
    BY <2>1, <2>a, <2>b, <1>0 DEF IInv, Facts, History, Queue, Records,
       Truthful, Owed, NoRequestLost, NamesKept, files, requests, records, past
  <2> QED
    BY <2>5, <2>7, <2>8, <2>9 DEF IInv, Facts
<1>4. CASE CStart(c) /\ UNCHANGED <<files, crashes, tries, past>>
  <2> USE <1>4 DEF CStart
  <2>1. /\ Goto(c, "c_result", "c_claim") /\ Works
        /\ result = NoRecord /\ ~Owes(c) /\ reg' = reg /\ UNCHANGED <<files, crashes, tries, past>>
        /\ pending' = [pending EXCEPT ![c].active = FALSE]
    OBVIOUS
  <2>2. /\ "c_result" \in Inside /\ "c_result" \in Places
        /\ "c_claim" \in Inside /\ "c_claim" \in Places
    BY DEF Inside, Places, PublishAt, ConsumeAt
  <2>3. pc[c] = "c_result" /\ pc'[c] = "c_claim" /\ pc' \in [Procs -> Places]
    BY <2>1, <2>2, <1>0, <1>a DEF Goto
  <2>4. "mutex" \in dirs'
    BY <2>1, <2>2, <2>3, <1>0, HolderHasMutex DEF files
  <2>b. /\ pending' \in [Consumers -> [active: BOOLEAN, durable: BOOLEAN, rec: Record]]
        /\ \A d \in Consumers : /\ pending'[d].rec = pending[d].rec
                                /\ Owes(d)' <=> Owes(d)
    BY <2>1, DebtForgotten
  <2>5. TypeOK'
    BY <2>1, <2>3, <1>a, BudgetKept, <2>b DEF TypeOK, Places, files, requests,
       records, past
  <2>6. ConsumerKnows(c)'
    BY <2>1, <2>3, <1>0, <2>b DEF IInv, Knowledge, Owes, ConsumerKnows,
       Finishing, Acknowledged, Cleared, files, requests, records, past
  <2>7. MutexHeld' /\ Knowledge'
    BY <2>1, <2>2, <2>4, <2>6, ConsumerMoves
  <2>8. Names'
    BY <2>1, <2>2, <1>0, ConsumerKeepsNames DEF past
  <2>9. Facts'
    BY <2>1, <2>b, <1>0 DEF IInv, Facts, History, Queue, Records, Truthful,
       Owed, NoRequestLost, NamesKept, files, requests, records, past
  <2> QED
    BY <2>5, <2>7, <2>8, <2>9 DEF IInv, Facts
<1>5. CASE CResume(c) /\ UNCHANGED <<files, crashes, tries, past>>
  <2> USE <1>5 DEF CResume, ResumeAt
  <2>1. /\ Goto(c, "c_result", "c_record") /\ Works
        /\ result = NoRecord /\ Owes(c) /\ pending' = pending /\ UNCHANGED <<files, crashes, tries, past>>
        /\ reg' = [reg EXCEPT ![c] = pending[c].rec]
    OBVIOUS
  <2>2. /\ "c_result" \in Inside /\ "c_result" \in Places
        /\ "c_record" \in Inside /\ "c_record" \in Places
    BY DEF Inside, Places, PublishAt, ConsumeAt
  <2>3. pc[c] = "c_result" /\ pc'[c] = "c_record" /\ pc' \in [Procs -> Places]
    BY <2>1, <2>2, <1>0, <1>a DEF Goto
  <2>4. "mutex" \in dirs'
    BY <2>1, <2>2, <2>3, <1>0, HolderHasMutex DEF files
  <2>a. /\ reg' \in [Procs -> Record] /\ reg'[c] = pending[c].rec
        /\ \A q \in Procs \ {c} : reg'[q] = reg[q]
    BY <2>1, <1>0, <1>a
  <2>5. TypeOK'
    BY <2>1, <2>3, <1>a, BudgetKept, <2>a DEF TypeOK, Places, files, requests,
       records, past
  <2>6. ConsumerKnows(c)'
    BY <2>1, <2>3, <1>0, <2>a DEF IInv, Knowledge, Owes, ConsumerKnows,
       Finishing, Acknowledged, Cleared, files, requests, records, past
  <2>7. MutexHeld' /\ Knowledge'
    BY <2>1, <2>2, <2>4, <2>6, ConsumerMoves
  <2>8. Names'
    BY <2>1, <2>2, <1>0, ConsumerKeepsNames DEF past
  <2>9. Facts'
    BY <2>1, <2>a, <1>0 DEF IInv, Facts, History, Queue, Records, Truthful,
       Owed, Owes, NoRequestLost, NamesKept, files, requests, records, past
  <2> QED
    BY <2>5, <2>7, <2>8, <2>9 DEF IInv, Facts
<1>6. CASE CGiveUp(c) /\ UNCHANGED <<files, crashes, tries, past>>
  <2> USE <1>6 DEF CGiveUp
  <2>1. /\ Goto(c, "c_result", "unlock") /\ (Works \/ Fault("read"))
        /\ UNCHANGED <<reg, pending>> /\ UNCHANGED <<files, crashes, tries, past>>
    OBVIOUS
  <2>2. /\ "c_result" \in Inside /\ "c_result" \in Places
        /\ "unlock" \in Inside /\ "unlock" \in Places
    BY DEF Inside, Places, PublishAt, ConsumeAt
  <2>3. pc[c] = "c_result" /\ pc'[c] = "unlock" /\ pc' \in [Procs -> Places]
    BY <2>1, <2>2, <1>0, <1>a DEF Goto
  <2>4. "mutex" \in dirs'
    BY <2>1, <2>2, <2>3, <1>0, HolderHasMutex DEF files
  <2>5. TypeOK'
    BY <2>1, <2>3, <1>a, BudgetKept DEF TypeOK, Places, files, requests,
       records, past
  <2>6. ConsumerKnows(c)'
    BY <2>1, <2>3, <1>0 DEF IInv, Knowledge, Owes, ConsumerKnows, Finishing,
       Acknowledged, Cleared, files, requests, records, past
  <2>7. MutexHeld' /\ Knowledge'
    BY <2>1, <2>2, <2>4, <2>6, ConsumerMoves
  <2>8. Names'
    BY <2>1, <2>2, <1>0, ConsumerKeepsNames DEF past
  <2>9. Facts'
    BY <2>1, FactsFrame DEF files, requests, IInv, Facts, Queue
  <2> QED
    BY <2>5, <2>7, <2>8, <2>9 DEF IInv, Facts
<1>7. CASE CClaim(c)
  <2> USE <1>7 DEF CClaim
  <2>1. PICK to \in {"c_take", "unlock"} :
          /\ Goto(c, "c_claim", to) /\ (Works \/ Fault("make"))
          /\ UNCHANGED <<requests, records, reg, pending, crashes, tries, past>>
          /\ IF to = "c_take"
               THEN "slot" \in dirs /\ "consumer" \notin dirs /\ dirs' = dirs \cup {"consumer"}
               ELSE dirs' = dirs
    BY DEF Mkdir, Refused
  <2>2. /\ "c_claim" \in Inside /\ "c_claim" \in Places
        /\ to \in Inside /\ to \in Places
    BY DEF Inside, Places, PublishAt, ConsumeAt
  <2>3. pc[c] = "c_claim" /\ pc'[c] = to /\ pc' \in [Procs -> Places]
    BY <2>1, <2>2, <1>0, <1>a DEF Goto
  <2>4. "mutex" \in dirs'
    BY <2>1, <2>2, <2>3, <1>0, HolderHasMutex DEF files
  <2>5. TypeOK'
    BY <2>1, <2>3, <1>a, BudgetKept DEF TypeOK, Places, requests, records, past,
       Dirs
  <2>6. ConsumerKnows(c)'
    BY <2>1, <2>3, <1>0, <1>b DEF IInv, Knowledge, Owes, ConsumerKnows,
       Finishing, Acknowledged, Cleared, Facts, Queue, requests, records
  <2>7. MutexHeld' /\ Knowledge'
    BY <2>1, <2>2, <2>4, <2>6, ConsumerMoves
  <2>8. Names'
    BY <2>1, <2>2, <1>0, ConsumerKeepsNames DEF past
  <2>9. Facts'
    BY <2>1, FactsFrame DEF requests, IInv, Facts, Queue
  <2> QED
    BY <2>5, <2>7, <2>8, <2>9 DEF IInv, Facts
<1>8. CASE CTake(c)
  <2> USE <1>8 DEF CTake
  <2>1. PICK to \in {"c_apply", "c_unclaim"} :
          /\ Goto(c, "c_take", to) /\ (Works \/ Fault("move"))
          /\ UNCHANGED <<dirs, staging, records, reg, pending, crashes, tries, past>>
          /\ IF to = "c_apply"
               THEN req # NoEvent /\ processing' = req /\ req' = NoEvent
               ELSE UNCHANGED <<req, processing>>
    OBVIOUS
  <2>2. /\ "c_take" \in Inside /\ "c_take" \in Places
        /\ to \in Inside /\ to \in Places
    BY DEF Inside, Places, PublishAt, ConsumeAt
  <2>3. pc[c] = "c_take" /\ pc'[c] = to /\ pc' \in [Procs -> Places]
    BY <2>1, <2>2, <1>0, <1>a DEF Goto
  <2>4. "mutex" \in dirs'
    BY <2>1, <2>2, <2>3, <1>0, HolderHasMutex DEF files
  <2>k. /\ result = NoRecord /\ processing = NoEvent /\ "consumer" \in dirs
        /\ req # NoEvent => req \in accepted /\ outcome[req] = "none"
    BY <2>3 DEF IInv, Knowledge, ConsumerKnows, Facts, Queue
  <2>m. \A d \in Consumers : ~Owes(d) /\ ~Owes(d)'
    BY <2>1, <2>k DEF IInv, Facts, Owed, Owes
  <2>5. TypeOK'
    BY <2>1, <2>3, <1>a, BudgetKept DEF TypeOK, Places, records, past,
       EventOrNone
  <2>6. ConsumerKnows(c)'
    BY <2>1, <2>3, <1>0, <2>k DEF IInv, Knowledge, Owes, ConsumerKnows,
       Finishing, Acknowledged, Cleared, records, past
  <2>7. MutexHeld' /\ Knowledge'
    BY <2>1, <2>2, <2>4, <2>6, ConsumerMoves
  <2>8. Names'
    BY <2>1, <2>2, <1>0, ConsumerKeepsNames DEF past
  <2>9. Facts'
    <3>1. Queue' /\ NoRequestLost' /\ History'
      BY <2>1, <2>k DEF IInv, Facts, Queue, NoRequestLost, History, records,
         past
    <3>2. Records'
      BY <2>1 DEF IInv, Facts, Records, Truthful, records, past
    <3>3. Owed' /\ NamesKept'
      BY <2>1, <2>m DEF IInv, Facts, Owed, NamesKept, records
    <3> QED
      BY <3>1, <3>2, <3>3 DEF Facts
  <2> QED
    BY <2>5, <2>7, <2>8, <2>9 DEF IInv, Facts
<1>9. CASE CUnclaim(c)
  <2> USE <1>9 DEF CUnclaim
  <2>1. /\ Goto(c, "c_unclaim", "unlock") /\ (Works \/ Fault("release"))
        /\ UNCHANGED <<requests, records, reg, pending, crashes, tries, past>>
        /\ dirs' \in {dirs, dirs \ {"consumer"}}
    BY DEF Rmdir
  <2>2. /\ "c_unclaim" \in Inside /\ "c_unclaim" \in Places
        /\ "unlock" \in Inside /\ "unlock" \in Places
    BY DEF Inside, Places, PublishAt, ConsumeAt
  <2>3. pc[c] = "c_unclaim" /\ pc'[c] = "unlock" /\ pc' \in [Procs -> Places]
    BY <2>1, <2>2, <1>0, <1>a DEF Goto
  <2>4. "mutex" \in dirs'
    BY <2>1, <2>2, <2>3, <1>0, HolderHasMutex DEF files
  <2>k. processing = NoEvent
    BY <2>3 DEF IInv, Knowledge, ConsumerKnows
  <2>5. TypeOK'
    BY <2>1, <2>3, <1>a, BudgetKept DEF TypeOK, Places, requests, records, past,
       Dirs
  <2>6. ConsumerKnows(c)'
    BY <2>1, <2>3, <1>0 DEF IInv, Knowledge, Owes, ConsumerKnows, Finishing,
       Acknowledged, Cleared, requests, records
  <2>7. MutexHeld' /\ Knowledge'
    BY <2>1, <2>2, <2>4, <2>6, ConsumerMoves
  <2>8. Names'
    BY <2>1, <2>2, <1>0, ConsumerKeepsNames DEF past
  <2>9. Facts'
    BY <2>1, <2>k, FactsFrame DEF requests, IInv, Facts, Queue
  <2> QED
    BY <2>5, <2>7, <2>8, <2>9 DEF IInv, Facts
<1>10. CASE CApply(c)
  <2> USE <1>10 DEF CApply
  <2>2. /\ "c_apply" \in Inside /\ "c_apply" \in Places
        /\ "c_record" \in Inside /\ "c_record" \in Places
    BY DEF Inside, Places, PublishAt, ConsumeAt
  <2>1. PICK rec \in Record :
          /\ Goto(c, "c_apply", "c_record")
          /\ UNCHANGED <<files, crashes, tries, accepted, discarded>>
          /\ reg' = [reg EXCEPT ![c] = rec]
          /\ pending' = [pending EXCEPT ![c] =
                            [active |-> TRUE, durable |-> FALSE, rec |-> rec]]
          /\ rec.res \in {"applied", "rejected"}
          /\ \/ /\ Works /\ rec.ev = processing
                /\ outcome' = [outcome EXCEPT ![processing] = rec.res]
                /\ applies' = [applies EXCEPT ![processing] = @ + 1]
             \/ /\ Fault("request") /\ rec.ev = NoEvent
                /\ outcome' = [outcome EXCEPT ![processing] = "unread"]
                /\ applies' = applies
    <3>1. ASSUME NEW ev \in EventOrNone, NEW res \in {"applied", "rejected"}
          PROVE  [ev |-> ev, res |-> res] \in Record
      BY DEF Record
    <3>2. processing \in EventOrNone /\ NoEvent \in EventOrNone
      BY <1>a DEF TypeOK, EventOrNone
    <3>3. CASE /\ Fault("request")
               /\ Settle(c, [ev |-> NoEvent, res |-> "rejected"])
               /\ outcome' = [outcome EXCEPT ![processing] = "unread"]
               /\ UNCHANGED applies
      <4> DEFINE rec == [ev |-> NoEvent, res |-> "rejected"]
      <4>1. rec \in Record /\ rec.ev = NoEvent /\ rec.res = "rejected"
        BY <3>1, <3>2
      <4> USE <4>1
      <4> WITNESS rec \in Record
      <4> QED
        BY <3>3, <4>1 DEF Settle
    <3>4. CASE /\ Works
               /\ \E r \in Returns :
                    /\ Settle(c, [ev |-> processing, res |-> Recorded(r)])
                    /\ outcome' = [outcome EXCEPT ![processing] =
                                      IF r = "zero" THEN "applied" ELSE "rejected"]
                    /\ applies' = [applies EXCEPT ![processing] = @ + 1]
      <4>1. PICK r \in Returns :
              /\ Settle(c, [ev |-> processing, res |-> Recorded(r)])
              /\ outcome' = [outcome EXCEPT ![processing] =
                                IF r = "zero" THEN "applied" ELSE "rejected"]
              /\ applies' = [applies EXCEPT ![processing] = @ + 1]
        BY <3>4
      <4> DEFINE rec == [ev |-> processing, res |-> Recorded(r)]
      <4>2. Recorded(r) = IF r = "zero" THEN "applied" ELSE "rejected"
        BY DEF Recorded
      <4>3. /\ rec \in Record /\ rec.ev = processing /\ rec.res = Recorded(r)
            /\ Recorded(r) \in {"applied", "rejected"}
        BY <3>1, <3>2, <4>2
      <4> USE <4>3
      <4> WITNESS rec \in Record
      <4> QED
        BY <3>4, <4>1, <4>2, <4>3 DEF Settle
    <3> QED
      BY <3>3, <3>4
  <2>3. pc[c] = "c_apply" /\ pc'[c] = "c_record" /\ pc' \in [Procs -> Places]
    BY <2>1, <2>2, <1>0, <1>a DEF Goto
  <2>4. "mutex" \in dirs'
    BY <2>1, <2>2, <2>3, <1>0, HolderHasMutex DEF files
  <2>a. /\ reg' \in [Procs -> Record] /\ reg'[c] = rec
        /\ \A q \in Procs \ {c} : reg'[q] = reg[q]
    BY <2>1, <1>0, <1>a
  <2>b. /\ pending' \in [Consumers -> [active: BOOLEAN, durable: BOOLEAN, rec: Record]]
        /\ pending'[c] = [active |-> TRUE, durable |-> FALSE, rec |-> rec]
        /\ \A d \in Consumers \ {c} : pending'[d] = pending[d]
    BY <2>1, <1>a
  <2>c. /\ result = NoRecord /\ processing # NoEvent /\ outcome[processing] = "none"
        /\ processing \in Events /\ processing \in accepted /\ req = NoEvent
        /\ applies[processing] = 0
    BY <2>3, <1>a DEF IInv, Knowledge, ConsumerKnows, Facts, Queue, History,
       TypeOK, EventOrNone
  <2>d. /\ outcome \in [Events -> {"none", "applied", "rejected", "unread"}]
        /\ applies \in [Events -> Nat]
    BY <1>a DEF TypeOK
  <2>e. /\ outcome' \in [Events -> {"none", "applied", "rejected", "unread"}]
        /\ outcome'[processing] # "none"
        /\ rec.ev \in Events => rec.ev = processing /\ outcome'[processing] = rec.res
        /\ \A e \in Events \ {processing} : outcome'[e] = outcome[e]
    BY <2>1, <2>c, <2>d, <1>b
  <2>f. /\ applies' \in [Events -> Nat] /\ applies'[processing] <= 1
        /\ \A e \in Events \ {processing} : applies'[e] = applies[e]
    BY <2>1, <2>c, <2>d
  <2>g. \A d \in Consumers : ~Owes(d)
    BY <2>c DEF IInv, Facts, Owed
  <2>h. Owes(c)' /\ \A d \in Consumers \ {c} : ~Owes(d)'
    BY <2>b, <2>g DEF Owes
  <2>5. TypeOK'
    <3>1. faults' \in 0..MaxFaults
      BY <2>1, BudgetKept
    <3> QED
      BY <2>1, <2>3, <2>a, <2>b, <2>e, <2>f, <3>1, <1>a DEF TypeOK, Places,
         files, requests, records
  <2>6. ConsumerKnows(c)'
    BY <2>1, <2>3, <2>a, <2>b, <2>h DEF ConsumerKnows, Finishing, Acknowledged,
       Cleared
  <2>7. MutexHeld' /\ Knowledge'
    BY <2>1, <2>2, <2>4, <2>6, ConsumerMoves
  <2>8. Names'
    BY <2>1, <2>2, <2>a, <1>0, ConsumerKeepsNames
  <2>9. Facts'
    <3>1. History'
      BY <2>1, <2>c, <2>e, <2>f DEF IInv, Facts, History
    <3>2. Queue'
      BY <2>1, <2>c, <2>e DEF IInv, Facts, Queue, files, requests, records
    <3>3. Records'
      <4>1. /\ Truthful(ack) /\ Truthful(ackTmp) /\ Truthful(result)
            /\ Truthful(resultTmp)
            /\ \A d \in Consumers : Truthful(reg[d]) /\ Truthful(pending[d].rec)
        BY DEF IInv, Facts, Records
      <4>2. /\ Truthful(ack)' /\ Truthful(ackTmp)' /\ Truthful(result)'
            /\ Truthful(resultTmp)'
        BY <2>1, <2>c, <2>e, <4>1 DEF Truthful, files, records
      <4>3. \A d \in Consumers : Truthful(reg[d])' /\ Truthful(pending[d].rec)'
        <5> TAKE d \in Consumers
        <5>1. CASE d = c
          BY <5>1, <2>1, <2>a, <2>b, <2>e DEF Truthful
        <5>2. CASE d # c
          BY <5>2, <2>a, <2>b, <2>c, <2>e, <4>1, <1>0 DEF Truthful
        <5> QED
          BY <5>1, <5>2
      <4> QED
        BY <4>2, <4>3 DEF Records
    <3>4. Owed'
      BY <2>1, <2>b, <2>c, <2>e, <2>h DEF Owed, files, requests, records
    <3>5. NoRequestLost'
      <4>1. \A e \in accepted \ discarded : outcome[e] = "none" => e \in {req, processing}
        BY DEF IInv, Facts, NoRequestLost
      <4>2. accepted \subseteq Events
        BY <1>a DEF TypeOK
      <4> QED
        BY <2>1, <2>c, <2>e, <4>1, <4>2 DEF NoRequestLost, files, requests
    <3>6. NamesKept'
      <4>1. "request" \notin Failing => rec.ev = processing
        BY <2>1 DEF Fault
      <4> QED
        BY <2>1, <2>b, <2>c, <2>h, <4>1 DEF NamesKept, files, requests, records
    <3> QED
      BY <3>1, <3>2, <3>3, <3>4, <3>5, <3>6 DEF Facts
  <2> QED
    BY <2>5, <2>7, <2>8, <2>9 DEF IInv
<1>11. CASE CRecord(c)
  <2> USE <1>11 DEF CRecord
  <2>1. PICK to \in {"c_recordMv", "unlock"} :
          /\ Goto(c, "c_record", to)
          /\ (Works \/ Fault("write") \/ Fault("remove"))
          /\ UNCHANGED <<dirs, requests, ack, ackTmp, result, reg, pending, crashes, tries, past>>
          /\ IF to = "c_recordMv" THEN resultTmp' = reg[c]
             ELSE resultTmp' \in {resultTmp, NoRecord}
    OBVIOUS
  <2>2. /\ "c_record" \in Inside /\ "c_record" \in Places
        /\ to \in Inside /\ to \in Places
    BY DEF Inside, Places, PublishAt, ConsumeAt
  <2>3. pc[c] = "c_record" /\ pc'[c] = to /\ pc' \in [Procs -> Places]
    BY <2>1, <2>2, <1>0, <1>a DEF Goto
  <2>4. "mutex" \in dirs'
    BY <2>1, <2>2, <2>3, <1>0, HolderHasMutex DEF files
  <2>5. TypeOK'
    BY <2>1, <2>3, <1>a, BudgetKept, <1>0, <1>b DEF TypeOK, Places, requests,
       past
  <2>6. ConsumerKnows(c)'
    BY <2>1, <2>3, <1>0 DEF IInv, Knowledge, Owes, ConsumerKnows, Finishing,
       Acknowledged, Cleared, requests, past
  <2>7. MutexHeld' /\ Knowledge'
    BY <2>1, <2>2, <2>4, <2>6, ConsumerMoves
  <2>8. Names'
    BY <2>1, <2>2, <1>0, ConsumerKeepsNames DEF past
  <2>9. Facts'
    BY <2>1, <1>b, <1>0 DEF IInv, Facts, History, Queue, Records, Truthful,
       Owed, Owes, NoRequestLost, NamesKept, requests, records, past
  <2> QED
    BY <2>5, <2>7, <2>8, <2>9 DEF IInv, Facts
<1>12. CASE CRecordMv(c)
  <2> USE <1>12 DEF CRecordMv
  <2>1. PICK to \in {"c_slot", "unlock"} :
          /\ Goto(c, "c_recordMv", to) /\ (Works \/ Fault("move"))
          /\ UNCHANGED <<dirs, requests, ack, ackTmp, reg, crashes, tries, past>>
          /\ IF to = "c_slot"
               THEN /\ result' = resultTmp /\ resultTmp' = NoRecord
                    /\ pending' = [pending EXCEPT ![c].durable = TRUE]
               ELSE UNCHANGED <<result, resultTmp, pending>>
    OBVIOUS
  <2>2. /\ "c_recordMv" \in Inside /\ "c_recordMv" \in Places
        /\ to \in Inside /\ to \in Places
    BY DEF Inside, Places, PublishAt, ConsumeAt
  <2>3. pc[c] = "c_recordMv" /\ pc'[c] = to /\ pc' \in [Procs -> Places]
    BY <2>1, <2>2, <1>0, <1>a DEF Goto
  <2>4. "mutex" \in dirs'
    BY <2>1, <2>2, <2>3, <1>0, HolderHasMutex DEF files
  <2>k. /\ Owes(c) /\ reg[c] = pending[c].rec /\ resultTmp = reg[c]
        /\ processing # NoEvent /\ outcome[processing] # "none"
        /\ reg[c].res # "none" /\ req = NoEvent
        /\ \A d \in Consumers : Owes(d) => d = c
    BY <2>3 DEF IInv, Knowledge, ConsumerKnows, Facts, Owed, Queue
  <2>b. ASSUME to = "c_slot"
        PROVE  /\ pending' \in [Consumers -> [active: BOOLEAN, durable: BOOLEAN, rec: Record]]
               /\ \A d \in Consumers : pending'[d].rec = pending[d].rec /\ ~Owes(d)'
    <3>1. pending' = [pending EXCEPT ![c].durable = TRUE]
      BY <2>1, <2>b
    <3>2. pending' \in [Consumers -> [active: BOOLEAN, durable: BOOLEAN, rec: Record]]
      BY <3>1, <1>a
    <3>3. pending'[c].durable /\ pending'[c].rec = pending[c].rec
      BY <3>1, <1>a
    <3>4. \A d \in Consumers \ {c} : pending'[d] = pending[d]
      BY <3>1, <1>a
    <3> QED
      BY <3>2, <3>3, <3>4, <2>k DEF Owes
  <2>5. TypeOK'
    BY <2>1, <2>3, <2>b, <1>a, <1>b, BudgetKept DEF TypeOK, Places, requests,
       past
  <2>6. ConsumerKnows(c)'
    BY <2>1, <2>3, <1>0, <2>k, <2>b, <1>b DEF IInv, Knowledge, Owes,
       ConsumerKnows, Finishing, Acknowledged, Cleared, requests, past
  <2>7. MutexHeld' /\ Knowledge'
    BY <2>1, <2>2, <2>4, <2>6, ConsumerMoves
  <2>8. Names'
    BY <2>1, <2>2, <1>0, ConsumerKeepsNames DEF past
  <2>9. Facts'
    <3>1. CASE to = "unlock"
      BY <2>1, <3>1 DEF IInv, Facts, History, Queue, Records, Truthful, Owed,
         Owes, NoRequestLost, NamesKept, requests, past
    <3>2. CASE to = "c_slot"
      <4>1. Queue' /\ History' /\ NoRequestLost'
        BY <2>1, <2>k, <3>2 DEF IInv, Facts, Queue, History, NoRequestLost,
           requests, past
      <4>2. Records'
        BY <2>1, <2>k, <2>b, <3>2, <1>b DEF IInv, Facts, Records, Truthful, past
      <4>3. Owed'
        BY <2>b, <3>2 DEF Owed
      <4>4. NamesKept'
        BY <2>1, <2>k, <2>b, <3>2, <1>a DEF IInv, Facts, NamesKept, TypeOK,
           EventOrNone
      <4> QED
        BY <4>1, <4>2, <4>3, <4>4 DEF Facts
    <3> QED
      BY <2>1, <3>1, <3>2
  <2> QED
    BY <2>5, <2>7, <2>8, <2>9 DEF IInv, Facts
<1>13. CASE CSlot(c)
  <2> USE <1>13 DEF CSlot
  <2>1. PICK to \in {"c_ack", "unlock"} :
          /\ Goto(c, "c_slot", to) /\ (Works \/ Fault("make"))
          /\ UNCHANGED <<requests, records, reg, pending, crashes, tries, past>>
          /\ dirs' \in {dirs, dirs \cup {"slot"}}
    OBVIOUS
  <2>2. /\ "c_slot" \in Inside /\ "c_slot" \in Places
        /\ to \in Inside /\ to \in Places
    BY DEF Inside, Places, PublishAt, ConsumeAt
  <2>3. pc[c] = "c_slot" /\ pc'[c] = to /\ pc' \in [Procs -> Places]
    BY <2>1, <2>2, <1>0, <1>a DEF Goto
  <2>4. "mutex" \in dirs'
    BY <2>1, <2>2, <2>3, <1>0, HolderHasMutex DEF files
  <2>5. TypeOK'
    BY <2>1, <2>3, <1>a, BudgetKept DEF TypeOK, Places, requests, records, past,
       Dirs
  <2>6. ConsumerKnows(c)'
    BY <2>1, <2>3, <1>0 DEF IInv, Knowledge, Owes, ConsumerKnows, Finishing,
       Acknowledged, Cleared, requests, records
  <2>7. MutexHeld' /\ Knowledge'
    BY <2>1, <2>2, <2>4, <2>6, ConsumerMoves
  <2>8. Names'
    BY <2>1, <2>2, <1>0, ConsumerKeepsNames DEF past
  <2>9. Facts'
    BY <2>1, FactsFrame DEF requests, IInv, Facts, Queue
  <2> QED
    BY <2>5, <2>7, <2>8, <2>9 DEF IInv, Facts
<1>14. CASE CAck(c)
  <2> USE <1>14 DEF CAck
  <2>1. PICK to \in {"c_rmProcessing", "unlock", "c_ackMv"} :
          /\ Goto(c, "c_ack", to)
          /\ (Works \/ Fault("read") \/ Fault("remove") \/ Fault("write"))
          /\ UNCHANGED <<dirs, requests, ack, result, resultTmp, reg, pending, crashes, tries, past>>
          /\ to = "c_rmProcessing" => ack = reg[c]
          /\ IF to = "c_ackMv" THEN ackTmp' = reg[c] ELSE ackTmp' \in {ackTmp, NoRecord}
    OBVIOUS
  <2>2. /\ "c_ack" \in Inside /\ "c_ack" \in Places
        /\ to \in Inside /\ to \in Places
    BY DEF Inside, Places, PublishAt, ConsumeAt
  <2>3. pc[c] = "c_ack" /\ pc'[c] = to /\ pc' \in [Procs -> Places]
    BY <2>1, <2>2, <1>0, <1>a DEF Goto
  <2>4. "mutex" \in dirs'
    BY <2>1, <2>2, <2>3, <1>0, HolderHasMutex DEF files
  <2>5. TypeOK'
    BY <2>1, <2>3, <1>a, BudgetKept, <1>0, <1>b DEF TypeOK, Places, requests,
       past
  <2>6. ConsumerKnows(c)'
    BY <2>1, <2>3, <1>0 DEF IInv, Knowledge, Owes, ConsumerKnows, Finishing,
       Acknowledged, Cleared, requests, past
  <2>7. MutexHeld' /\ Knowledge'
    BY <2>1, <2>2, <2>4, <2>6, ConsumerMoves
  <2>8. Names'
    BY <2>1, <2>2, <1>0, ConsumerKeepsNames DEF past
  <2>9. Facts'
    BY <2>1, <1>b, <1>0 DEF IInv, Facts, History, Queue, Records, Truthful,
       Owed, Owes, NoRequestLost, NamesKept, requests, records, past
  <2> QED
    BY <2>5, <2>7, <2>8, <2>9 DEF IInv, Facts
<1>15. CASE CAckMv(c)
  <2> USE <1>15 DEF CAckMv
  <2>1. PICK to \in {"c_rmProcessing", "unlock"} :
          /\ Goto(c, "c_ackMv", to) /\ (Works \/ Fault("move"))
          /\ UNCHANGED <<dirs, requests, result, resultTmp, reg, pending, crashes, tries, past>>
          /\ IF to = "c_rmProcessing" THEN ack' = ackTmp /\ ackTmp' = NoRecord
             ELSE UNCHANGED <<ack, ackTmp>>
    OBVIOUS
  <2>2. /\ "c_ackMv" \in Inside /\ "c_ackMv" \in Places
        /\ to \in Inside /\ to \in Places
    BY DEF Inside, Places, PublishAt, ConsumeAt
  <2>3. pc[c] = "c_ackMv" /\ pc'[c] = to /\ pc' \in [Procs -> Places]
    BY <2>1, <2>2, <1>0, <1>a DEF Goto
  <2>4. "mutex" \in dirs'
    BY <2>1, <2>2, <2>3, <1>0, HolderHasMutex DEF files
  <2>5. TypeOK'
    BY <2>1, <2>3, <1>a, BudgetKept, <1>0, <1>b DEF TypeOK, Places, requests,
       past
  <2>6. ConsumerKnows(c)'
    BY <2>1, <2>3, <1>0 DEF IInv, Knowledge, Owes, ConsumerKnows, Finishing,
       Acknowledged, Cleared, requests, past
  <2>7. MutexHeld' /\ Knowledge'
    BY <2>1, <2>2, <2>4, <2>6, ConsumerMoves
  <2>8. Names'
    BY <2>1, <2>2, <1>0, ConsumerKeepsNames DEF past
  <2>9. Facts'
    BY <2>1, <1>b, <1>0 DEF IInv, Facts, History, Queue, Records, Truthful,
       Owed, Owes, NoRequestLost, NamesKept, requests, records, past
  <2> QED
    BY <2>5, <2>7, <2>8, <2>9 DEF IInv, Facts
<1>16. CASE CRmProcessing(c)
  <2> USE <1>16 DEF CRmProcessing
  <2>1. PICK to \in {"c_rmConsumer", "unlock"} :
          /\ Goto(c, "c_rmProcessing", to) /\ (Works \/ Fault("remove"))
          /\ UNCHANGED <<dirs, staging, req, records, reg, pending, crashes, tries, past>>
          /\ IF to = "c_rmConsumer" THEN processing' = NoEvent ELSE processing' = processing
    OBVIOUS
  <2>2. /\ "c_rmProcessing" \in Inside /\ "c_rmProcessing" \in Places
        /\ to \in Inside /\ to \in Places
    BY DEF Inside, Places, PublishAt, ConsumeAt
  <2>3. pc[c] = "c_rmProcessing" /\ pc'[c] = to /\ pc' \in [Procs -> Places]
    BY <2>1, <2>2, <1>0, <1>a DEF Goto
  <2>4. "mutex" \in dirs'
    BY <2>1, <2>2, <2>3, <1>0, HolderHasMutex DEF files
  <2>k. /\ result # NoRecord /\ \A d \in Consumers : ~Owes(d)
        /\ processing # NoEvent => outcome[processing] # "none"
    BY <2>3 DEF IInv, Knowledge, ConsumerKnows, Finishing, Acknowledged, Facts,
       Owed, Queue
  <2>5. TypeOK'
    BY <2>1, <2>3, <1>a, BudgetKept DEF TypeOK, Places, records, past,
       EventOrNone
  <2>6. ConsumerKnows(c)'
    BY <2>1, <2>3, <1>0 DEF IInv, Knowledge, Owes, ConsumerKnows, Finishing,
       Acknowledged, Cleared, records, past
  <2>7. MutexHeld' /\ Knowledge'
    BY <2>1, <2>2, <2>4, <2>6, ConsumerMoves
  <2>8. Names'
    BY <2>1, <2>2, <1>0, ConsumerKeepsNames DEF past
  <2>9. Facts'
    <3>1. Queue' /\ NoRequestLost'
      BY <2>1, <2>k DEF IInv, Facts, Queue, NoRequestLost, records, past
    <3>2. History' /\ Records'
      BY <2>1 DEF IInv, Facts, History, Records, Truthful, records, past
    <3>3. Owed' /\ NamesKept'
      BY <2>1, <2>k DEF IInv, Facts, Owed, Owes, NamesKept, records
    <3> QED
      BY <3>1, <3>2, <3>3 DEF Facts
  <2> QED
    BY <2>5, <2>7, <2>8, <2>9 DEF IInv, Facts
<1>17. CASE CRmConsumer(c)
  <2> USE <1>17 DEF CRmConsumer
  <2>1. PICK to \in {"c_rmSlot", "unlock"} :
          /\ Goto(c, "c_rmConsumer", to) /\ (Works \/ Fault("remove"))
          /\ UNCHANGED <<requests, records, reg, pending, crashes, tries, past>>
          /\ dirs' \in {dirs, dirs \ {"consumer"}}
    BY DEF Rmdir
  <2>2. /\ "c_rmConsumer" \in Inside /\ "c_rmConsumer" \in Places
        /\ to \in Inside /\ to \in Places
    BY DEF Inside, Places, PublishAt, ConsumeAt
  <2>3. pc[c] = "c_rmConsumer" /\ pc'[c] = to /\ pc' \in [Procs -> Places]
    BY <2>1, <2>2, <1>0, <1>a DEF Goto
  <2>4. "mutex" \in dirs'
    BY <2>1, <2>2, <2>3, <1>0, HolderHasMutex DEF files
  <2>k. processing = NoEvent
    BY <2>3 DEF IInv, Knowledge, ConsumerKnows, Cleared
  <2>5. TypeOK'
    BY <2>1, <2>3, <1>a, BudgetKept DEF TypeOK, Places, requests, records, past,
       Dirs
  <2>6. ConsumerKnows(c)'
    BY <2>1, <2>3, <1>0 DEF IInv, Knowledge, Owes, ConsumerKnows, Finishing,
       Acknowledged, Cleared, requests, records
  <2>7. MutexHeld' /\ Knowledge'
    BY <2>1, <2>2, <2>4, <2>6, ConsumerMoves
  <2>8. Names'
    BY <2>1, <2>2, <1>0, ConsumerKeepsNames DEF past
  <2>9. Facts'
    BY <2>1, <2>k, FactsFrame DEF requests, IInv, Facts, Queue
  <2> QED
    BY <2>5, <2>7, <2>8, <2>9 DEF IInv, Facts
<1>18. CASE CRmSlot(c)
  <2> USE <1>18 DEF CRmSlot
  <2>1. PICK to \in {"c_rmResult", "unlock"} :
          /\ Goto(c, "c_rmSlot", to) /\ (Works \/ Fault("remove"))
          /\ UNCHANGED <<requests, records, reg, pending, crashes, tries, past>>
          /\ dirs' = dirs \/ (SlotEmpty /\ dirs' = dirs \ {"slot"})
    BY DEF Rmdir
  <2>2. /\ "c_rmSlot" \in Inside /\ "c_rmSlot" \in Places
        /\ to \in Inside /\ to \in Places
    BY DEF Inside, Places, PublishAt, ConsumeAt
  <2>3. pc[c] = "c_rmSlot" /\ pc'[c] = to /\ pc' \in [Procs -> Places]
    BY <2>1, <2>2, <1>0, <1>a DEF Goto
  <2>4. "mutex" \in dirs'
    BY <2>1, <2>2, <2>3, <1>0, HolderHasMutex DEF files
  <2>5. TypeOK'
    BY <2>1, <2>3, <1>a, BudgetKept DEF TypeOK, Places, requests, records, past,
       Dirs
  <2>6. ConsumerKnows(c)'
    BY <2>1, <2>3, <1>0 DEF IInv, Knowledge, Owes, ConsumerKnows, Finishing,
       Acknowledged, Cleared, requests, records
  <2>7. MutexHeld' /\ Knowledge'
    BY <2>1, <2>2, <2>4, <2>6, ConsumerMoves
  <2>8. Names'
    BY <2>1, <2>2, <1>0, ConsumerKeepsNames DEF past
  <2>9. Facts'
    BY <2>1, FactsFrame DEF SlotEmpty, NothingClaimed, requests, IInv, Facts,
       Queue
  <2> QED
    BY <2>5, <2>7, <2>8, <2>9 DEF IInv, Facts
<1>19. CASE CRmResult(c)
  <2> USE <1>19 DEF CRmResult
  <2>1. /\ Goto(c, "c_rmResult", "unlock") /\ (Works \/ Fault("remove"))
        /\ UNCHANGED <<dirs, requests, ack, ackTmp, resultTmp, reg, crashes, tries, past>>
        /\ \/ result' = NoRecord /\ pending' = [pending EXCEPT ![c].active = FALSE]
           \/ UNCHANGED <<result, pending>>
    OBVIOUS
  <2>2. /\ "c_rmResult" \in Inside /\ "c_rmResult" \in Places
        /\ "unlock" \in Inside /\ "unlock" \in Places
    BY DEF Inside, Places, PublishAt, ConsumeAt
  <2>3. pc[c] = "c_rmResult" /\ pc'[c] = "unlock" /\ pc' \in [Procs -> Places]
    BY <2>1, <2>2, <1>0, <1>a DEF Goto
  <2>4. "mutex" \in dirs'
    BY <2>1, <2>2, <2>3, <1>0, HolderHasMutex DEF files
  <2>k. result # NoRecord /\ processing = NoEvent
    BY <2>3 DEF IInv, Knowledge, ConsumerKnows, Cleared, Acknowledged, Finishing
  <2>b. /\ pending' \in [Consumers -> [active: BOOLEAN, durable: BOOLEAN, rec: Record]]
        /\ \A d \in Consumers : pending'[d].rec = pending[d].rec /\ ~Owes(d)'
    <3>1. \A d \in Consumers : ~Owes(d)
      BY <2>k DEF IInv, Facts, Owed
    <3>2. CASE pending' = [pending EXCEPT ![c].active = FALSE]
      BY <3>1, <3>2, DebtForgotten
    <3>3. CASE UNCHANGED <<result, pending>>
      BY <3>1, <3>3, <1>a DEF Owes
    <3> QED
      BY <2>1, <3>2, <3>3
  <2>5. TypeOK'
    BY <2>1, <2>3, <1>a, BudgetKept, <2>b, <1>b DEF TypeOK, Places, requests,
       past
  <2>6. ConsumerKnows(c)'
    BY <2>1, <2>3, <1>0 DEF IInv, Knowledge, Owes, ConsumerKnows, Finishing,
       Acknowledged, Cleared
  <2>7. MutexHeld' /\ Knowledge'
    BY <2>1, <2>2, <2>4, <2>6, ConsumerMoves
  <2>8. Names'
    BY <2>1, <2>2, <1>0, ConsumerKeepsNames DEF past
  <2>9. Facts'
    BY <2>1, <2>b, <2>k, <1>b DEF IInv, Facts, History, Queue, Records,
       Truthful, Owed, NoRequestLost, NamesKept, requests, past
  <2> QED
    BY <2>5, <2>7, <2>8, <2>9 DEF IInv, Facts
<1>20. CASE Unlock(c)
  BY <1>20, <1>0, UnlockSound
<1> QED
  BY <1>1, <1>2, <1>3, <1>4, <1>5, <1>6, <1>7, <1>8, <1>9, <1>10, <1>11, <1>12,
     <1>13, <1>14, <1>15, <1>16, <1>17, <1>18, <1>19, <1>20 DEF CResult,
     ConsumeStep

-----------------------------------------------------------------------------
(* Crashes, restarts, and the operator. *)

LEMMA CrashSound ==
  ASSUME IInv, NEW p \in Procs, Crash(p)
  PROVE  IInv'
<1>a. /\ TypeOK /\ pc \in [Procs -> Places] /\ reg \in [Procs -> Record]
      /\ NoRecord \in Record /\ NoRecord.ev = NoEvent /\ NoEvent \notin Events
  BY IpcAssumption DEF IInv, TypeOK, Places, NoRecord, Record, EventOrNone,
     NoEvent
<1>1. /\ UNCHANGED <<files, faults, tries, past>>
      /\ crashes < MaxCrashes /\ crashes' = crashes + 1
      /\ pc' = [pc EXCEPT ![p] = "down"] /\ reg' = [reg EXCEPT ![p] = NoRecord]
      /\ pending' = IF p \in Consumers THEN [pending EXCEPT ![p] = Idle] ELSE pending
  BY DEF Crash
<1>2. /\ pc' \in [Procs -> Places] /\ pc'[p] = "down"
      /\ reg' \in [Procs -> Record] /\ reg'[p] = NoRecord
      /\ \A q \in Procs \ {p} : pc'[q] = pc[q] /\ reg'[q] = reg[q]
  BY <1>1, <1>a DEF Places
<1>3. /\ pending' \in [Consumers -> [active: BOOLEAN, durable: BOOLEAN, rec: Record]]
      /\ \A d \in Consumers : d # p => pending'[d] = pending[d]
      /\ \A d \in Consumers : d = p => pending'[d].rec = NoRecord /\ ~pending'[d].active
  BY <1>1, <1>a DEF TypeOK, Idle
<1>4. TypeOK'
  <2>1. crashes' \in 0..MaxCrashes
    BY <1>1, <1>a, IpcAssumption DEF TypeOK
  <2> QED
    BY <1>1, <1>2, <1>3, <2>1, <1>a DEF TypeOK, Places, files, requests,
       records, past
<1>5. MutexHeld'
  BY <1>1, <1>2 DEF IInv, MutexHeld, Inside, PublishAt, ConsumeAt, files
<1>6. Names'
  BY <1>1, <1>2, <1>a DEF IInv, Names, past, PublishAt, Procs
<1>7. Knowledge'
  <2>1. ASSUME NEW q \in Publishers PROVE PublisherKnows(q)'
    BY <1>1, <1>2, <2>1 DEF IInv, Knowledge, PublisherKnows, files, requests,
       records, Procs
  <2>2. ASSUME NEW c \in Consumers PROVE ConsumerKnows(c)'
    <3>1. CASE c = p
      BY <3>1, <1>2 DEF ConsumerKnows, Finishing, Acknowledged, Cleared
    <3>2. CASE c # p
      BY <3>2, <1>1, <1>2, <1>3, <2>2 DEF IInv, Knowledge, ConsumerKnows, Owes,
         files, requests, records, past, Procs
    <3> QED
      BY <3>1, <3>2
  <2> QED
    BY <2>1, <2>2 DEF Knowledge
<1>8. \A d \in Consumers : Owes(d)' => Owes(d) /\ pending'[d] = pending[d]
  BY <1>3 DEF Owes
<1>9. Records'
  BY <1>1, <1>2, <1>3, <1>a DEF IInv, Facts, Records, Truthful, files, records,
     past, Procs
<1>10. Owed' /\ NamesKept'
  BY <1>1, <1>8 DEF IInv, Facts, Owed, NamesKept, files, requests, records, past
<1>11. History' /\ Queue' /\ NoRequestLost'
  BY <1>1 DEF IInv, Facts, History, Queue, NoRequestLost, files, requests,
     records, past
<1> QED
  BY <1>4, <1>5, <1>6, <1>7, <1>9, <1>10, <1>11 DEF IInv, Facts

LEMMA RestartSound ==
  ASSUME IInv, NEW p \in Procs, Restart(p)
  PROVE  IInv'
<1>1. /\ pc[p] = "down" /\ pc' = [pc EXCEPT ![p] = "idle"]
      /\ UNCHANGED <<files, reg, pending, budget, past>>
  BY DEF Restart, Goto
<1>a. TypeOK /\ pc \in [Procs -> Places]
  BY DEF IInv, TypeOK, Places
<1>2. /\ pc' \in [Procs -> Places] /\ pc'[p] = "idle"
      /\ \A q \in Procs \ {p} : pc'[q] = pc[q]
  BY <1>1, <1>a DEF Places
<1>3. TypeOK'
  BY <1>1, <1>2, <1>a DEF TypeOK, Places, files, requests, records, budget, past
<1>4. MutexHeld'
  BY <1>1, <1>2 DEF IInv, MutexHeld, Inside, PublishAt, ConsumeAt, files
<1>5. Names'
  BY <1>1, <1>2 DEF IInv, Names, past, PublishAt, Procs
<1>6. Knowledge'
  <2>1. ASSUME NEW q \in Publishers PROVE PublisherKnows(q)'
    BY <1>1, <1>2, <2>1 DEF IInv, Knowledge, PublisherKnows, files, requests,
       records, Procs
  <2>2. ASSUME NEW c \in Consumers PROVE ConsumerKnows(c)'
    BY <1>1, <1>2, <2>2 DEF IInv, Knowledge, ConsumerKnows, Finishing,
       Acknowledged, Cleared, Owes, files, requests, records, past, Procs
  <2> QED
    BY <2>1, <2>2 DEF Knowledge
<1>7. Facts'
  BY <1>1, FactsFrame DEF files, requests, IInv, Facts, Queue
<1> QED
  BY <1>3, <1>4, <1>5, <1>6, <1>7 DEF IInv

(* The recovery, as documented, discards what it finds and nothing else.    *)
LEMMA RecoverSound ==
  ASSUME IInv, Recover
  PROVE  IInv'
<1>a. /\ TypeOK /\ NoRecord \in Record /\ NoRecord.ev = NoEvent
      /\ NoEvent \notin Events /\ NoEvent \in EventOrNone
  BY IpcAssumption DEF IInv, TypeOK, NoRecord, Record, EventOrNone, NoEvent
<1>1. /\ pc' = [p \in Procs |-> "idle"] /\ reg' = [p \in Procs |-> NoRecord]
      /\ pending' = [c \in Consumers |-> Idle]
      /\ dirs' \subseteq dirs \cap {"slot"}
      /\ staging' = NoEvent /\ req' = NoEvent /\ processing' = NoEvent
      /\ ackTmp' = NoRecord /\ discarded' = discarded \cup ({req, processing} \cap Events)
      /\ UNCHANGED <<ack, result, resultTmp, budget, outcome, applies, accepted>>
  BY DEF Recover
<1>2. /\ reg' \in [Procs -> Record] /\ pc' \in [Procs -> Places]
      /\ pending' \in [Consumers -> [active: BOOLEAN, durable: BOOLEAN, rec: Record]]
      /\ \A d \in Consumers : ~Owes(d)' /\ pending'[d].rec = NoRecord /\ reg'[d] = NoRecord
  BY <1>1, <1>a DEF Idle, Places, Owes, Procs
<1>3. TypeOK'
  BY <1>1, <1>2, <1>a DEF TypeOK, Places, budget
<1>4. MutexHeld' /\ Knowledge'
  BY <1>1 DEF MutexHeld, Knowledge, PublisherKnows, ConsumerKnows, Finishing,
     Acknowledged, Cleared, Inside, PublishAt, ConsumeAt, Procs
<1>5. Names'
  BY <1>1, <1>a DEF Names, PublishAt, Procs
<1>6. Records'
  BY <1>1, <1>2, <1>a DEF IInv, Facts, Records, Truthful
<1>7. History' /\ Queue' /\ Owed' /\ NoRequestLost' /\ NamesKept'
  BY <1>1, <1>2, <1>a DEF IInv, Facts, History, Queue, Owed, NoRequestLost,
     NamesKept, TypeOK
<1> QED
  BY <1>3, <1>4, <1>5, <1>6, <1>7 DEF IInv, Facts

LEMMA StepSound == IInv /\ [Next]_vars => IInv'
<1> SUFFICES ASSUME IInv, [Next]_vars PROVE IInv'
  OBVIOUS
<1>1. CASE UNCHANGED vars
  <2>1. TypeOK' /\ MutexHeld' /\ Names'
    BY <1>1 DEF IInv, TypeOK, MutexHeld, Names, vars, files, requests, records,
       budget, past
  <2>2. Knowledge'
    BY <1>1 DEF IInv, Knowledge, PublisherKnows, ConsumerKnows, Owes, vars,
       files, requests, records, past
  <2>3. Facts'
    BY <1>1, FactsFrame DEF vars, files, requests, IInv, Facts, Queue
  <2> QED
    BY <2>1, <2>2, <2>3 DEF IInv
<1> QED
  BY <1>1, PublishStepSound, ConsumeStepSound, CrashSound, RestartSound,
     RecoverSound DEF Next

LEMMA Invariant == Spec => []IInv
BY InitSound, StepSound, PTL DEF Spec
-----------------------------------------------------------------------------
(* The files implement the mailbox. *)

CellOf(q, r, h, o) ==
  IF q # NoEvent THEN [state |-> "queued", ev |-> q]
  ELSE IF r # NoRecord THEN [state |-> "done", ev |-> r.ev]
  ELSE IF h # NoEvent
         THEN [state |-> IF o[h] = "none" THEN "queued" ELSE "done", ev |-> h]
  ELSE [state |-> "empty", ev |-> NoEvent]

LEMMA CellNow ==
  /\ Cell = CellOf(req, result, processing, outcome)
  /\ Cell' = CellOf(req', result', processing', outcome')
BY DEF Cell, CellOf

(* What the mailbox looks like where the files move it. *)
LEMMA ReadyToOffer ==
  ASSUME IInv, NEW p \in Publishers, pc[p] \in {"p_unlinkAck", "p_stage", "p_rename"}
  PROVE  Cell = Slot!Empty
BY CellNow DEF IInv, Knowledge, PublisherKnows, CellOf, Slot!Empty, NoEvent

LEMMA DoneWhileFinishing ==
  ASSUME IInv, "request" \notin Failing, result # NoRecord
  PROVE  /\ result.ev \in Events
         /\ Cell = [state |-> "done", ev |-> result.ev]
         /\ result = [ev |-> result.ev, res |-> outcome[result.ev]]
<1>1. result.ev \in Events /\ req = NoEvent /\ result.res = outcome[result.ev]
  BY DEF IInv, Facts, NamesKept, Queue, Records, Truthful
<1>2. result = [ev |-> result.ev, res |-> result.res]
  BY DEF IInv, TypeOK, Record
<1> QED
  BY <1>1, <1>2, CellNow DEF CellOf

LEMMA Quiet ==
  ASSUME UNCHANGED <<req, processing, result, ack, outcome>>
  PROVE  UNCHANGED Slot!slotVars
BY CellNow DEF CellOf, Slot!slotVars

LEMMA PublishRefines ==
  ASSUME IInv, "request" \notin Failing, NEW p \in Publishers, PublishStep(p)
  PROVE  [Slot!SlotNext]_(Slot!slotVars)
<1>1. CASE PUnlinkAck(p)
  <2>1. Cell = Slot!Empty
    BY <1>1, ReadyToOffer DEF PUnlinkAck, Goto
  <2>2. UNCHANGED <<req, processing, result, outcome>> /\ ack' \in {ack, NoRecord}
    BY <1>1 DEF PUnlinkAck, requests, past
  <2>3. Cell' = Cell
    BY <2>2, CellNow DEF CellOf
  <2>4. CASE ack' = ack
    BY <2>2, <2>4, Quiet
  <2>5. CASE ack' = NoRecord
    BY <2>1, <2>2, <2>3, <2>5 DEF Slot!SlotNext, Slot!ForgetAck, Slot!NoRecord,
       NoRecord, NoEvent
  <2> QED
    BY <2>2, <2>4, <2>5
<1>2. CASE PRename(p)
  <2>1. CASE UNCHANGED req
    <3>1. UNCHANGED <<req, processing, result, ack, outcome>>
      BY <1>2, <2>1 DEF PRename, records
    <3> QED
      BY <3>1, Quiet
  <2>2. CASE req' = staging
    <3>1. /\ pc[p] = "p_rename" /\ pc[p] \in PublishAt
          /\ UNCHANGED <<processing, result, ack, outcome>>
      BY <1>2 DEF PRename, Goto, records, PublishAt
    <3>2. /\ staging \in Events \ accepted /\ ack = NoRecord /\ staging # NoEvent
          /\ outcome[staging] = "none"
      BY <3>1, IpcAssumption DEF IInv, Knowledge, PublisherKnows, Names, Facts,
         History, NoEvent
    <3>3. Cell = Slot!Empty
      BY <3>1, ReadyToOffer
    <3>4. Cell' = [state |-> "queued", ev |-> staging]
      BY <2>2, <3>2, CellNow DEF CellOf
    <3>5. Slot!Offer(staging)
      BY <3>1, <3>2, <3>3, <3>4 DEF Slot!Offer, Slot!NoRecord, NoRecord, NoEvent
    <3> QED
      BY <3>2, <3>5 DEF Slot!SlotNext
  <2> QED
    BY <1>2, <2>1, <2>2 DEF PRename
<1>3. CASE ~PUnlinkAck(p) /\ ~PRename(p)
  <2>1. UNCHANGED <<req, processing, result, ack, outcome>>
    BY <1>3 DEF PublishStep, Publish, PLock, PSlot, PCheck, PStage, PUndo,
       Unlock, files, requests, records, past
  <2> QED
    BY <2>1, Quiet
<1> QED
  BY <1>1, <1>2, <1>3

LEMMA ConsumeRefines ==
  ASSUME IInv, IInv', "request" \notin Failing, NEW c \in Consumers, ConsumeStep(c)
  PROVE  [Slot!SlotNext]_(Slot!slotVars)
<1>0. NoEvent \notin Events
  BY IpcAssumption DEF NoEvent
<1>1. CASE CTake(c)
  <2>1. /\ UNCHANGED <<result, ack, outcome>>
        /\ pc[c] = "c_take"
        /\ \/ UNCHANGED <<req, processing>>
           \/ req # NoEvent /\ processing' = req /\ req' = NoEvent
    BY <1>1 DEF CTake, Goto, records, past
  <2>2. /\ result = NoRecord
        /\ req # NoEvent => outcome[req] = "none"
    BY <2>1 DEF IInv, Knowledge, ConsumerKnows, Facts, Queue
  <2>3. Cell' = Cell
    BY <2>1, <2>2, CellNow DEF CellOf
  <2> QED
    BY <2>1, <2>3 DEF Slot!slotVars
<1>2. CASE CApply(c)
  <2>1. pc[c] = "c_apply" /\ UNCHANGED <<req, processing, result, ack>>
    BY <1>2 DEF CApply, Goto, files, requests, records
  <2>2. /\ result = NoRecord /\ processing # NoEvent /\ outcome[processing] = "none"
        /\ req = NoEvent /\ processing \in Events
    BY <2>1 DEF IInv, Knowledge, ConsumerKnows, Facts, Queue, TypeOK,
       EventOrNone
  <2>3. PICK r \in {"applied", "rejected"} :
          outcome' = [outcome EXCEPT ![processing] = r]
    BY <1>2 DEF CApply, Fault
  <2>4. outcome'[processing] = r
    BY <2>2, <2>3 DEF IInv, TypeOK
  <2>5. /\ Cell = [state |-> "queued", ev |-> processing]
        /\ Cell' = [state |-> "done", ev |-> processing]
    BY <2>1, <2>2, <2>4, CellNow DEF CellOf
  <2>6. Slot!Apply(processing, r)
    BY <2>1, <2>2, <2>3, <2>5 DEF Slot!Apply
  <2> QED
    BY <2>2, <2>6 DEF Slot!SlotNext, Slot!Results
<1>3. CASE CRecordMv(c)
  <2>1. CASE UNCHANGED result
    <3>1. UNCHANGED <<req, processing, result, ack, outcome>>
      BY <1>3, <2>1 DEF CRecordMv, requests, past
    <3> QED
      BY <3>1, Quiet
  <2>2. CASE result' = resultTmp
    <3>1. pc[c] = "c_recordMv" /\ UNCHANGED <<req, processing, ack, outcome>>
      BY <1>3 DEF CRecordMv, Goto, requests, past
    <3>2. /\ resultTmp.ev = processing /\ processing # NoEvent
          /\ outcome[processing] # "none" /\ result = NoRecord /\ req = NoEvent
          /\ resultTmp # NoRecord
      BY <3>1 DEF IInv, Knowledge, ConsumerKnows, Facts, Queue, Owed, NamesKept,
         NoRecord
    <3>3. Cell' = Cell
      BY <2>2, <3>1, <3>2, CellNow DEF CellOf
    <3> QED
      BY <3>1, <3>3 DEF Slot!slotVars
  <2> QED
    BY <1>3, <2>1, <2>2 DEF CRecordMv
<1>4. CASE CAckMv(c)
  <2>1. pc[c] = "c_ackMv" /\ UNCHANGED <<req, processing, result, outcome>>
        /\ ack' \in {ack, ackTmp}
    BY <1>4 DEF CAckMv, Goto, requests, past
  <2>2. result # NoRecord /\ ackTmp = result
    BY <2>1 DEF IInv, Knowledge, ConsumerKnows, Finishing
  <2>3. Cell' = Cell
    BY <2>1, CellNow DEF CellOf
  <2>4. CASE ack' = ack
    BY <2>1, <2>4, Quiet
  <2>5. CASE ack' = ackTmp
    <3>1. Slot!Acknowledge(result.ev)
      BY <2>1, <2>2, <2>3, <2>5, DoneWhileFinishing DEF Slot!Acknowledge
    <3> QED
      BY <2>2, <3>1, DoneWhileFinishing DEF Slot!SlotNext
  <2> QED
    BY <2>1, <2>4, <2>5
<1>5. CASE CRmProcessing(c)
  <2>1. pc[c] = "c_rmProcessing" /\ UNCHANGED <<req, result, ack, outcome>>
    BY <1>5 DEF CRmProcessing, Goto, records, past
  <2>2. result # NoRecord
    BY <2>1 DEF IInv, Knowledge, ConsumerKnows, Finishing, Acknowledged
  <2>3. Cell' = Cell
    BY <2>1, <2>2, CellNow DEF CellOf
  <2> QED
    BY <2>1, <2>3 DEF Slot!slotVars
<1>6. CASE CRmResult(c)
  <2>1. /\ pc[c] = "c_rmResult" /\ UNCHANGED <<req, processing, ack, outcome>>
        /\ result' \in {result, NoRecord}
    BY <1>6 DEF CRmResult, Goto, requests, past
  <2>2. result # NoRecord /\ ack = result /\ processing = NoEvent
    BY <2>1 DEF IInv, Knowledge, ConsumerKnows, Finishing, Acknowledged, Cleared
  <2>3. CASE result' = result
    BY <2>1, <2>3, Quiet
  <2>4. CASE result' = NoRecord
    <3>1. req = NoEvent
      BY <2>2 DEF IInv, Facts, Queue
    <3>2. Cell' = Slot!Empty
      BY <2>1, <2>2, <2>4, <3>1, CellNow DEF CellOf, Slot!Empty, NoEvent
    <3>3. Slot!Retire(result.ev)
      BY <2>1, <2>2, <3>2, DoneWhileFinishing DEF Slot!Retire
    <3> QED
      BY <2>2, <3>3, DoneWhileFinishing DEF Slot!SlotNext
  <2> QED
    BY <2>1, <2>3, <2>4
<1>7. CASE /\ ~CTake(c) /\ ~CApply(c) /\ ~CRecordMv(c)
           /\ ~CAckMv(c) /\ ~CRmProcessing(c) /\ ~CRmResult(c)
  <2>1. UNCHANGED <<req, processing, result, ack, outcome>>
    BY <1>7 DEF ConsumeStep, Poll, CLock, CResult, CClaim, CUnclaim, CRecord,
       CSlot, CAck, CRmConsumer, CRmSlot, Unlock, files, requests, records, past
  <2> QED
    BY <2>1, Quiet
<1> QED
  BY <1>1, <1>2, <1>3, <1>4, <1>5, <1>6, <1>7

LEMMA RecoverRefines ==
  ASSUME IInv, Recover
  PROVE  [Slot!SlotNext]_(Slot!slotVars)
<1>1. /\ UNCHANGED <<result, ack, outcome>>
      /\ req' = NoEvent /\ processing' = NoEvent
  BY DEF Recover
<1>2. CASE result # NoRecord
  <2>1. req = NoEvent
    BY <1>2 DEF IInv, Facts, Queue
  <2>2. Cell' = Cell
    BY <1>1, <1>2, <2>1, CellNow DEF CellOf
  <2> QED
    BY <1>1, <2>2 DEF Slot!slotVars
<1>3. CASE result = NoRecord
  <2>1. Cell' = Slot!Empty
    BY <1>1, <1>3, CellNow DEF CellOf, Slot!Empty, NoEvent
  <2> QED
    BY <1>1, <2>1 DEF Slot!SlotNext, Slot!Discard, Slot!slotVars
<1> QED
  BY <1>2, <1>3

LEMMA StepRefines ==
  ASSUME "request" \notin Failing
  PROVE  IInv /\ IInv' /\ [Next]_vars => [Slot!SlotNext]_(Slot!slotVars)
<1> SUFFICES ASSUME IInv, IInv', [Next]_vars
             PROVE  [Slot!SlotNext]_(Slot!slotVars)
  OBVIOUS
<1>1. CASE UNCHANGED vars
  BY <1>1, Quiet DEF vars, files, requests, records, past
<1>2. ASSUME NEW p \in Procs, Crash(p) \/ Restart(p)
      PROVE  UNCHANGED Slot!slotVars
  BY <1>2, Quiet DEF Crash, Restart, files, requests, records, past
<1> QED
  BY <1>1, <1>2, PublishRefines, ConsumeRefines, RecoverRefines DEF Next

LEMMA InitRefines == Init => Slot!SlotInit
<1> SUFFICES ASSUME Init PROVE Slot!SlotInit
  OBVIOUS
<1>1. Cell = Slot!Empty
  BY CellNow DEF Init, CellOf, Slot!Empty, NoEvent
<1> QED
  BY <1>1 DEF Init, Slot!SlotInit, Slot!NoRecord, NoRecord, NoEvent

-----------------------------------------------------------------------------
(* The variables of ew_alert_ipc.h's callers and the records in its files   *)
(* keep their types.                                                        *)
THEOREM IpcTypeCorrect == Spec => []TypeOK
<1>1. IInv => TypeOK
  BY DEF IInv
<1> QED
  BY <1>1, Invariant, PTL

(* ew_alert_ipc_consume runs the callback at most once for a request, for   *)
(* any number of publishers and consumers, any operations that fail, and    *)
(* processes that stop between any two of them.                             *)
THEOREM NoAlertAppliedTwice == Spec => []AppliedAtMostOnce
<1>1. IInv => AppliedAtMostOnce
  BY DEF IInv, Facts, History, AppliedAtMostOnce
<1> QED
  BY <1>1, Invariant, PTL

(* The acknowledgement that a publisher of ew_alert_ipc.h reads says what   *)
(* the callback returned for that request.                                  *)
THEOREM AcknowledgementTrue == Spec => []AckIsTrue
<1>1. IInv => AckIsTrue
  BY DEF IInv, Facts, Records, Truthful, AckIsTrue
<1> QED
  BY <1>1, Invariant, PTL

(* A request whose publication succeeded waits in a file until it was       *)
(* applied, unless an operator recovers the directory.                      *)
THEOREM AcceptedRequestKept == Spec => []NoRequestLost
<1>1. IInv => NoRequestLost
  BY DEF IInv, Facts
<1> QED
  BY <1>1, Invariant, PTL

(* When a claimed request can always be read, the directory of files is the *)
(* one-cell mailbox of AlertSlot, whatever else fails.                      *)
THEOREM FilesAreAMailbox ==
  ASSUME "request" \notin Failing
  PROVE  Spec => ImplementsSlot
<1>1. Init => Slot!SlotInit
  BY InitRefines
<1>2. IInv /\ IInv' /\ [Next]_vars => [Slot!SlotNext]_(Slot!slotVars)
  BY StepRefines
<1> QED
  BY <1>1, <1>2, Invariant, PTL DEF Spec, ImplementsSlot, Slot!SlotSpec
=============================================================================
