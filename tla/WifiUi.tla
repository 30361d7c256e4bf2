------------------------------- MODULE WifiUi -------------------------------
(***************************************************************************)
(* The Wi-Fi page of ew_wifi_ui.c, run by the UI loop, and the thread of   *)
(* its one background job, run beside it on the operations of WifiAt.  The *)
(* network and the password of a join are static buffers of the page: the  *)
(* callbacks write them and the job's thread reads them through pointers.  *)
(***************************************************************************)
EXTENDS WifiAt, Sequences

CONSTANT Open   (* The networks that need no password. *)

ASSUME PageAssumption ==
  /\ Open \subseteq Nets
  /\ Scans \subseteq Seq(Nets)

VARIABLES
  onPage,  \* the page is built
  popup,   \* g_pw_layer is shown
  rows,    \* the networks that the list shows
  aps,     \* g_aps, g_ap_count
  job,     \* g_job
  done     \* g_job_done

page == <<onPage, popup, rows>>
handover == <<aps, job, done>>
vars == <<atVars, page, handover>>

Jobs == {"status", "scan", "join", "forget"}

(* One type invariant for the page and the operations. *)
TypeOK ==
  /\ AtTypeOK
  /\ onPage \in BOOLEAN /\ popup \in BOOLEAN /\ done \in BOOLEAN
  /\ rows \in Scans \cup {<<>>} /\ aps \in Scans \cup {<<>>}
  /\ job \in Jobs \cup {"idle"}

Init ==
  /\ AtInit
  /\ onPage = FALSE /\ popup = FALSE /\ done = FALSE
  /\ rows = <<>> /\ aps = <<>>
  /\ job = "idle"

-----------------------------------------------------------------------------
(* Starting a job. *)

TaskOf(j) == IF j = "status" THEN "probe" ELSE j

(* Fault: a job may be started beside another. *)
JobStartAnyway(j, strings) ==
  \/ /\ job' = j /\ done' = FALSE
     /\ Call(Job, TaskOf(j))
     /\ arg' = [arg EXCEPT ![Job] = strings]
  \/ /\ job' = j /\ done' = TRUE
     /\ arg' = [arg EXCEPT ![Job] = [strings EXCEPT !.pass = NoPass]]
     /\ UNCHANGED <<pc, task>>

(* job_start, called with the static strings just set to these.  Nothing is *)
(* started beside another job; without a thread the job is done at once and *)
(* the password wiped.                                                      *)
JobStart(j, strings) ==
  \/ /\ job # "idle"
     /\ arg' = [arg EXCEPT ![Job] = strings]
     /\ UNCHANGED <<job, done, pc, task>>
  \/ /\ job = "idle"
     /\ job' = j /\ done' = FALSE
     /\ Call(Job, TaskOf(j))
     /\ arg' = [arg EXCEPT ![Job] = strings]
  \/ /\ job = "idle"
     /\ job' = j /\ done' = TRUE
     /\ arg' = [arg EXCEPT ![Job] = [strings EXCEPT !.pass = NoPass]]
     /\ UNCHANGED <<pc, task>>

callLocals == <<sent, got, found, rc>>

(* The list and the buttons lie under the password layer. *)
Free == onPage /\ ~popup

(* ap_clicked_cb, on a row that shows rows[i], goes by g_aps. *)
ClickRow(i) ==
  /\ Free
  /\ i \in DOMAIN rows \cap DOMAIN aps
  /\ IF aps[i] \in Open
       THEN JobStart("join", [net |-> aps[i], pass |-> NoPass]) /\ UNCHANGED popup
       ELSE /\ popup' = TRUE
            /\ arg' = [arg EXCEPT ![Job].net = aps[i]]
            /\ UNCHANGED <<job, done, pc, task>>
  /\ UNCHANGED <<locks, callLocals, stores, onPage, rows, aps>>

(* manual_cb: the layer for a network to be typed. *)
Manual ==
  /\ Free
  /\ popup' = TRUE
  /\ arg' = [arg EXCEPT ![Job].net = NoNet]
  /\ UNCHANGED <<locks, pc, task, callLocals, stores, onPage, rows, handover>>

(* pw_connect_cb, by the button or by a remote key; of a selected network   *)
(* only the password is typed.                                              *)
PwConnect(net, pass) ==
  /\ popup
  /\ arg[Job].net \in {NoNet, net}
  /\ popup' = FALSE
  /\ JobStart("join", [net |-> net, pass |-> pass])
  /\ UNCHANGED <<locks, callLocals, stores, onPage, rows, aps>>

PwCancel ==
  /\ popup
  /\ popup' = FALSE
  /\ UNCHANGED <<atVars, onPage, rows, handover>>

(* scan_cb: its button is disabled while a job runs. *)
Scan ==
  /\ Free /\ job = "idle"
  /\ JobStart("scan", arg[Job])
  /\ UNCHANGED <<locks, callLocals, stores, page, aps>>

Forget ==
  /\ Free
  /\ JobStart("forget", arg[Job])
  /\ UNCHANGED <<locks, callLocals, stores, page, aps>>

-----------------------------------------------------------------------------
(* The page's life. *)

Build ==
  /\ ~onPage
  /\ onPage' = TRUE /\ popup' = FALSE /\ rows' = aps
  /\ JobStart("status", arg[Job])
  /\ UNCHANGED <<locks, callLocals, stores, aps>>

(* Fault: the list keeps the networks it shows. *)
TickWithoutRefresh ==
  /\ onPage /\ done
  /\ done' = FALSE /\ job' = "idle"
  /\ UNCHANGED <<atVars, page, aps>>

Tick ==
  /\ onPage /\ done
  /\ done' = FALSE /\ job' = "idle"
  /\ rows' = aps
  /\ UNCHANGED <<atVars, onPage, popup, aps>>

(* The job, if there is one, runs on; its password is wiped under it. *)
Teardown ==
  /\ onPage
  /\ onPage' = FALSE /\ popup' = FALSE /\ rows' = <<>>
  /\ arg' = [arg EXCEPT ![Job].pass = NoPass]
  /\ UNCHANGED <<locks, pc, task, callLocals, stores, handover>>

-----------------------------------------------------------------------------
(* job_thread, after the operation that it called. *)

(* Its last step: the done flag, and for a join the password. *)
JobFinishes(strings) ==
  /\ Resume(Job)
  /\ done' = TRUE
  /\ arg' = [arg EXCEPT ![Job] = strings]
  /\ UNCHANGED <<locks, stores, page, aps, job>>

JoinEnds ==
  /\ job = "join"
  /\ JobFinishes([arg[Job] EXCEPT !.pass = NoPass])

ForgetOrStatusEnds ==
  /\ job \in {"forget", "status"}
  /\ JobFinishes(arg[Job])

(* A scan that found its networks goes on to look at the link. *)
ScanFound ==
  /\ job = "scan" /\ task[Job] = "scan" /\ rc[Job] = "ok"
  /\ pc[Job] = "ret"
  /\ aps' = got[Job]
  /\ Call(Job, "probe")
  /\ Drop(Job)
  /\ UNCHANGED <<locks, arg, stores, page, job, done>>

(* Fault: the early return of a failed scan says nothing. *)
ScanEndsSilently ==
  /\ job = "scan" /\ (task[Job] = "scan" => rc[Job] = "failed")
  /\ Resume(Job)
  /\ done' = (task[Job] = "probe")
  /\ UNCHANGED <<locks, arg, stores, page, aps, job>>

ScanEnds ==
  /\ job = "scan" /\ (task[Job] = "scan" => rc[Job] = "failed")
  /\ JobFinishes(arg[Job])

JobThread ==
  \/ CallStep(Job) /\ UNCHANGED <<page, handover>>
  \/ JoinEnds \/ ForgetOrStatusEnds \/ ScanFound \/ ScanEnds

Worker(w) ==
  /\ \/ CallStep(w) \/ WorkerReturns(w)
     \/ \E t \in Tasks : WorkerCalls(w, t)
  /\ UNCHANGED <<page, handover>>

User ==
  \/ \E i \in DOMAIN rows : ClickRow(i)
  \/ Manual \/ PwCancel \/ Scan \/ Forget \/ Build \/ Teardown
  \/ \E net \in Nets, pass \in Passes : PwConnect(net, pass)

Next == User \/ Tick \/ JobThread \/ \E w \in Workers : Worker(w)

(* The threads run and every AT exchange has a time-out; the UI loop ticks. *)
Spec == Init /\ [][Next]_vars /\ WF_vars(JobThread) /\ WF_vars(Tick)

-----------------------------------------------------------------------------
(* Properties. *)

(* There is a thread exactly while the page has a job that is not done, so  *)
(* that no second thread ever writes the handover variables, and no done    *)
(* flag is left over for the job that comes next.                           *)
OneJob ==
  /\ pc[Job] # "idle" <=> job # "idle" /\ ~done
  /\ done => job # "idle"

(* While no job runs a row shows the network that a click on it would join. *)
IdleRowsAreCurrent == onPage /\ job = "idle" => rows = aps

(* A job never locks the page up: while the user stays, it ends, whatever   *)
(* the modem answers and whoever else holds it.                             *)
JobSettles == onPage /\ job # "idle" ~> job = "idle" \/ ~onPage
=============================================================================
