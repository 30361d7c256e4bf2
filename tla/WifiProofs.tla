----------------------------- MODULE WifiProofs -----------------------------
(* Proofs about the Wi-Fi page and the modem it shares, for any number of   *)
(* callers, networks, passwords and scan results.                           *)
EXTENDS WifiUi, TLAPS

-----------------------------------------------------------------------------
(* What the locks depend on. *)

(* Where a call is, and for what. *)
ControlOK ==
  /\ pc \in [Clients -> Places]
  /\ task \in [Clients -> Tasks]

(* Only a scan lists, and a scan makes no other exchange and publishes and  *)
(* stores nothing.                                                          *)
ScanPlaces == {"list", "unscan"}
OtherPlaces == {"look", "ask", "query", "quit", "connect", "body", "command",
                "load", "save", "unlink", "publish"}

PlaceSuitsTask ==
  \A c \in Clients : /\ pc[c] \in ScanPlaces => task[c] = "scan"
                     /\ pc[c] \in OtherPlaces => task[c] # "scan"

LockInv == ControlOK /\ PlaceSuitsTask /\ HolderTalks
IInv == LockInv /\ OneJob

(* Where a call for t that stands at p holds the scan lock. *)
Scanning(t, p) == t = "scan" /\ p \in Exchanges \cup {"begin", "unscan"}

(* A step of one call from one place to another that takes a lock only when *)
(* it is free, and then has each lock exactly where it should.              *)
Move(c, from, to) ==
  /\ Goto(c, from, to)
  /\ task' \in [Clients -> Tasks]
  /\ \A d \in Clients \ {c} : task'[d] = task[d]
  /\ to \in ScanPlaces => task'[c] = "scan"
  /\ to \in OtherPlaces => task'[c] # "scan"
  /\ to \in Exchanges => from \in Exchanges \/ mu = Nobody
  /\ mu' = IF to \in Exchanges THEN c
           ELSE IF from \in Exchanges THEN Nobody ELSE mu
  /\ Scanning(task'[c], to) => Scanning(task[c], from) \/ scanMu = Nobody
  /\ scanMu' = IF Scanning(task'[c], to) THEN c
               ELSE IF Scanning(task[c], from) THEN Nobody ELSE scanMu

(* Such a step keeps the locks in order. *)
LEMMA MoveKeepsLocks ==
  ASSUME LockInv,
         NEW c \in Clients, NEW from \in Places, NEW to \in Places,
         Move(c, from, to)
  PROVE  LockInv'
<1> USE DEF LockInv, ControlOK, Move
<1>1. /\ pc[c] = from /\ pc'[c] = to
      /\ \A d \in Clients \ {c} : pc'[d] = pc[d]
      /\ pc' \in [Clients -> Places]
  BY DEF Goto
<1>2. PlaceSuitsTask'
  BY <1>1 DEF PlaceSuitsTask
<1>3. \A d \in Clients : mu' = d <=> pc'[d] \in Exchanges
  BY <1>1, WifiAssumption DEF HolderTalks
<1>4. \A d \in Clients : scanMu = d <=> Scanning(task[d], pc[d])
  BY DEF HolderTalks, Scanning
<1>5. \A d \in Clients : scanMu' = d <=> Scanning(task'[d], pc'[d])
  <2> HIDE DEF LockInv
  <2>1. CASE Scanning(task'[c], to)
    BY <1>1, <1>4, <2>1, WifiAssumption
  <2>2. CASE ~Scanning(task'[c], to) /\ Scanning(task[c], from)
    BY <1>1, <1>4, <2>2, WifiAssumption
  <2>3. CASE ~Scanning(task'[c], to) /\ ~Scanning(task[c], from)
    BY <1>1, <1>4, <2>3, WifiAssumption
  <2>4. QED
    BY <2>1, <2>2, <2>3
<1>6. HolderTalks'
  BY <1>3, <1>5 DEF HolderTalks, Scanning
<1>7. QED
  BY <1>1, <1>2, <1>6

(* A step that moves no call leaves the locks alone. *)
LEMMA StillKeepsLocks ==
  ASSUME LockInv, UNCHANGED <<mu, scanMu, pc, task>>
  PROVE  LockInv'
BY DEF LockInv, ControlOK, PlaceSuitsTask, HolderTalks

-----------------------------------------------------------------------------
(* The steps of a call. *)

(* Every step of a call moves it from one place to another. *)
LEMMA CallMoves ==
  ASSUME LockInv, NEW c \in Clients, CallStep(c)
  PROVE  \E from, to \in Places \ {"idle"} : Move(c, from, to)
<1>1. /\ mu = c <=> pc[c] \in Exchanges
      /\ scanMu = c <=> Scanning(task[c], pc[c])
      /\ pc[c] \in ScanPlaces => task[c] = "scan"
      /\ pc[c] \in OtherPlaces => task[c] # "scan"
      /\ task \in [Clients -> Tasks]
  BY DEF LockInv, ControlOK, PlaceSuitsTask, HolderTalks, Scanning
<1>2. /\ AfterFailure(c) \in {"unscan", "ret"}
      /\ AfterFailure(c) = "unscan" <=> task[c] = "scan"
  BY DEF AfterFailure
<1>3. /\ FirstExchange[task[c]] \in {"look", "list", "ask", "quit", "connect",
                                  "command"}
      /\ FirstExchange[task[c]] = "list" <=> task[c] = "scan"
  BY <1>1 DEF FirstExchange, Tasks
<1> USE DEF Goto, locks, stores, Exchanges, ScanPlaces, OtherPlaces, Scanning
<1>4. CASE Enter(c)
  <2>1. Move(c, "enter", "begin")
    BY <1>1, <1>2, <1>3, <1>4 DEF Enter, Move
  <2>2. QED
    BY <1>2, <1>3, <2>1 DEF Places
<1>5. CASE JoinNothing(c)
  <2>1. Move(c, "enter", "ret")
    BY <1>1, <1>2, <1>3, <1>5 DEF JoinNothing, Returns, Move
  <2>2. QED
    BY <1>2, <1>3, <2>1 DEF Places
<1>6. CASE ScanCached(c)
  <2>1. Move(c, "enter", "ret")
    BY <1>1, <1>2, <1>3, <1>6 DEF ScanCached, Returns, Move
  <2>2. QED
    BY <1>2, <1>3, <2>1 DEF Places
<1>7. CASE ScanLock(c)
  <2>1. Move(c, "enter", "begin")
    BY <1>1, <1>2, <1>3, <1>7 DEF ScanLock, Move
  <2>2. QED
    BY <1>2, <1>3, <2>1 DEF Places
<1>8. CASE ScanBusy(c)
  <2>1. Move(c, "enter", "ret")
    BY <1>1, <1>2, <1>3, <1>8 DEF ScanBusy, Returns, Move
  <2>2. QED
    BY <1>2, <1>3, <2>1 DEF Places
<1>9. CASE Begin(c)
  <2>1. Move(c, "begin", "wake")
    BY <1>1, <1>2, <1>3, <1>9 DEF Begin, Move
  <2>2. QED
    BY <1>2, <1>3, <2>1 DEF Places
<1>10. CASE BeginBusy(c)
  <2>1. Move(c, "begin", AfterFailure(c))
    BY <1>1, <1>2, <1>3, <1>10 DEF BeginBusy, FailsFrom, Move
  <2>2. QED
    BY <1>2, <1>3, <2>1 DEF Places
<1>11. CASE BeginFails(c)
  <2>1. Move(c, "begin", AfterFailure(c))
    BY <1>1, <1>2, <1>3, <1>11 DEF BeginFails, FailsFrom, Move
  <2>2. QED
    BY <1>2, <1>3, <2>1 DEF Places
<1>12. CASE Wake(c)
  <2>1. Move(c, "wake", FirstExchange[task[c]])
    BY <1>1, <1>2, <1>3, <1>12 DEF Wake, Move
  <2>2. QED
    BY <1>2, <1>3, <2>1 DEF Places
<1>13. CASE WakeFails(c)
  <2>1. Move(c, "wake", AfterFailure(c)) \/ Move(c, "wake", "publish")
    BY <1>1, <1>2, <1>3, <1>13 DEF WakeFails, FailsFrom, AtEnd, Move
  <2>2. QED
    BY <1>2, <1>3, <2>1 DEF Places
<1>14. CASE \E l \in {"idle", "joined"} : Look(c, l)
  <2>1. Move(c, "look", "publish")
    BY <1>1, <1>2, <1>3, <1>14 DEF Look, AtEnd, Move
  <2>2. QED
    BY <1>2, <1>3, <2>1 DEF Places
<1>15. CASE Publish(c)
  <2>1. Move(c, "publish", "load") \/ Move(c, "publish", "ret")
    BY <1>1, <1>2, <1>3, <1>15 DEF Publish, Move
  <2>2. QED
    BY <1>2, <1>3, <2>1 DEF Places
<1>16. CASE BringupLoads(c)
  <2>1. Move(c, "load", "enter") \/ Move(c, "load", "ret")
    BY <1>1, <1>2, <1>3, <1>16 DEF BringupLoads, Move, Tasks
  <2>2. QED
    BY <1>2, <1>3, <2>1 DEF Places
<1>17. CASE \E s \in Scans : List(c, s)
  <2>1. Move(c, "list", "unscan")
    BY <1>1, <1>2, <1>3, <1>17 DEF List, AtEnd, Move
  <2>2. QED
    BY <1>2, <1>3, <2>1 DEF Places
<1>18. CASE ListFails(c)
  <2>1. Move(c, "list", AfterFailure(c))
    BY <1>1, <1>2, <1>3, <1>18 DEF ListFails, FailsFrom, AtEnd, Move
  <2>2. QED
    BY <1>2, <1>3, <2>1 DEF Places
<1>19. CASE Unscan(c)
  <2>1. Move(c, "unscan", "ret")
    BY <1>1, <1>2, <1>3, <1>19 DEF Unscan, Move
  <2>2. QED
    BY <1>2, <1>3, <2>1 DEF Places
<1>20. CASE Ask(c)
  <2>1. Move(c, "ask", "query")
    BY <1>1, <1>2, <1>3, <1>20 DEF Ask, Move
  <2>2. QED
    BY <1>2, <1>3, <2>1 DEF Places
<1>21. CASE AskFails(c)
  <2>1. Move(c, "ask", AfterFailure(c))
    BY <1>1, <1>2, <1>3, <1>21 DEF AskFails, FailsFrom, AtEnd, Move
  <2>2. QED
    BY <1>2, <1>3, <2>1 DEF Places
<1>22. CASE Query(c)
  <2>1. Move(c, "query", "save")
    BY <1>1, <1>2, <1>3, <1>22 DEF Query, AtEnd, Move
  <2>2. QED
    BY <1>2, <1>3, <2>1 DEF Places
<1>23. CASE Save(c)
  <2>1. Move(c, "save", "publish")
    BY <1>1, <1>2, <1>3, <1>23 DEF Save, Move
  <2>2. QED
    BY <1>2, <1>3, <2>1 DEF Places
<1>24. CASE Quit(c)
  <2>1. Move(c, "quit", "unlink")
    BY <1>1, <1>2, <1>3, <1>24 DEF Quit, AtEnd, Move
  <2>2. QED
    BY <1>2, <1>3, <2>1 DEF Places
<1>25. CASE QuitFails(c)
  <2>1. Move(c, "quit", AfterFailure(c))
    BY <1>1, <1>2, <1>3, <1>25 DEF QuitFails, FailsFrom, AtEnd, Move
  <2>2. QED
    BY <1>2, <1>3, <2>1 DEF Places
<1>26. CASE Unlink(c)
  <2>1. Move(c, "unlink", "publish") \/ Move(c, "unlink", "ret")
    BY <1>1, <1>2, <1>3, <1>26 DEF Unlink, Returns, Move
  <2>2. QED
    BY <1>2, <1>3, <2>1 DEF Places
<1>27. CASE Connect(c)
  <2>1. Move(c, "connect", "body")
    BY <1>1, <1>2, <1>3, <1>27 DEF Connect, Move
  <2>2. QED
    BY <1>2, <1>3, <2>1 DEF Places
<1>28. CASE PostFails(c)
  <2>1. Move(c, "connect", AfterFailure(c))
    BY <1>1, <1>2, <1>3, <1>28 DEF PostFails, FailsFrom, AtEnd, Move
  <2>2. QED
    BY <1>2, <1>3, <2>1 DEF Places
<1>29. CASE \E r \in {"ok", "failed"} : Body(c, r)
  <2>1. Move(c, "body", "ret")
    BY <1>1, <1>2, <1>3, <1>29 DEF Body, Returns, AtEnd, Move
  <2>2. QED
    BY <1>2, <1>3, <2>1 DEF Places
<1>30. CASE \E r \in {"ok", "failed"} : Command(c, r)
  <2>1. Move(c, "command", "ret")
    BY <1>1, <1>2, <1>3, <1>30 DEF Command, Returns, AtEnd, Move
  <2>2. QED
    BY <1>2, <1>3, <2>1 DEF Places
<1>31. QED
  BY <1>4, <1>5, <1>6, <1>7, <1>8, <1>9, <1>10, <1>11, <1>12, <1>13, <1>14,
     <1>15, <1>16, <1>17, <1>18, <1>19, <1>20, <1>21, <1>22, <1>23, <1>24,
     <1>25, <1>26, <1>27, <1>28, <1>29, <1>30
  DEF CallStep

(* So it keeps the whole invariant, whoever makes the call: a call that has *)
(* begun is not over by itself.                                             *)
LEMMA CallKeepsInv ==
  ASSUME IInv, NEW c \in Clients, CallStep(c), UNCHANGED <<page, handover>>
  PROVE  IInv'
<1>1. PICK from \in Places \ {"idle"}, to \in Places \ {"idle"} : Move(c, from, to)
  BY CallMoves DEF IInv
<1>2. LockInv'
  BY <1>1, MoveKeepsLocks DEF IInv
<1>3. pc[Job] # "idle" <=> pc'[Job] # "idle"
  BY <1>1 DEF Move, Goto, IInv, LockInv, ControlOK, Clients
<1>4. OneJob'
  BY <1>3 DEF IInv, OneJob, handover
<1>5. QED
  BY <1>2, <1>4 DEF IInv

(* Starting a job while another one runs does nothing; otherwise the job's  *)
(* thread is not in a call, and begins one or does not come to exist.       *)
LEMMA StartKeepsInv ==
  ASSUME IInv, NEW j \in Jobs, NEW strings, JobStart(j, strings),
         UNCHANGED locks
  PROVE  IInv'
<1>1. CASE UNCHANGED <<pc, task, job, done>>
  BY <1>1, StillKeepsLocks DEF IInv, OneJob, locks
<1>2. CASE job = "idle" /\ job' = j /\ done' = FALSE /\ Call(Job, TaskOf(j))
  <2>1. pc[Job] = "idle" /\ TaskOf(j) \in Tasks
    BY <1>2 DEF IInv, OneJob, TaskOf, Jobs, Tasks
  <2>2. Move(Job, "idle", "enter")
    BY <1>2, <2>1
    DEF Call, Move, Goto, IInv, LockInv, ControlOK, locks, Exchanges,
        ScanPlaces, OtherPlaces, Scanning, Clients
  <2>3. LockInv'
    BY <2>2, MoveKeepsLocks DEF IInv, Places, Clients
  <2>4. pc'[Job] = "enter"
    BY <2>2 DEF Move, Goto, IInv, LockInv, ControlOK, Clients
  <2>5. QED
    BY <1>2, <2>3, <2>4 DEF IInv, OneJob, Jobs
<1>3. CASE job = "idle" /\ job' = j /\ done' = TRUE /\ UNCHANGED <<pc, task>>
  BY <1>3, StillKeepsLocks DEF IInv, OneJob, locks, Jobs
<1>4. QED
  BY <1>1, <1>2, <1>3 DEF JobStart

(* A step that touches neither the job nor a call. *)
LEMMA StillKeepsInv ==
  ASSUME IInv, UNCHANGED <<mu, scanMu, pc, task, job, done>>
  PROVE  IInv'
BY StillKeepsLocks DEF IInv, OneJob

-----------------------------------------------------------------------------
(* The invariant. *)

(* What the user does. *)
LEMMA UserKeepsInv == ASSUME IInv, User PROVE IInv'
<1>1. ASSUME NEW i \in DOMAIN rows, ClickRow(i) PROVE IInv'
  <2>1. CASE aps[i] \in Open
    BY <1>1, <2>1, StartKeepsInv DEF ClickRow, Jobs
  <2>2. CASE aps[i] \notin Open
    BY <1>1, <2>2, StillKeepsInv DEF ClickRow, locks
  <2>3. QED
    BY <2>1, <2>2
<1>2. CASE Manual
  BY <1>2, StillKeepsInv DEF Manual, locks, handover
<1>3. CASE PwCancel
  BY <1>3, StillKeepsInv DEF PwCancel, atVars, locks, calls, handover
<1>4. CASE Scan
  BY <1>4, StartKeepsInv DEF Scan, Jobs
<1>5. CASE Forget
  BY <1>5, StartKeepsInv DEF Forget, Jobs
<1>6. CASE Build
  BY <1>6, StartKeepsInv DEF Build, Jobs
<1>7. CASE Teardown
  BY <1>7, StillKeepsInv DEF Teardown, locks, handover
<1>8. ASSUME NEW net \in Nets, NEW pass \in Passes, PwConnect(net, pass)
      PROVE  IInv'
  BY <1>8, StartKeepsInv DEF PwConnect, Jobs
<1>9. QED
  BY <1>1, <1>2, <1>3, <1>4, <1>5, <1>6, <1>7, <1>8 DEF User

(* The UI loop takes a finished job's place back only when no thread runs.  *)
LEMMA TickKeepsInv == ASSUME IInv, Tick PROVE IInv'
<1>1. LockInv'
  BY StillKeepsLocks DEF Tick, IInv, atVars, locks, calls
<1>2. OneJob'
  BY DEF Tick, IInv, OneJob, atVars, calls
<1>3. QED
  BY <1>1, <1>2 DEF IInv

(* The last step of the job's thread. *)
LEMMA FinishKeepsInv ==
  ASSUME IInv, NEW strings, JobFinishes(strings)
  PROVE  IInv'
<1>1. Move(Job, "ret", "idle")
  BY DEF JobFinishes, Resume, Move, Goto, IInv, LockInv, ControlOK, locks,
         Exchanges, ScanPlaces, OtherPlaces, Scanning, Tasks, Clients
<1>2. LockInv'
  BY <1>1, MoveKeepsLocks DEF IInv, Places, Clients
<1>3. pc[Job] # "idle" /\ pc'[Job] = "idle"
  BY <1>1 DEF Move, Goto, IInv, LockInv, ControlOK, Clients
<1>4. QED
  BY <1>2, <1>3 DEF IInv, OneJob, JobFinishes

(* What the job's thread does: its call, and what it leaves for the page.   *)
LEMMA JobKeepsInv == ASSUME IInv, JobThread PROVE IInv'
<1>1. CASE CallStep(Job) /\ UNCHANGED <<page, handover>>
  BY <1>1, CallKeepsInv DEF Clients
<1>2. CASE JoinEnds \/ ForgetOrStatusEnds \/ ScanEnds
  BY <1>2, FinishKeepsInv DEF JoinEnds, ForgetOrStatusEnds, ScanEnds
<1>3. CASE ScanFound
  <2>1. Move(Job, "ret", "enter")
    BY <1>3
    DEF ScanFound, Call, Move, Goto, IInv, LockInv, ControlOK, locks, Exchanges,
        ScanPlaces, OtherPlaces, Scanning, Tasks, Clients
  <2>2. LockInv'
    BY <2>1, MoveKeepsLocks DEF IInv, Places, Clients
  <2>3. pc[Job] # "idle" /\ pc'[Job] # "idle"
    BY <2>1 DEF Move, Goto, IInv, LockInv, ControlOK, Clients
  <2>4. QED
    BY <1>3, <2>2, <2>3 DEF IInv, OneJob, ScanFound
<1>4. QED
  BY <1>1, <1>2, <1>3 DEF JobThread

(* The other callers never touch the job. *)
LEMMA WorkerKeepsInv ==
  ASSUME IInv, NEW w \in Workers, Worker(w)
  PROVE  IInv'
<1>1. w \in Clients /\ w # Job
  BY WifiAssumption DEF Clients
<1>2. CASE CallStep(w)
  BY <1>1, <1>2, CallKeepsInv DEF Worker
<1>3. CASE WorkerReturns(w) \/ \E t \in Tasks : WorkerCalls(w, t)
  <2>1. Move(w, "ret", "idle") \/ Move(w, "idle", "enter")
    BY <1>1, <1>3
    DEF WorkerReturns, Resume, WorkerCalls, Call, Move, Goto, IInv, LockInv,
        ControlOK, locks, Exchanges, ScanPlaces, OtherPlaces, Scanning, Tasks
  <2>2. LockInv'
    BY <1>1, <2>1, MoveKeepsLocks DEF IInv, Places
  <2>3. pc'[Job] = pc[Job]
    BY <1>1, <2>1 DEF Move, Goto, IInv, LockInv, ControlOK, Clients
  <2>4. QED
    BY <2>2, <2>3 DEF IInv, OneJob, Worker, handover
<1>4. QED
  BY <1>2, <1>3 DEF Worker

(* The invariant holds of every reachable state. *)
THEOREM PageInvariant == Spec => []IInv
<1>1. Init => IInv
  <2> SUFFICES ASSUME Init PROVE IInv
    OBVIOUS
  <2>1. /\ pc = [c \in Clients |-> "idle"] /\ task = [c \in Clients |-> "probe"]
        /\ mu = Nobody /\ scanMu = Nobody
        /\ job = "idle" /\ done = FALSE
    BY DEF Init, AtInit
  <2>2. Job \in Clients /\ Nobody \notin Clients
    BY WifiAssumption DEF Clients
  <2>3. LockInv
    BY <2>1, <2>2
    DEF LockInv, ControlOK, PlaceSuitsTask, HolderTalks, Places, Exchanges, Tasks,
        ScanPlaces, OtherPlaces
  <2>4. OneJob
    BY <2>1, <2>2 DEF OneJob
  <2>5. QED
    BY <2>3, <2>4 DEF IInv
<1>2. IInv /\ [Next]_vars => IInv'
  <2>1. ASSUME IInv, UNCHANGED vars PROVE IInv'
    BY <2>1, StillKeepsInv DEF vars, atVars, locks, calls, handover
  <2>2. QED
    BY <2>1, UserKeepsInv, TickKeepsInv, JobKeepsInv, WorkerKeepsInv DEF Next
<1>3. QED
  BY <1>1, <1>2, PTL DEF Spec

(* The modem and the scan lock are held exactly by the call that uses them, *)
(* for any number of callers: no failing exit keeps a lock and no two calls *)
(* talk to the modem at once.                                               *)
THEOREM ModemHasOneUser == Spec => []HolderTalks
<1>1. IInv => HolderTalks
  BY DEF IInv, LockInv
<1>2. QED
  BY <1>1, PageInvariant, PTL

(* The page never has two job threads, and never takes the done flag of one *)
(* job for that of the next.                                                *)
THEOREM OneJobAtATime == Spec => []OneJob
<1>1. IInv => OneJob
  BY DEF IInv
<1>2. QED
  BY <1>1, PageInvariant, PTL

-----------------------------------------------------------------------------
(* What the list shows. *)

(* A step of the user ends no job, and shows the networks of g_aps.         *)
LEMMA UserKeepsRows ==
  ASSUME IdleRowsAreCurrent, User
  PROVE  IdleRowsAreCurrent'
<1>1. aps' = aps
  BY DEF User, ClickRow, Manual, PwCancel, Scan, Forget, Build, Teardown,
         PwConnect, handover
<1>2. Build => rows' = aps
  BY DEF Build
<1>3. onPage' => Build \/ (onPage /\ rows' = rows)
  BY DEF User, ClickRow, Manual, PwCancel, Scan, Forget, Teardown, PwConnect,
         page
<1>4. job' = "idle" => job = "idle"
  BY DEF User, ClickRow, Manual, PwCancel, Scan, Forget, Build, Teardown,
         PwConnect, JobStart, handover
<1> QED
  BY <1>1, <1>2, <1>3, <1>4 DEF IdleRowsAreCurrent

(* Only a job's thread changes g_aps, and no thread ends its job itself.    *)
LEMMA ThreadsKeepRows ==
  ASSUME IdleRowsAreCurrent,
         JobThread \/ \E w \in Workers : Worker(w)
  PROVE  IdleRowsAreCurrent'
<1>1. /\ onPage' = onPage /\ rows' = rows /\ job' = job
      /\ aps' = aps \/ job # "idle"
  BY DEF JobThread, JoinEnds, ForgetOrStatusEnds, ScanFound, ScanEnds,
         JobFinishes, Worker, page, handover
<1> QED
  BY <1>1 DEF IdleRowsAreCurrent

(* The list of the page and g_aps agree whenever no job runs, for any       *)
(* results of a scan: a tap joins the network whose row it hit.             *)
THEOREM RowsAreWhatTheyJoin == Spec => []IdleRowsAreCurrent
<1>1. Init => IdleRowsAreCurrent
  BY DEF Init, IdleRowsAreCurrent
<1>2. IdleRowsAreCurrent /\ [Next]_vars => IdleRowsAreCurrent'
  <2>1. ASSUME IdleRowsAreCurrent, UNCHANGED vars PROVE IdleRowsAreCurrent'
    BY <2>1 DEF IdleRowsAreCurrent, vars, page, handover
  <2>2. ASSUME IdleRowsAreCurrent, Tick PROVE IdleRowsAreCurrent'
    BY <2>2 DEF IdleRowsAreCurrent, Tick
  <2> QED
    BY <2>1, <2>2, UserKeepsRows, ThreadsKeepRows DEF Next
<1> QED
  BY <1>1, <1>2, PTL DEF Spec

-----------------------------------------------------------------------------
(* The types of the strings, results and stores. *)

DataOK ==
  /\ mu \in Clients \cup {Nobody} /\ scanMu \in Clients \cup {Nobody}
  /\ arg \in [Clients -> Strings]
  /\ sent \in [Clients -> Strings]
  /\ got \in [Clients -> Scans \cup {NoScan}]
  /\ found \in [Clients -> LinkStates]
  /\ rc \in [Clients -> {"ok", "failed"}]
  /\ conf \in Strings
  /\ link \in LinkStates
  /\ cache \in Scans \cup {NoScan}

(* A worker's join is always of a network, given or loaded. *)
WorkersName ==
  \A w \in Workers : task[w] = "join" /\ pc[w] # "idle" => arg[w] \in Creds

(* A scan that succeeded has a result. *)
ScansHaveResults ==
  \A c \in Clients :
    task[c] = "scan" /\ pc[c] \in {"unscan", "ret"} /\ rc[c] = "ok"
      => got[c] \in Scans

DataInv == DataOK /\ WorkersName /\ ScansHaveResults

(* A step of the call of c touches the data of no other call. *)
Others(c) ==
  \A d \in Clients \ {c} :
    /\ pc'[d] = pc[d] /\ task'[d] = task[d] /\ arg'[d] = arg[d]
    /\ got'[d] = got[d] /\ rc'[d] = rc[d]

(* The invariant of the calls, reduced to that of one call. *)
LEMMA OneCallKeepsData ==
  ASSUME DataInv, NEW c \in Clients, Others(c), DataOK',
         c \in Workers =>
           (task'[c] = "join" /\ pc'[c] # "idle" => arg'[c] \in Creds),
         task'[c] = "scan" /\ pc'[c] \in {"unscan", "ret"} /\ rc'[c] = "ok"
           => got'[c] \in Scans
  PROVE  DataInv'
<1>1. WorkersName'
  BY DEF DataInv, WorkersName, Others, Clients
<1>2. ScansHaveResults'
  BY DEF DataInv, ScansHaveResults, Others
<1>3. QED
  BY <1>1, <1>2 DEF DataInv

LEMMA NoCredIsStrings == NoCred \in Strings
BY WifiAssumption DEF NoCred, Strings

(* Every step of a call keeps the types. *)
LEMMA CallKeepsData ==
  ASSUME LockInv, DataInv, NEW c \in Clients, CallStep(c)
  PROVE  DataInv'
<1>1. /\ pc \in [Clients -> Places] /\ task \in [Clients -> Tasks]
      /\ DataOK /\ NoCred \in Strings
      /\ c \in Workers =>
           (task[c] = "join" /\ pc[c] # "idle" => arg[c] \in Creds)
      /\ task[c] = "scan" /\ pc[c] \in {"unscan", "ret"} /\ rc[c] = "ok"
           => got[c] \in Scans
      /\ pc[c] \in ScanPlaces => task[c] = "scan"
      /\ pc[c] \in OtherPlaces => task[c] # "scan"
      /\ WorkersName
  BY NoCredIsStrings DEF LockInv, ControlOK, PlaceSuitsTask, DataInv,
     WorkersName, ScansHaveResults
<1>2. AfterFailure(c) \in {"unscan", "ret"}
  BY DEF AfterFailure
<1>3. FirstExchange[task[c]] \in Exchanges
  BY <1>1 DEF FirstExchange, Tasks, Exchanges
<1> DEFINE Good == /\ DataOK' /\ Others(c)
                   /\ c \in Workers =>
                         (task'[c] = "join" /\ pc'[c] # "idle"
                            => arg'[c] \in Creds)
                   /\ task'[c] = "scan" /\ pc'[c] \in {"unscan", "ret"}
                         /\ rc'[c] = "ok" => got'[c] \in Scans
<1> USE DEF Goto, locks, stores
<1>4. ASSUME \E l \in {"idle", "joined"} : Look(c, l)
      PROVE  Good
  BY <1>1, <1>4 DEF Look, AtEnd, DataOK, Others, LinkStates
<1>5. ASSUME \E s \in Scans : List(c, s)
      PROVE  Good
  BY <1>1, <1>5 DEF List, AtEnd, DataOK, Others
<1>6. ASSUME \E r \in {"ok", "failed"} : Body(c, r)
      PROVE  Good
  BY <1>1, <1>6 DEF Body, Returns, AtEnd, DataOK, Others, OtherPlaces
<1>7. ASSUME \E r \in {"ok", "failed"} : Command(c, r)
      PROVE  Good
  BY <1>1, <1>7 DEF Command, Returns, AtEnd, DataOK, Others, OtherPlaces
<1>8. ASSUME Enter(c)
      PROVE  Good
  BY <1>1, <1>8 DEF Enter, DataOK, Others
<1>9. ASSUME JoinNothing(c)
      PROVE  Good
  BY <1>1, <1>9 DEF JoinNothing, Returns, DataOK, Others, OtherPlaces
<1>10. ASSUME ScanCached(c)
      PROVE  Good
  BY <1>1, <1>10 DEF ScanCached, Returns, DataOK, Others, OtherPlaces
<1>11. ASSUME ScanLock(c)
      PROVE  Good
  BY <1>1, <1>11 DEF ScanLock, DataOK, Others
<1>12. ASSUME ScanBusy(c)
      PROVE  Good
  BY <1>1, <1>12 DEF ScanBusy, Returns, DataOK, Others, OtherPlaces
<1>13. ASSUME Begin(c)
      PROVE  Good
  BY <1>1, <1>13 DEF Begin, DataOK, Others
<1>14. ASSUME BeginBusy(c)
      PROVE  Good
  BY <1>1, <1>2, <1>14 DEF BeginBusy, FailsFrom, DataOK, Others
<1>15. ASSUME BeginFails(c)
      PROVE  Good
  BY <1>1, <1>2, <1>15 DEF BeginFails, FailsFrom, DataOK, Others, LinkStates
<1>16. ASSUME Wake(c)
      PROVE  Good
  BY <1>1, <1>3, <1>16 DEF Wake, DataOK, Others, Exchanges
<1>17. ASSUME WakeFails(c)
      PROVE  Good
  BY <1>1, <1>2, <1>17 DEF WakeFails, FailsFrom, AtEnd, DataOK, Others
<1>18. ASSUME Publish(c)
      PROVE  Good
  <2> DEFINE p == IF task[c] = "bringup" /\ found[c] = "idle"
                    THEN "load" ELSE "ret"
  <2>1. /\ pc' = [pc EXCEPT ![c] = p] /\ link' = found[c] /\ pc[c] = "publish"
        /\ UNCHANGED <<locks, task, arg, sent, got, found, rc, conf, cache>>
    BY <1>18 DEF Publish
  <2>2. task[c] # "scan"
    BY <1>1, <2>1 DEF OtherPlaces
  <2> HIDE DEF p
  <2>3. QED
    BY <1>1, <2>1, <2>2 DEF DataOK, Others
<1>19. ASSUME BringupLoads(c)
      PROVE  Good
  <2>1. CASE conf.net # NoNet
    <3>1. conf \in Creds
      BY <1>1, <2>1 DEF DataOK, Strings, Creds
    <3>2. QED
      BY <1>1, <1>19, <2>1, <3>1 DEF BringupLoads, DataOK, Others
  <2>2. CASE conf.net = NoNet
    BY <1>1, <1>19, <2>2 DEF BringupLoads, DataOK, Others, OtherPlaces
  <2>3. QED
    BY <2>1, <2>2
<1>20. ASSUME ListFails(c)
      PROVE  Good
  BY <1>1, <1>2, <1>20 DEF ListFails, FailsFrom, AtEnd, DataOK, Others
<1>21. ASSUME Unscan(c)
      PROVE  Good
  BY <1>1, <1>21 DEF Unscan, DataOK, Others
<1>22. ASSUME Ask(c)
      PROVE  Good
  BY <1>1, <1>22 DEF Ask, DataOK, Others
<1>23. ASSUME AskFails(c)
      PROVE  Good
  BY <1>1, <1>2, <1>23 DEF AskFails, FailsFrom, AtEnd, DataOK, Others
<1>24. ASSUME Query(c)
      PROVE  Good
  BY <1>1, <1>24 DEF Query, AtEnd, DataOK, Others, LinkStates
<1>25. ASSUME Save(c)
      PROVE  Good
  BY <1>1, <1>25 DEF Save, DataOK, Others
<1>26. ASSUME Quit(c)
      PROVE  Good
  BY <1>1, <1>26 DEF Quit, AtEnd, DataOK, Others, LinkStates
<1>27. ASSUME QuitFails(c)
      PROVE  Good
  BY <1>1, <1>2, <1>27 DEF QuitFails, FailsFrom, AtEnd, DataOK, Others
<1>28. ASSUME Unlink(c)
      PROVE  Good
  BY <1>1, <1>28 DEF Unlink, Returns, DataOK, Others, OtherPlaces
<1>29. ASSUME Connect(c)
      PROVE  Good
  BY <1>1, <1>29 DEF Connect, DataOK, Others
<1>30. ASSUME PostFails(c)
      PROVE  Good
  BY <1>1, <1>2, <1>30 DEF PostFails, FailsFrom, AtEnd, DataOK, Others
<1>31. Good
  BY <1>4, <1>5, <1>6, <1>7, <1>8, <1>9, <1>10, <1>11, <1>12, <1>13, <1>14,
     <1>15, <1>16, <1>17, <1>18, <1>19, <1>20, <1>21, <1>22, <1>23, <1>24,
     <1>25, <1>26, <1>27, <1>28, <1>29, <1>30 DEF CallStep
<1>32. QED
  BY <1>31, OneCallKeepsData

(* The page's own variables. *)
PageOK ==
  /\ onPage \in BOOLEAN /\ popup \in BOOLEAN /\ done \in BOOLEAN
  /\ rows \in Scans \cup {<<>>} /\ aps \in Scans \cup {<<>>}
  /\ job \in Jobs \cup {"idle"}

TypeInv == DataInv /\ PageOK

(* A step that touches only the job's own strings. *)
LEMMA StringsKeepData ==
  ASSUME DataInv, NEW s \in Strings, arg' = [arg EXCEPT ![Job] = s],
         UNCHANGED <<locks, pc, task, sent, got, found, rc, stores>>
  PROVE  DataInv'
<1>1. DataOK' /\ WorkersName' /\ ScansHaveResults'
  BY WifiAssumption
  DEF DataInv, DataOK, WorkersName, ScansHaveResults, locks, stores, Clients
<1>2. QED
  BY <1>1 DEF DataInv

(* The job's thread enters a call, with these strings or its own. *)
LEMMA CallKeepsJobData ==
  ASSUME LockInv, DataInv, NEW t \in Tasks, Call(Job, t), DataOK',
         arg' = [arg EXCEPT ![Job] = arg'[Job]],
         \A d \in Workers : got'[d] = got[d] /\ rc'[d] = rc[d]
  PROVE  DataInv'
<1>1. Job \in Clients /\ Job \notin Workers
  BY WifiAssumption DEF Clients
<1>2. pc'[Job] = "enter" /\ Others(Job)
  BY <1>1 DEF Call, LockInv, ControlOK, DataInv, DataOK, Others, Clients
<1>3. QED
  BY <1>1, <1>2, OneCallKeepsData

LEMMA StartKeepsTypes ==
  ASSUME LockInv, DataInv, PageOK, NEW j \in Jobs, NEW s \in Strings,
         JobStart(j, s), UNCHANGED <<locks, sent, got, found, rc, stores>>
  PROVE  DataInv' /\ job' \in Jobs \cup {"idle"} /\ done' \in BOOLEAN
<1>1. [s EXCEPT !.pass = NoPass] \in Strings
  BY WifiAssumption DEF Strings
<1>2. CASE /\ job # "idle"
           /\ arg' = [arg EXCEPT ![Job] = s]
           /\ UNCHANGED <<job, done, pc, task>>
  BY <1>2, StringsKeepData DEF PageOK
<1>3. CASE /\ job' = j /\ done' = FALSE
           /\ Call(Job, TaskOf(j))
           /\ arg' = [arg EXCEPT ![Job] = s]
  <2>1. TaskOf(j) \in Tasks
    BY DEF TaskOf, Jobs, Tasks
  <2>2. DataOK' /\ arg' = [arg EXCEPT ![Job] = arg'[Job]]
    BY <1>3 DEF DataInv, DataOK, locks, stores, Clients
  <2>3. DataInv'
    BY <1>3, <2>1, <2>2, CallKeepsJobData
  <2>4. QED
    BY <1>3, <2>3
<1>4. CASE /\ job' = j /\ done' = TRUE
           /\ arg' = [arg EXCEPT ![Job] = [s EXCEPT !.pass = NoPass]]
           /\ UNCHANGED <<pc, task>>
  BY <1>1, <1>4, StringsKeepData
<1>5. QED
  BY <1>2, <1>3, <1>4 DEF JobStart

(* What the user does. *)
LEMMA UserKeepsTypes == ASSUME LockInv, TypeInv, User PROVE TypeInv'
<1>t. /\ DataInv /\ PageOK
      /\ arg[Job] \in Strings /\ arg \in [Clients -> Strings]
      /\ Job \in Clients
      /\ aps \in Seq(Nets)
  <2>1. DataInv /\ PageOK
    BY DEF TypeInv
  <2>2. Job \in Clients
    BY DEF Clients
  <2>3. arg \in [Clients -> Strings] /\ arg[Job] \in Strings
    BY <2>1, <2>2 DEF DataInv, DataOK
  <2>4. <<>> \in Seq(Nets)
    OBVIOUS
  <2>5. aps \in Seq(Nets)
    BY <2>1, <2>4, PageAssumption DEF PageOK
  <2>6. QED
    BY <2>1, <2>2, <2>3, <2>5
<1>j. {"status", "scan", "join", "forget"} = Jobs
  BY DEF Jobs
<1>1. ASSUME NEW i \in DOMAIN rows, ClickRow(i) PROVE TypeInv'
  <2>1. aps[i] \in Nets
    BY <1>1, <1>t DEF ClickRow
  <2>2. CASE aps[i] \in Open
    <3>1. [net |-> aps[i], pass |-> NoPass] \in Strings
      BY <2>1, WifiAssumption DEF Strings
    <3>2. DataInv' /\ job' \in Jobs \cup {"idle"} /\ done' \in BOOLEAN
      BY <1>1, <1>t, <1>j, <2>2, <3>1, StartKeepsTypes
         DEF ClickRow, callLocals
    <3>3. QED
      BY <1>1, <1>t, <2>2, <3>2 DEF ClickRow, TypeInv, PageOK
  <2>3. CASE aps[i] \notin Open
    <3>1. [arg[Job] EXCEPT !.net = aps[i]] \in Strings
      BY <1>t, <2>1 DEF Strings
    <3>2. arg' = [arg EXCEPT ![Job] = [arg[Job] EXCEPT !.net = aps[i]]]
      BY <1>1, <2>3 DEF ClickRow
    <3>3. DataInv'
      BY <1>1, <1>t, <2>3, <3>1, <3>2, StringsKeepData
         DEF ClickRow, callLocals
    <3>4. QED
      BY <1>1, <1>t, <2>3, <3>3 DEF ClickRow, TypeInv, PageOK
  <2>4. QED
    BY <2>2, <2>3
<1>2. CASE Manual
  <2>1. [arg[Job] EXCEPT !.net = NoNet] \in Strings
    BY <1>t DEF Strings
  <2>2. arg' = [arg EXCEPT ![Job] = [arg[Job] EXCEPT !.net = NoNet]]
    BY <1>2 DEF Manual
  <2>3. DataInv'
    BY <1>2, <1>t, <2>1, <2>2, StringsKeepData DEF Manual, callLocals
  <2>4. QED
    BY <1>2, <1>t, <2>3 DEF Manual, TypeInv, PageOK, handover
<1>3. CASE PwCancel
  <2>1. DataInv'
    BY <1>3, <1>t DEF PwCancel, atVars, calls, locks, stores, DataInv, DataOK,
                      WorkersName, ScansHaveResults
  <2>2. QED
    BY <1>3, <1>t, <2>1 DEF PwCancel, TypeInv, PageOK, handover
<1>4. CASE Scan
  <2>1. DataInv' /\ job' \in Jobs \cup {"idle"} /\ done' \in BOOLEAN
    BY <1>4, <1>t, <1>j, StartKeepsTypes DEF Scan, callLocals
  <2>2. QED
    BY <1>4, <1>t, <2>1 DEF Scan, TypeInv, PageOK, page
<1>5. CASE Forget
  <2>1. DataInv' /\ job' \in Jobs \cup {"idle"} /\ done' \in BOOLEAN
    BY <1>5, <1>t, <1>j, StartKeepsTypes DEF Forget, callLocals
  <2>2. QED
    BY <1>5, <1>t, <2>1 DEF Forget, TypeInv, PageOK, page
<1>6. CASE Build
  <2>1. DataInv' /\ job' \in Jobs \cup {"idle"} /\ done' \in BOOLEAN
    BY <1>6, <1>t, <1>j, StartKeepsTypes DEF Build, callLocals
  <2>2. QED
    BY <1>6, <1>t, <2>1 DEF Build, TypeInv, PageOK
<1>7. CASE Teardown
  <2>1. [arg[Job] EXCEPT !.pass = NoPass] \in Strings
    BY <1>t, WifiAssumption DEF Strings
  <2>2. arg' = [arg EXCEPT ![Job] = [arg[Job] EXCEPT !.pass = NoPass]]
    BY <1>7 DEF Teardown
  <2>3. DataInv'
    BY <1>7, <1>t, <2>1, <2>2, StringsKeepData DEF Teardown, callLocals
  <2>4. QED
    BY <1>7, <1>t, <2>3 DEF Teardown, TypeInv, PageOK, handover
<1>8. ASSUME NEW net \in Nets, NEW pass \in Passes, PwConnect(net, pass)
      PROVE  TypeInv'
  <2>1. [net |-> net, pass |-> pass] \in Strings
    BY DEF Strings
  <2>2. DataInv' /\ job' \in Jobs \cup {"idle"} /\ done' \in BOOLEAN
    BY <1>8, <1>t, <1>j, <2>1, StartKeepsTypes DEF PwConnect, callLocals
  <2>3. QED
    BY <1>8, <1>t, <2>2 DEF PwConnect, TypeInv, PageOK
<1>9. QED
  BY <1>1, <1>2, <1>3, <1>4, <1>5, <1>6, <1>7, <1>8 DEF User

LEMMA TickKeepsTypes == ASSUME TypeInv, Tick PROVE TypeInv'
<1>1. DataInv'
  BY DEF TypeInv, Tick, atVars, calls, locks, stores, DataInv, DataOK,
         WorkersName, ScansHaveResults
<1>2. QED
  BY <1>1 DEF TypeInv, Tick, PageOK

(* A call that is over leaves nothing behind. *)
LEMMA ResumeKeepsData ==
  ASSUME LockInv, DataInv, NEW c \in Clients, Resume(c), NEW s \in Strings,
         arg' = [arg EXCEPT ![c] = s], UNCHANGED <<locks, stores>>
  PROVE  DataInv'
<1>1. Others(c) /\ pc'[c] = "idle" /\ task'[c] = "probe"
  BY DEF Resume, Goto, Drop, LockInv, ControlOK, DataInv, DataOK, Others, Places
<1>2. DataOK'
  BY NoCredIsStrings
  DEF Resume, Drop, DataInv, DataOK, LinkStates, locks, stores
<1>3. QED
  BY <1>1, <1>2, OneCallKeepsData

(* The last step of the job's thread. *)
LEMMA FinishKeepsTypes ==
  ASSUME LockInv, TypeInv, NEW s \in Strings, JobFinishes(s)
  PROVE  TypeInv'
<1>1. DataInv'
  BY ResumeKeepsData DEF JobFinishes, TypeInv, Clients
<1>2. QED
  BY <1>1 DEF JobFinishes, TypeInv, PageOK, page

LEMMA JobKeepsTypes == ASSUME LockInv, TypeInv, JobThread PROVE TypeInv'
<1>t. /\ DataInv /\ PageOK /\ DataOK /\ ScansHaveResults
      /\ arg[Job] \in Strings /\ Job \in Clients
  BY DEF TypeInv, DataInv, DataOK, Clients
<1>1. CASE CallStep(Job) /\ UNCHANGED <<page, handover>>
  <2>1. DataInv'
    BY <1>1, <1>t, CallKeepsData
  <2>2. QED
    BY <1>1, <1>t, <2>1 DEF TypeInv, PageOK, page, handover
<1>2. CASE JoinEnds
  <2>1. [arg[Job] EXCEPT !.pass = NoPass] \in Strings
    BY <1>t, WifiAssumption DEF Strings
  <2>2. QED
    BY <1>2, <2>1, FinishKeepsTypes DEF JoinEnds
<1>3. CASE ForgetOrStatusEnds \/ ScanEnds
  BY <1>3, <1>t, FinishKeepsTypes DEF ForgetOrStatusEnds, ScanEnds
<1>4. CASE ScanFound
  <2>1. got[Job] \in Scans
    BY <1>4, <1>t DEF ScanFound, ScansHaveResults
  <2>2. DataOK' /\ arg' = [arg EXCEPT ![Job] = arg'[Job]]
    BY <1>4, <1>t, NoCredIsStrings
    DEF ScanFound, Drop, DataOK, LinkStates, locks, stores
  <2>3. \A d \in Workers : got'[d] = got[d] /\ rc'[d] = rc[d]
    BY <1>4, <1>t, WifiAssumption DEF ScanFound, Drop, DataOK, Clients
  <2>4. Call(Job, "probe") /\ "probe" \in Tasks
    BY <1>4 DEF ScanFound, Tasks
  <2>5. DataInv'
    BY <1>t, <2>2, <2>3, <2>4, CallKeepsJobData
  <2>6. QED
    BY <1>4, <1>t, <2>1, <2>5 DEF ScanFound, TypeInv, PageOK, page
<1>5. QED
  BY <1>1, <1>2, <1>3, <1>4 DEF JobThread

LEMMA WorkerKeepsTypes ==
  ASSUME LockInv, TypeInv, NEW w \in Workers, Worker(w)
  PROVE  TypeInv'
<1>t. w \in Clients /\ DataInv /\ DataOK /\ PageOK
  BY DEF Clients, TypeInv, DataInv
<1>1. DataInv'
  <2>1. CASE CallStep(w)
    BY <1>t, <2>1, CallKeepsData
  <2>2. CASE WorkerReturns(w)
    BY <1>t, <2>2, NoCredIsStrings, ResumeKeepsData DEF WorkerReturns
  <2>3. ASSUME NEW t \in Tasks, WorkerCalls(w, t)
        PROVE  DataInv'
    <3>1. PICK a \in IF t = "join" THEN Creds ELSE {NoCred} :
            arg' = [arg EXCEPT ![w] = a]
      BY <2>3 DEF WorkerCalls
    <3>2. a \in Strings /\ (t = "join" => a \in Creds)
      BY <3>1, NoCredIsStrings DEF Strings, Creds
    <3>3. /\ Others(w) /\ pc'[w] = "enter" /\ task'[w] = t
          /\ arg'[w] = a
      BY <1>t, <2>3, <3>1
      DEF WorkerCalls, Call, LockInv, ControlOK, DataOK, Others
    <3>4. DataOK'
      BY <1>t, <2>3, <3>1, <3>2 DEF WorkerCalls, DataOK, locks, stores
    <3>5. QED
      BY <1>t, <3>2, <3>3, <3>4, OneCallKeepsData
  <2>4. QED
    BY <2>1, <2>2, <2>3 DEF Worker
<1>2. QED
  BY <1>t, <1>1 DEF Worker, TypeInv, PageOK, page, handover

(* Every variable of the page and of the operations has its type: what a    *)
(* worker joins is a network, and what the page lists is the result of a    *)
(* scan, never the lack of one.                                             *)
THEOREM PageTypes == Spec => []TypeOK
<1>1. Init => TypeInv
  <2> SUFFICES ASSUME Init PROVE TypeInv
    OBVIOUS
  <2>1. DataOK
    BY NoCredIsStrings
    DEF Init, AtInit, DataOK, LinkStates, Creds, Strings
  <2>2. WorkersName /\ ScansHaveResults
    BY DEF Init, AtInit, WorkersName, ScansHaveResults, Clients
  <2>3. PageOK
    BY DEF Init, PageOK
  <2>4. QED
    BY <2>1, <2>2, <2>3 DEF TypeInv, DataInv
<1>2. IInv /\ TypeInv /\ [Next]_vars => TypeInv'
  <2> SUFFICES ASSUME LockInv, TypeInv, [Next]_vars PROVE TypeInv'
    BY DEF IInv
  <2>1. CASE UNCHANGED vars
    BY <2>1 DEF vars, atVars, page, handover, calls, locks, stores,
                TypeInv, PageOK, DataInv, DataOK, WorkersName, ScansHaveResults
  <2>2. QED
    BY <2>1, UserKeepsTypes, TickKeepsTypes, JobKeepsTypes, WorkerKeepsTypes
    DEF Next
<1>3. IInv /\ TypeInv => TypeOK
  BY DEF IInv, LockInv, ControlOK, TypeInv, PageOK, DataInv, DataOK,
         WorkersName, TypeOK, AtTypeOK
<1>4. QED
  BY <1>1, <1>2, <1>3, PageInvariant, PTL DEF Spec
=============================================================================
