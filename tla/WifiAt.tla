------------------------------- MODULE WifiAt -------------------------------
(***************************************************************************)
(* The operations of ew_wifi_at.c on the one ESP-AT modem.  Any thread may *)
(* call one: the Wi-Fi page's job, a serial or shell worker, the boot      *)
(* thread, a question to the model.  A call takes the device lock for its  *)
(* AT exchanges, gives it back on every path, and only then touches the    *)
(* credentials file and the published link.                                *)
(*                                                                         *)
(* An AT exchange is one step that succeeds, is refused or times out; what *)
(* the modem answers is its choice.                                        *)
(***************************************************************************)
EXTENDS Naturals

CONSTANTS
  Job,       (* The Wi-Fi page's job thread, which passes pointers.          *)
  Workers,   (* Threads that call with arguments of their own.               *)
  Nets,      (* Network names.                                               *)
  NoNet,     (* The empty name.                                              *)
  Passes,    (* Passwords, with NoPass, the empty one.                       *)
  NoPass,
  Scans,     (* Results of a scan: sequences of networks.                    *)
  NoScan     (* No result.                                                   *)

Clients == {Job} \cup Workers
Nobody == "nobody"

ASSUME WifiAssumption ==
  /\ Job \notin Workers
  /\ Nobody \notin Clients
  /\ NoNet \notin Nets
  /\ NoPass \in Passes
  /\ NoScan \notin Scans

Tasks == {"probe", "scan", "join", "forget", "post", "bringup", "command"}
Creds == [net: Nets, pass: Passes]
Strings == [net: Nets \cup {NoNet}, pass: Passes]
NoCred == [net |-> NoNet, pass |-> NoPass]
(* A joined link may also reach the internet, which nothing here depends on. *)
LinkStates == {"down", "idle", "joined"}

VARIABLES
  mu,      \* g_at_mu: its holder
  scanMu,  \* g_scan_mu: its holder
  pc,      \* where each client's call is
  task,    \* what it was called for
  arg,     \* the ssid and pass that a call reads through its pointers
  sent,    \* what its AT+CWJAP carried
  got,     \* the networks of its scan
  found,   \* the link that it will publish
  rc,      \* how it returned
  conf,    \* EW_WIFI_CONF
  link,    \* the link of ew_net_state
  cache    \* g_scan_cache

locks == <<mu, scanMu>>
calls == <<pc, task, arg, sent, got, found, rc>>
stores == <<conf, link, cache>>
atVars == <<locks, calls, stores>>

(* Where a call holds the device. *)
Exchanges == {"wake", "look", "list", "ask", "query", "quit", "connect",
              "body", "command"}
Places == Exchanges \cup {"idle", "enter", "begin", "unscan", "load", "save",
                          "unlink", "publish", "ret"}

AtTypeOK ==
  /\ mu \in Clients \cup {Nobody} /\ scanMu \in Clients \cup {Nobody}
  /\ pc \in [Clients -> Places]
  /\ task \in [Clients -> Tasks]
  /\ arg \in [Clients -> Strings]
  /\ \A w \in Workers :
       task[w] = "join" /\ pc[w] # "idle" => arg[w] \in Creds
  /\ sent \in [Clients -> Strings]
  /\ got \in [Clients -> Scans \cup {NoScan}]
  /\ found \in [Clients -> LinkStates]
  /\ rc \in [Clients -> {"ok", "failed"}]
  /\ conf \in Strings
  /\ link \in LinkStates
  /\ cache \in Scans \cup {NoScan}

AtInit ==
  /\ mu = Nobody /\ scanMu = Nobody
  /\ pc = [c \in Clients |-> "idle"]
  /\ task = [c \in Clients |-> "probe"]
  /\ arg = [c \in Clients |-> NoCred]
  /\ sent = [c \in Clients |-> NoCred]
  /\ got = [c \in Clients |-> NoScan]
  /\ found = [c \in Clients |-> "down"]
  /\ rc = [c \in Clients |-> "ok"]
  /\ conf \in Creds \cup {NoCred}
  /\ link = "down" /\ cache = NoScan

-----------------------------------------------------------------------------
(* Control of a call. *)

Goto(c, from, to) == pc[c] = from /\ pc' = [pc EXCEPT ![c] = to]

Returns(c, from, result) ==
  /\ Goto(c, from, "ret")
  /\ rc' = [rc EXCEPT ![c] = result]

(* at_end: the device is closed and given back. *)
AtEnd == mu' = Nobody

(* A scan gives its own lock back as well before it returns. *)
AfterFailure(c) == IF task[c] = "scan" THEN "unscan" ELSE "ret"

FailsFrom(c, from) ==
  /\ Goto(c, from, AfterFailure(c))
  /\ rc' = [rc EXCEPT ![c] = "failed"]

Call(c, t) ==
  /\ pc' = [pc EXCEPT ![c] = "enter"]
  /\ task' = [task EXCEPT ![c] = t]

(* What a call leaves in its caller's hands is gone when that one is done.  *)
Drop(c) ==
  /\ sent' = [sent EXCEPT ![c] = NoCred]
  /\ got' = [got EXCEPT ![c] = NoScan]
  /\ found' = [found EXCEPT ![c] = "down"]
  /\ rc' = [rc EXCEPT ![c] = "ok"]

(* The caller goes on. *)
Resume(c) ==
  /\ Goto(c, "ret", "idle")
  /\ task' = [task EXCEPT ![c] = "probe"]
  /\ Drop(c)

(* What precedes the device: nothing, or the formatting of the request.     *)
Enter(c) ==
  /\ task[c] # "scan"
  /\ task[c] = "join" => arg[c].net # NoNet
  /\ Goto(c, "enter", "begin")
  /\ UNCHANGED <<locks, task, arg, sent, got, found, rc, stores>>

(* A join of no network. *)
JoinNothing(c) ==
  /\ task[c] = "join" /\ arg[c].net = NoNet
  /\ Returns(c, "enter", "failed")
  /\ UNCHANGED <<locks, task, arg, sent, got, found, stores>>

(* ew_wifi_scan: the result of a scan of the last seconds; else the scan    *)
(* lock, and without it an older result or EW_WIFI_SCAN_BUSY.               *)
ScanCached(c) ==
  /\ task[c] = "scan"
  /\ cache # NoScan
  /\ Returns(c, "enter", "ok")
  /\ got' = [got EXCEPT ![c] = cache]
  /\ UNCHANGED <<locks, task, arg, sent, found, stores>>

ScanLock(c) ==
  /\ task[c] = "scan"
  /\ scanMu = Nobody
  /\ Goto(c, "enter", "begin")
  /\ scanMu' = c
  /\ UNCHANGED <<mu, task, arg, sent, got, found, rc, stores>>

ScanBusy(c) ==
  /\ task[c] = "scan"
  /\ scanMu # Nobody
  /\ cache = NoScan
  /\ Returns(c, "enter", "failed")
  /\ UNCHANGED <<locks, task, arg, sent, got, found, stores>>

(* at_begin: the lock, tried for half a second, and the device. *)
Begin(c) ==
  /\ mu = Nobody
  /\ Goto(c, "begin", "wake")
  /\ mu' = c
  /\ UNCHANGED <<scanMu, task, arg, sent, got, found, rc, stores>>

(* Busy; a probe says so without publishing a link. *)
BeginBusy(c) ==
  /\ mu # Nobody
  /\ FailsFrom(c, "begin")
  /\ UNCHANGED <<locks, task, arg, sent, got, found, stores>>

(* The device cannot be opened: the lock goes back at once. *)
BeginFails(c) ==
  /\ mu = Nobody
  /\ FailsFrom(c, "begin")
  /\ link' = IF task[c] \in {"probe", "bringup"} THEN "down" ELSE link
  /\ UNCHANGED <<locks, task, arg, sent, got, found, conf, cache>>

FirstExchange ==
  [t \in Tasks |-> CASE t \in {"probe", "bringup"} -> "look"
                     [] t = "scan" -> "list"
                     [] t = "join" -> "ask"
                     [] t = "forget" -> "quit"
                     [] t = "post" -> "connect"
                     [] t = "command" -> "command"]

(* at_wake, at_wake_light: the modem answers. *)
Wake(c) ==
  /\ Goto(c, "wake", FirstExchange[task[c]])
  /\ UNCHANGED <<locks, task, arg, sent, got, found, rc, stores>>

(* Fault: an early return that forgets at_end. *)
WakeFailsKeepingDevice(c) ==
  /\ FailsFrom(c, "wake")
  /\ UNCHANGED <<locks, task, arg, sent, got, found, stores>>

(* It does not; a probe then publishes that the modem is down. *)
WakeFails(c) ==
  /\ IF task[c] \in {"probe", "bringup"}
       THEN /\ Goto(c, "wake", "publish")
            /\ rc' = [rc EXCEPT ![c] = "failed"]
       ELSE FailsFrom(c, "wake")
  /\ AtEnd
  /\ UNCHANGED <<scanMu, task, arg, sent, got, found, stores>>

-----------------------------------------------------------------------------
(* ew_wifi_probe_ex and ew_wifi_bringup. *)

Look(c, l) ==
  /\ Goto(c, "look", "publish")
  /\ found' = [found EXCEPT ![c] = l]
  /\ AtEnd
  /\ UNCHANGED <<scanMu, task, arg, sent, got, rc, stores>>

(* Every operation that publishes does so last.  A bringup that finds no    *)
(* network goes on with the saved one.                                      *)
Publish(c) ==
  /\ Goto(c, "publish", IF task[c] = "bringup" /\ found[c] = "idle"
                          THEN "load" ELSE "ret")
  /\ link' = found[c]
  /\ UNCHANGED <<locks, task, arg, sent, got, found, rc, conf, cache>>

(* Fault: credentials that could not be loaded are used all the same. *)
BringupLoadsAny(c) ==
  /\ Goto(c, "load", "enter")
  /\ arg' = [arg EXCEPT ![c] = conf]
  /\ task' = [task EXCEPT ![c] = "join"]
  /\ UNCHANGED <<locks, sent, got, found, rc, stores>>

BringupLoads(c) ==
  /\ IF conf.net # NoNet
       THEN /\ Goto(c, "load", "enter")
            /\ arg' = [arg EXCEPT ![c] = conf]
            /\ task' = [task EXCEPT ![c] = "join"]
       ELSE Goto(c, "load", "ret") /\ UNCHANGED <<arg, task>>
  /\ UNCHANGED <<locks, sent, got, found, rc, stores>>

-----------------------------------------------------------------------------
(* ew_wifi_scan. *)

List(c, s) ==
  /\ Goto(c, "list", "unscan")
  /\ got' = [got EXCEPT ![c] = s]
  /\ cache' = s
  /\ AtEnd
  /\ UNCHANGED <<scanMu, task, arg, sent, found, rc, conf, link>>

ListFails(c) ==
  /\ FailsFrom(c, "list")
  /\ AtEnd
  /\ UNCHANGED <<scanMu, task, arg, sent, got, found, stores>>

Unscan(c) ==
  /\ Goto(c, "unscan", "ret")
  /\ scanMu' = Nobody
  /\ UNCHANGED <<mu, task, arg, sent, got, found, rc, stores>>

-----------------------------------------------------------------------------
(* ew_wifi_join: the command is formatted from the caller's strings, and    *)
(* after the device has been given back the same strings are saved.         *)

Ask(c) ==
  /\ Goto(c, "ask", "query")
  /\ sent' = [sent EXCEPT ![c] = arg[c]]
  /\ UNCHANGED <<locks, task, arg, got, found, rc, stores>>

(* The modem refuses, or nothing comes in time. *)
AskFails(c) ==
  /\ FailsFrom(c, "ask")
  /\ AtEnd
  /\ UNCHANGED <<scanMu, task, arg, sent, got, found, stores>>

Query(c) ==
  /\ Goto(c, "query", "save")
  /\ found' = [found EXCEPT ![c] = "joined"]
  /\ AtEnd
  /\ UNCHANGED <<scanMu, task, arg, sent, got, rc, stores>>

(* cred_save; its failure is ignored. *)
Save(c) ==
  /\ Goto(c, "save", "publish")
  /\ conf' \in {arg[c], conf}
  /\ UNCHANGED <<locks, task, arg, sent, got, found, rc, link, cache>>

-----------------------------------------------------------------------------
(* ew_wifi_forget. *)

Quit(c) ==
  /\ Goto(c, "quit", "unlink")
  /\ found' = [found EXCEPT ![c] = "idle"]
  /\ AtEnd
  /\ UNCHANGED <<scanMu, task, arg, sent, got, rc, stores>>

(* The modem keeps its connection or does not confirm. *)
QuitFails(c) ==
  /\ FailsFrom(c, "quit")
  /\ AtEnd
  /\ UNCHANGED <<scanMu, task, arg, sent, got, found, stores>>

Unlink(c) ==
  /\ \/ Goto(c, "unlink", "publish") /\ conf' = NoCred /\ UNCHANGED rc
     \/ Returns(c, "unlink", "failed") /\ UNCHANGED conf
  /\ UNCHANGED <<locks, task, arg, sent, got, found, link, cache>>

-----------------------------------------------------------------------------
(* ew_wifi_http_ssl_post_ex. *)

Connect(c) ==
  /\ Goto(c, "connect", "body")
  /\ UNCHANGED <<locks, task, arg, sent, got, found, rc, stores>>

(* No TLS. *)
PostFails(c) ==
  /\ FailsFrom(c, "connect")
  /\ AtEnd
  /\ UNCHANGED <<scanMu, task, arg, sent, got, found, stores>>

(* The request is written and its answer collected; without a prompt, with  *)
(* a stalled write or a short answer the POST fails.                        *)
Body(c, result) ==
  /\ Returns(c, "body", result)
  /\ AtEnd
  /\ UNCHANGED <<scanMu, task, arg, sent, got, found, stores>>

-----------------------------------------------------------------------------
(* ew_wifi_at_cmd, ew_wifi_at_diag and ew_wifi_probe_ssid: exchanges whose   *)
(* answer only their caller sees.                                           *)
Command(c, result) ==
  /\ Returns(c, "command", result)
  /\ AtEnd
  /\ UNCHANGED <<scanMu, task, arg, sent, got, found, stores>>

-----------------------------------------------------------------------------
(* One step of a call; each exchange ends by itself after its time-out. *)
CallStep(c) ==
  \/ Enter(c) \/ JoinNothing(c) \/ ScanCached(c) \/ ScanLock(c) \/ ScanBusy(c)
  \/ Begin(c) \/ BeginBusy(c) \/ BeginFails(c) \/ Wake(c) \/ WakeFails(c)
  \/ \E l \in {"idle", "joined"} : Look(c, l)
  \/ Publish(c) \/ BringupLoads(c)
  \/ \E s \in Scans : List(c, s)
  \/ ListFails(c) \/ Unscan(c)
  \/ Ask(c) \/ AskFails(c) \/ Query(c) \/ Save(c)
  \/ Quit(c) \/ QuitFails(c) \/ Unlink(c)
  \/ Connect(c) \/ PostFails(c)
  \/ \E r \in {"ok", "failed"} : Body(c, r) \/ Command(c, r)

(* A worker's next call, with strings of its own, and its return; a failed  *)
(* bringup of the boot thread is another call.                              *)
WorkerCalls(w, t) ==
  /\ pc[w] = "idle"
  /\ Call(w, t)
  /\ \E a \in IF t = "join" THEN Creds ELSE {NoCred} :
       arg' = [arg EXCEPT ![w] = a]
  /\ UNCHANGED <<locks, sent, got, found, rc, stores>>

WorkerReturns(w) ==
  /\ Resume(w)
  /\ arg' = [arg EXCEPT ![w] = NoCred]
  /\ UNCHANGED <<locks, stores>>

-----------------------------------------------------------------------------
(* Properties. *)

(* Exactly the holder of the device lock is in an AT exchange: no two calls *)
(* talk to the modem at once, and no return path of any operation keeps the *)
(* lock.  The same holds of the scan lock.                                  *)
HolderTalks ==
  \A c \in Clients :
    /\ mu = c <=> pc[c] \in Exchanges
    /\ scanMu = c <=>
         task[c] = "scan" /\ pc[c] \in Exchanges \cup {"begin", "unscan"}

(* What a join saves is what the modem was given and accepted in that join: *)
(* when a call leaves its save having changed the credentials, they are     *)
(* those that its own command carried.                                      *)
SavedIsJoined ==
  [][\A c \in Clients :
       pc[c] = "save" /\ pc'[c] = "publish" /\ conf' # conf
         => conf' = sent[c]]_atVars
=============================================================================
