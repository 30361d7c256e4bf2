------------------------------- MODULE Buzzer -------------------------------
(***************************************************************************)
(* The buzzer of alert_buzzer.c.  One worker thread turns two words, the   *)
(* radar's floor and the manual alert, into a tone on one GPIO pin; a beep *)
(* or the selftest may drive the same pin only before that worker exists.  *)
(* Frequencies are levels: 0 is silence, a higher level a higher tone.     *)
(***************************************************************************)
EXTENDS Naturals, FiniteSets, FiniteSetsExt

CONSTANTS
  TopLevel,    (* The most urgent level.                                    *)
  Shells,      (* Threads that run `ew buzz` or the boot selftest.          *)
  MaxSets,     (* Bound: manual alerts set or stopped.                      *)
  MaxFails     (* Bound: worker threads that cannot be created.             *)

Levels == 0..TopLevel
Silence == 0
Nobody == "nobody"
Ui == "ui"
Safety == "safety"
Callers == Shells \cup {Ui, Safety}

ASSUME BuzzerAssumption ==
  /\ TopLevel \in Nat \ {0}
  /\ MaxSets \in Nat /\ MaxFails \in Nat
  /\ Shells \cap {Nobody, Ui, Safety} = {}

VARIABLES
  floor,     \* g_safety_freq
  manual,    \* g_alert_freq
  lock,      \* holder of g_control_lock
  started,   \* g_worker_started
  call,      \* [Callers -> step of the function the thread is in]
  radarOn,   \* alert_buzzer_prepare succeeded: the safety worker runs
  wpc,       \* the worker's step
  loaded,    \* floor as active_freq() loaded it
  playing,   \* freq of the worker's loop
  pin,       \* [worker, beep: level of the waveform each of them drives]
  sets, fails

vars == <<floor, manual, lock, started, call, radarOn, wpc, loaded, playing,
          pin, sets, fails>>

Active == Max({floor, manual})

TypeOK ==
  /\ floor \in Levels /\ manual \in Levels
  /\ lock \in Callers \cup {Nobody}
  /\ started \in BOOLEAN /\ radarOn \in BOOLEAN
  /\ call \in [Callers -> {"out", "start", "claim", "sound", "begin"}]
  /\ wpc \in {"none", "load", "choose", "recheck", "compare", "gap"}
  /\ loaded \in Levels /\ playing \in Levels
  /\ pin \in [worker: Levels, beep: BOOLEAN]
  /\ sets \in 0..MaxSets /\ fails \in 0..MaxFails

Init ==
  /\ floor = Silence /\ manual = Silence
  /\ lock = Nobody
  /\ started = FALSE /\ radarOn = FALSE
  /\ call = [c \in Callers |-> "out"]
  /\ wpc = "none"
  /\ loaded = Silence /\ playing = Silence
  /\ pin = [worker |-> Silence, beep |-> FALSE]
  /\ sets = 0 /\ fails = 0

-----------------------------------------------------------------------------
(* Callers. *)

Goto(c, from, to) == call[c] = from /\ call' = [call EXCEPT ![c] = to]

Take(c) == lock = Nobody /\ lock' = c
Release(c) == lock = c /\ lock' = Nobody

(* alert_buzzer_safety_level: a store, from the safety worker only. *)
SetFloor(l) ==
  /\ radarOn
  /\ floor' = l
  /\ UNCHANGED <<manual, lock, started, call, radarOn, wpc, loaded, playing,
                 pin, sets, fails>>

(* alert_buzzer_set_alert: the store, then the worker is started if needed. *)
SetManual(l) ==
  /\ l # Silence /\ sets < MaxSets
  /\ sets' = sets + 1
  /\ manual' = l
  /\ Goto(Ui, "out", "start")
  /\ UNCHANGED <<floor, lock, started, radarOn, wpc, loaded, playing, pin,
                 fails>>

(* alert_buzzer_stop; the pin it writes low is not owned by it, and the     *)
(* waveform's owner drives it again in its next half period.                *)
StopManual ==
  /\ call[Ui] = "out" /\ sets < MaxSets
  /\ sets' = sets + 1
  /\ manual' = Silence
  /\ UNCHANGED <<floor, lock, started, call, radarOn, wpc, loaded, playing,
                 pin, fails>>

(* ew_safety_start reaches alert_buzzer_prepare. *)
Prepare ==
  /\ ~radarOn
  /\ Goto(Safety, "out", "start")
  /\ UNCHANGED <<floor, manual, lock, started, radarOn, wpc, loaded, playing,
                 pin, sets, fails>>

(* buzzer_worker_start_unlocked: 0 when it runs already. *)
StartWorker ==
  \/ started /\ UNCHANGED <<started, wpc, fails>>
  \/ ~started /\ started' = TRUE /\ wpc' = "load" /\ UNCHANGED fails
  \/ /\ ~started /\ fails < MaxFails
     /\ fails' = fails + 1
     /\ UNCHANGED <<started, wpc>>

(* buzzer_worker_start, and the whole of prepare, run under the lock; only  *)
(* a successful prepare lets the safety worker exist.                       *)
Start(c) ==
  /\ c \in {Ui, Safety}
  /\ lock = Nobody
  /\ Goto(c, "start", "out")
  /\ StartWorker
  /\ radarOn' = (radarOn \/ (c = Safety /\ started'))
  /\ UNCHANGED <<floor, manual, lock, loaded, playing, pin, sets>>

(* The caller's waveform on the pin: a timed loop, from start to end.       *)
Drive(on) == pin' = [pin EXCEPT !.beep = on]

(* alert_buzzer_beep and alert_buzzer_selftest. *)
Enter(s) ==
  /\ Goto(s, "out", "claim")
  /\ Take(s)
  /\ UNCHANGED <<floor, manual, started, radarOn, wpc, loaded, playing, pin,
                 sets, fails>>

(* Faults: a beep that asks only whether the radar alarms, or only whether  *)
(* a manual alert is on.                                                    *)
RefusedByRadar == floor # Silence
RefusedByManual == manual # Silence

Refused == started \/ floor # Silence

Claim(s) ==
  /\ \/ /\ Refused
        /\ Goto(s, "claim", "out") /\ Release(s) /\ UNCHANGED pin
     \/ /\ ~Refused
        /\ Goto(s, "claim", "sound")
        /\ Drive(TRUE) /\ UNCHANGED lock
  /\ UNCHANGED <<floor, manual, started, radarOn, wpc, loaded, playing, sets,
                 fails>>

(* Fault: the lock is not given back. *)
SoundKeepingLock(s) ==
  /\ Goto(s, "sound", "out")
  /\ Drive(FALSE)
  /\ UNCHANGED <<floor, manual, lock, started, radarOn, wpc, loaded, playing,
                 sets, fails>>

(* The beep ends. *)
Sound(s) ==
  /\ Goto(s, "sound", "out")
  /\ Release(s)
  /\ Drive(FALSE)
  /\ UNCHANGED <<floor, manual, started, radarOn, wpc, loaded, playing, sets,
                 fails>>

(* The selftest ends: it starts the worker before it gives the lock back.   *)
SelftestSounds(s) ==
  /\ Goto(s, "sound", "begin")
  /\ Drive(FALSE)
  /\ UNCHANGED <<floor, manual, lock, started, radarOn, wpc, loaded, playing,
                 sets, fails>>

SelftestStarts(s) ==
  /\ Goto(s, "begin", "out")
  /\ Release(s)
  /\ StartWorker
  /\ UNCHANGED <<floor, manual, radarOn, loaded, playing, pin, sets>>

-----------------------------------------------------------------------------
(* The worker. active_freq() loads the floor, then the manual word.         *)

Worker(from, to) == wpc = from /\ wpc' = to

Load(from, to) ==
  /\ Worker(from, to)
  /\ loaded' = floor
  /\ UNCHANGED <<floor, manual, lock, started, call, radarOn, playing, pin,
                 sets, fails>>

(* Fault: the two words are added. *)
SeenTogether == loaded + manual

Seen == Max({loaded, manual})

LoadTop == Load("load", "choose")
LoadCycle == Load("recheck", "compare")

(* Silence puts the pin low and sleeps; otherwise the waveform begins. *)
Choose ==
  /\ IF Seen = Silence
       THEN Worker("choose", "load") /\ UNCHANGED playing
       ELSE Worker("choose", "recheck") /\ playing' = Seen
  /\ pin' = [pin EXCEPT !.worker = Seen]
  /\ UNCHANGED <<floor, manual, lock, started, call, radarOn, loaded, sets,
                 fails>>

(* Fault: the waveform plays to its end whatever the level becomes. *)
CompareNever ==
  /\ Worker("compare", "recheck")
  /\ UNCHANGED <<floor, manual, lock, started, call, radarOn, loaded, playing,
                 pin, sets, fails>>

(* Each period compares the active level again; another level ends the      *)
(* waveform at once, and so does, some time, its full length.               *)
Compare ==
  /\ \/ Seen = playing /\ Worker("compare", "recheck") /\ UNCHANGED pin
     \/ Worker("compare", "gap") /\ pin' = [pin EXCEPT !.worker = Silence]
  /\ UNCHANGED <<floor, manual, lock, started, call, radarOn, loaded, playing,
                 sets, fails>>

(* The silent gap, shortened by any other level. *)
Gap ==
  /\ Worker("gap", "load")
  /\ UNCHANGED <<floor, manual, lock, started, call, radarOn, loaded, playing,
                 pin, sets, fails>>

-----------------------------------------------------------------------------
WorkerStep == LoadTop \/ LoadCycle \/ Choose \/ Compare \/ Gap

ShellStep(s) ==
  Enter(s) \/ Claim(s) \/ Sound(s) \/ SelftestSounds(s) \/ SelftestStarts(s)

Next ==
  \/ \E l \in Levels : SetFloor(l) \/ SetManual(l)
  \/ StopManual \/ Prepare
  \/ \E c \in Callers : Start(c)
  \/ \E s \in Shells : ShellStep(s)
  \/ WorkerStep

(* The worker's thread runs; a beep ends; a thread that waits for the lock  *)
(* gets it, though others keep taking it.                                   *)
Spec ==
  /\ Init /\ [][Next]_vars
  /\ WF_vars(WorkerStep)
  /\ \A s \in Shells :
       WF_vars(Claim(s) \/ Sound(s) \/ SelftestSounds(s) \/ SelftestStarts(s))
  /\ SF_vars(Start(Ui)) /\ SF_vars(Start(Safety))

-----------------------------------------------------------------------------
(* Properties. *)

(* The pin has one waveform: once the worker exists it is the only owner,   *)
(* and until then at most one beep or selftest drives it.                   *)
OneWaveform ==
  /\ pin.beep => ~started
  /\ Cardinality({s \in Shells : call[s] = "sound"}) = IF pin.beep THEN 1 ELSE 0

(* A beep never covers a radar alarm: while one sounds the safety worker    *)
(* cannot have raised the floor, because it does not exist yet.             *)
BeepNeverMasksRadar == pin.beep => ~radarOn /\ floor = Silence

(* Once the worker exists, a level that stays is heard again and again, and *)
(* in the end nothing else is.                                              *)
SettledLevelSounds ==
  \A l \in Levels :
    <>[](started /\ Active = l) =>
      ([]<>(pin.worker = l)) /\ <>[](pin.worker \in {Silence, l})

(* Setting an alert returns although a beep holds the lock. *)
SetReturns == call[Ui] = "start" ~> call[Ui] = "out"
=============================================================================
