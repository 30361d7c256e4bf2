---------------------------- MODULE BuzzerProofs ----------------------------
(* Proofs about Buzzer, for any number of levels and of shells.             *)
EXTENDS Buzzer, FiniteSetTheorems, TLAPS

-----------------------------------------------------------------------------
(* A shell holds the lock exactly while it is in a beep or the selftest.    *)
Holding == {"claim", "sound", "begin"}

LockHeld ==
  /\ lock \in Shells \cup {Nobody}
  /\ \A s \in Shells : lock = s <=> call[s] \in Holding

(* The safety worker exists only once the buzzer's worker does, and the     *)
(* floor is raised by no one else.                                          *)
RadarNeedsWorker ==
  /\ radarOn => started
  /\ floor # Silence => radarOn

(* The pin is driven by the holder of the lock, before any worker exists.   *)
BeepHasPin ==
  /\ pin.beep => \E s \in Shells : call[s] = "sound"
  /\ \A s \in Shells : call[s] = "sound" => pin.beep /\ ~started

IInv == TypeOK /\ LockHeld /\ RadarNeedsWorker /\ BeepHasPin

-----------------------------------------------------------------------------
LEMMA MaxOfTwo ==
  ASSUME NEW a \in Levels, NEW b \in Levels
  PROVE  Max({a, b}) \in Levels
BY DEF Max, Levels

LEMMA InitSound == Init => IInv
<1> SUFFICES ASSUME Init PROVE IInv
  OBVIOUS
<1> USE BuzzerAssumption DEF Init, Silence
<1>1. TypeOK
  <2>1. floor \in Levels /\ manual \in Levels /\ loaded \in Levels
        /\ playing \in Levels /\ pin \in [worker: Levels, beep: BOOLEAN]
    BY DEF Levels
  <2>2. call \in [Callers -> {"out", "start", "claim", "sound", "begin"}]
    OBVIOUS
  <2>3. wpc \in {"none", "load", "choose", "recheck", "compare", "gap"}
    OBVIOUS
  <2>4. lock \in Callers \cup {Nobody}
    OBVIOUS
  <2>5. started \in BOOLEAN /\ radarOn \in BOOLEAN
    OBVIOUS
  <2>6. sets \in 0..MaxSets /\ fails \in 0..MaxFails
    OBVIOUS
  <2> HIDE DEF Init, Silence
  <2> QED
    BY <2>1, <2>2, <2>3, <2>4, <2>5, <2>6 DEF TypeOK
<1>2. LockHeld /\ RadarNeedsWorker /\ BeepHasPin
  BY DEF LockHeld, RadarNeedsWorker, BeepHasPin, Holding, Callers, Nobody
<1> QED
  BY <1>1, <1>2 DEF IInv

(* Steps that move no caller and start nothing. *)
LEMMA CallersStay ==
  ASSUME IInv, UNCHANGED <<lock, started, call, radarOn>>, pin'.beep = pin.beep,
         floor' = floor \/ radarOn
  PROVE  LockHeld' /\ RadarNeedsWorker' /\ BeepHasPin'
<1>1. LockHeld'
  BY DEF IInv, LockHeld
<1>2. RadarNeedsWorker'
  BY DEF IInv, RadarNeedsWorker
<1>3. BeepHasPin'
  BY DEF IInv, BeepHasPin
<1> QED
  BY <1>1, <1>2, <1>3

LEMMA StoresSound ==
  ASSUME IInv, NEW l \in Levels, SetFloor(l) \/ StopManual
  PROVE  IInv'
<1> USE BuzzerAssumption DEF SetFloor, StopManual, Silence
<1>1. TypeOK'
  BY DEF IInv, TypeOK, Levels
<1>2. LockHeld' /\ RadarNeedsWorker' /\ BeepHasPin'
  BY CallersStay
<1> QED
  BY <1>1, <1>2 DEF IInv

LEMMA WorkerSound ==
  ASSUME IInv, WorkerStep
  PROVE  IInv'
<1> USE BuzzerAssumption DEF Worker
<1>0. Seen \in Levels
  BY MaxOfTwo DEF IInv, TypeOK, Seen
<1>1. CASE LoadTop \/ LoadCycle \/ Gap
  <2>1. TypeOK'
    BY <1>1 DEF IInv, TypeOK, LoadTop, LoadCycle, Load, Gap
  <2>2. LockHeld' /\ RadarNeedsWorker' /\ BeepHasPin'
    BY <1>1, CallersStay DEF LoadTop, LoadCycle, Load, Gap
  <2> QED
    BY <2>1, <2>2 DEF IInv
<1>2. CASE Choose \/ Compare
  <2>1. pin' \in [worker: Levels, beep: BOOLEAN] /\ pin'.beep = pin.beep
    BY <1>0, <1>2 DEF IInv, TypeOK, Choose, Compare, Levels, Silence
  <2>2. TypeOK'
    BY <1>0, <1>2, <2>1 DEF IInv, TypeOK, Choose, Compare
  <2>3. LockHeld' /\ RadarNeedsWorker' /\ BeepHasPin'
    BY <1>2, <2>1, CallersStay DEF Choose, Compare
  <2> QED
    BY <2>2, <2>3 DEF IInv
<1> QED
  BY <1>1, <1>2 DEF WorkerStep

(* buzzer_worker_start_unlocked, or no attempt at it. *)
LEMMA StartTypes ==
  ASSUME IInv, UNCHANGED <<started, wpc, fails>> \/ StartWorker
  PROVE  /\ started' \in BOOLEAN /\ fails' \in 0..MaxFails
         /\ wpc' \in {"none", "load", "choose", "recheck", "compare", "gap"}
         /\ started => started'
<1>1. started \in BOOLEAN /\ fails \in 0..MaxFails
  BY DEF IInv, TypeOK
<1>2. wpc \in {"none", "load", "choose", "recheck", "compare", "gap"}
  BY DEF IInv, TypeOK
<1>3. started' \in BOOLEAN /\ (started => started')
  BY <1>1 DEF StartWorker
<1>4. fails' = fails \/ (fails < MaxFails /\ fails' = fails + 1)
  BY DEF StartWorker
<1>5. fails' \in 0..MaxFails
  BY <1>1, <1>4, BuzzerAssumption
<1>6. wpc' = wpc \/ wpc' = "load"
  BY DEF StartWorker
<1> QED
  BY <1>2, <1>3, <1>5, <1>6

(* The threads that set an alert or prepare for the radar hold no lock      *)
(* between steps.                                                           *)
LEMMA SettersSound ==
  ASSUME IInv,
         Prepare \/ (\E l \in Levels : SetManual(l)) \/ \E c \in Callers : Start(c)
  PROVE  IInv'
<1>1. /\ call \in [Callers -> {"out", "start", "claim", "sound", "begin"}]
      /\ {Ui, Safety} \subseteq Callers /\ Shells \subseteq Callers
      /\ Shells \cap {Ui, Safety} = {}
  BY BuzzerAssumption DEF IInv, TypeOK, Callers
<1>2. PICK c \in {Ui, Safety}, to \in {"out", "start"} :
        /\ call' = [call EXCEPT ![c] = to]
        /\ UNCHANGED <<floor, lock, loaded, playing, pin>>
        /\ manual' \in Levels /\ sets' \in 0..MaxSets
        /\ \/ UNCHANGED <<started, radarOn, wpc, fails>>
           \/ StartWorker /\ lock = Nobody /\ radarOn' \in {radarOn, started'}
  <2>1. CASE Prepare
    BY <2>1 DEF Prepare, Goto, IInv, TypeOK
  <2>2. CASE \E l \in Levels : SetManual(l)
    BY <2>2, BuzzerAssumption DEF SetManual, Goto, IInv, TypeOK
  <2>3. CASE \E c \in Callers : Start(c)
    <3>1. PICK c \in {Ui, Safety} : Start(c)
      BY <2>3 DEF Start
    <3>2. radarOn' \in {radarOn, started'}
      BY <3>1 DEF Start, IInv, TypeOK
    <3> QED
      BY <3>1, <3>2 DEF Start, Goto, IInv, TypeOK
  <2> QED
    BY <2>1, <2>2, <2>3
<1>3. /\ call' \in [Callers -> {"out", "start", "claim", "sound", "begin"}]
      /\ \A s \in Shells : call'[s] = call[s]
  BY <1>1, <1>2
<1>4. /\ started' \in BOOLEAN /\ fails' \in 0..MaxFails
      /\ wpc' \in {"none", "load", "choose", "recheck", "compare", "gap"}
      /\ started => started'
  BY <1>2, StartTypes
<1>5. TypeOK'
  BY <1>2, <1>3, <1>4 DEF IInv, TypeOK
<1>6. LockHeld'
  BY <1>2, <1>3 DEF IInv, LockHeld
<1>7. RadarNeedsWorker'
  BY <1>2, <1>4 DEF IInv, RadarNeedsWorker
<1>8. BeepHasPin'
  <2>1. CASE UNCHANGED started
    BY <1>2, <1>3, <2>1 DEF IInv, BeepHasPin
  <2>2. CASE lock = Nobody
    BY <1>2, <1>3, <2>2, BuzzerAssumption DEF IInv, LockHeld, BeepHasPin,
       Holding
  <2> QED
    BY <1>2, <2>1, <2>2
<1> QED
  BY <1>5, <1>6, <1>7, <1>8 DEF IInv

(* A shell that goes on holds the lock alone. *)
LEMMA ShellSound ==
  ASSUME IInv, NEW s \in Shells, ShellStep(s)
  PROVE  IInv'
<1>1. /\ call \in [Callers -> {"out", "start", "claim", "sound", "begin"}]
      /\ s \in Callers /\ Shells \subseteq Callers /\ Nobody \notin Shells
      /\ pin \in [worker: Levels, beep: BOOLEAN]
  BY BuzzerAssumption DEF IInv, TypeOK, Callers
<1>2. PICK to \in {"out", "claim", "sound", "begin"} :
        /\ call' = [call EXCEPT ![s] = to]
        /\ call[s] = "out" \/ call[s] \in Holding
        /\ UNCHANGED <<floor, manual, radarOn, loaded, playing, sets>>
        /\ IF call[s] = "out" THEN to = "claim" /\ lock = Nobody ELSE lock = s
        /\ lock' = IF to = "out" THEN Nobody ELSE s
        /\ pin' = [pin EXCEPT !.beep = (to = "sound")]
        /\ to = "sound" => ~started /\ started' = started
        /\ \/ UNCHANGED <<started, wpc, fails>>
           \/ StartWorker
  <2>1. lock = s <=> call[s] \in Holding
    BY DEF IInv, LockHeld
  <2>2. ASSUME call[s] # "sound", lock \in {s, Nobody}
        PROVE  ~pin.beep
    BY <1>1, <2>2 DEF IInv, LockHeld, BeepHasPin, Holding
  <2>3. ~pin.beep => pin = [pin EXCEPT !.beep = FALSE]
    BY <1>1
  <2> USE DEF Goto, Take, Release, Drive, Holding
  <2>4. CASE Enter(s)
    BY <2>1, <2>2, <2>3, <2>4 DEF Enter
  <2>5. CASE Claim(s)
    BY <2>1, <2>2, <2>3, <2>5 DEF Claim, Refused
  <2>6. CASE Sound(s)
    BY <2>1, <2>6 DEF Sound
  <2>7. CASE SelftestSounds(s)
    BY <2>1, <2>7 DEF SelftestSounds
  <2>8. CASE SelftestStarts(s)
    BY <2>1, <2>2, <2>3, <2>8 DEF SelftestStarts
  <2> QED
    BY <2>4, <2>5, <2>6, <2>7, <2>8 DEF ShellStep
<1>3. /\ call' \in [Callers -> {"out", "start", "claim", "sound", "begin"}]
      /\ call'[s] = to /\ \A t \in Shells \ {s} : call'[t] = call[t]
  BY <1>1, <1>2
<1>4. /\ started' \in BOOLEAN /\ fails' \in 0..MaxFails
      /\ wpc' \in {"none", "load", "choose", "recheck", "compare", "gap"}
      /\ started => started'
  BY <1>2, StartTypes
<1>5. \A t \in Shells \ {s} : call[t] \notin Holding
  BY <1>1, <1>2 DEF IInv, LockHeld
<1>6. pin' \in [worker: Levels, beep: BOOLEAN] /\ pin'.beep = (to = "sound")
  BY <1>1, <1>2
<1>7. TypeOK'
  BY <1>1, <1>2, <1>3, <1>4, <1>6 DEF IInv, TypeOK
<1>8. LockHeld'
  BY <1>1, <1>2, <1>3, <1>5 DEF LockHeld, Holding
<1>9. RadarNeedsWorker'
  BY <1>2, <1>4 DEF IInv, RadarNeedsWorker
<1>10. BeepHasPin'
  BY <1>2, <1>3, <1>5, <1>6 DEF BeepHasPin, Holding
<1> QED
  BY <1>7, <1>8, <1>9, <1>10 DEF IInv

LEMMA StepSound == IInv /\ [Next]_vars => IInv'
<1> SUFFICES ASSUME IInv, [Next]_vars PROVE IInv'
  OBVIOUS
<1>1. CASE UNCHANGED vars
  BY <1>1 DEF vars, IInv, TypeOK, LockHeld, RadarNeedsWorker, BeepHasPin
<1>2. 0 \in Levels
  BY BuzzerAssumption DEF Levels
<1> QED
  BY <1>1, <1>2, StoresSound, WorkerSound, SettersSound, ShellSound DEF Next

LEMMA Invariant == Spec => []IInv
BY InitSound, StepSound, PTL DEF Spec

-----------------------------------------------------------------------------
(* The words and flags of alert_buzzer.c keep their types. *)
THEOREM BuzzerTypeCorrect == Spec => []TypeOK
<1>1. IInv => TypeOK
  BY DEF IInv
<1> QED
  BY <1>1, Invariant, PTL

(* For any number of shells, alert_buzzer's pin is driven by its worker or  *)
(* by one beep, never by both and never by two beeps.                       *)
THEOREM PinHasOneOwner == Spec => []OneWaveform
<1>1. IInv => OneWaveform
  <2> SUFFICES ASSUME IInv PROVE OneWaveform
    OBVIOUS
  <2> DEFINE Sounding == {s \in Shells : call[s] = "sound"}
  <2>1. pin.beep => ~started
    BY DEF IInv, BeepHasPin
  <2>2. CASE pin.beep
    <3>1. PICK s \in Shells : call[s] = "sound"
      BY <2>2 DEF IInv, BeepHasPin
    <3>2. Sounding = {s}
      BY <3>1 DEF IInv, LockHeld, Holding
    <3> QED
      BY <2>1, <2>2, <3>2, FS_Singleton DEF OneWaveform
  <2>3. CASE ~pin.beep
    <3>1. Sounding = {}
      BY <2>3 DEF IInv, BeepHasPin
    <3> QED
      BY <2>3, <3>1, FS_EmptySet DEF OneWaveform
  <2> QED
    BY <2>2, <2>3
<1> QED
  BY <1>1, Invariant, PTL

(* No beep of a shell and no selftest sounds over the radar's floor.        *)
THEOREM RadarIsNeverMasked == Spec => []BeepNeverMasksRadar
<1>1. IInv => BeepNeverMasksRadar
  BY DEF IInv, BeepHasPin, RadarNeedsWorker, BeepNeverMasksRadar
<1> QED
  BY <1>1, Invariant, PTL
=============================================================================
