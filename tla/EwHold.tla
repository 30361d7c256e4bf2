------------------------------- MODULE EwHold -------------------------------
(***************************************************************************)
(* The alarm hold of the radar policy: ew_hold_update() turns a stream of  *)
(* single-frame decisions into the level that the buzzer and the screen    *)
(* show.  A level is confirmed by consecutive frames, escalates at once,   *)
(* and is released only after CLEAR_MS without support.  Time is a         *)
(* wrapping unsigned millisecond counter, so every age is a difference     *)
(* modulo the clock's range.                                               *)
(*                                                                         *)
(* ew_hold_update is called by one thread, the safety worker: for each     *)
(* iteration of its loop it samples the clock once, calls the function for *)
(* every frame it decodes and once more with no frame at the end.          *)
(***************************************************************************)
EXTENDS Naturals

CONSTANTS
  ClockMod,      (* Range of the uint32_t clock, 2^32 in the program.        *)
  StaleMs,       (* EW_LINK_STALE_MS                                         *)
  ClearMs,       (* EW_CLEAR_MS                                              *)
  ConfirmFrames, (* EW_CONFIRM_FRAMES                                        *)
  MaxHits,       (* Largest value of the uint8_t pending_hits.               *)
  MaxGap,        (* Bound: longest time between two loop iterations.         *)
  MaxSilence,    (* Bound: longest time without a byte or a frame, once the  *)
                 (* first has come, that a poll is modelled for.             *)
  Horizon        (* Bound: ages in the history variables saturate here.      *)

ASSUME HoldAssumption ==
  /\ ClearMs \in Nat \ {0}
  /\ StaleMs \in Nat
  /\ ClockMod \in Nat
  /\ MaxGap \in Nat \ {0}
  /\ ClearMs + MaxGap <= ClockMod
  /\ StaleMs < ClockMod
  /\ MaxHits \in Nat
  /\ ConfirmFrames \in 1..MaxHits
  /\ Horizon \in Nat
  /\ ClearMs + MaxGap <= Horizon
  /\ StaleMs < Horizon
  /\ MaxSilence \in Nat

-----------------------------------------------------------------------------
(* Data of the function. *)

None == 0        \* EW_ALERT_NONE; SOFT, STRONG and EMERGENCY are 1, 2 and 3
Levels == 0..3
Threats == 1..3

Links == {"dead", "noise", "ok"}

(* A decision's distance, speed and reason are abstracted to where they     *)
(* come from: a decoded frame, or one of the placeholder decisions.         *)
Reasons == {"frame", "idle", "confirming", "alert_timeout", "no_frame",
            "no_uart"}
Decision == [level: Levels, reason: Reasons]

EmptyDecision(why) == [level |-> None, reason |-> why]
Instant(l) == [level |-> l, reason |-> "frame"]

Clock == 0..(ClockMod - 1)

(* (uint32_t)(now - then) *)
Age(now, then) == IF now >= then THEN now - then ELSE (now + ClockMod) - then

(* now + dt on the uint32_t clock, dt < ClockMod *)
Later(now, dt) ==
  IF now + dt >= ClockMod THEN (now + dt) - ClockMod ELSE now + dt

Hold ==
  [pending: Levels, hits: 0..MaxHits, latched: Levels,
   lastByte: Clock, lastFrame: Clock, lastAlert: Clock,
   link: Links, everByte: BOOLEAN, everFrame: BOOLEAN,
   latchedDec: Decision, latestDec: Decision, haveObs: BOOLEAN]

HoldReset ==
  [pending |-> None, hits |-> 0, latched |-> None,
   lastByte |-> 0, lastFrame |-> 0, lastAlert |-> 0,
   link |-> "dead", everByte |-> FALSE, everFrame |-> FALSE,
   latchedDec |-> EmptyDecision("idle"), latestDec |-> EmptyDecision("idle"),
   haveObs |-> FALSE]

-----------------------------------------------------------------------------
(* The phases of ew_hold_update, in the order the function runs them. *)

(* Faults: a gap that leaves the confirmation standing, and noise that      *)
(* renews the frame's age.                                                  *)
NoteIgnoringGap(h, now, bytes, frame) ==
  [h EXCEPT
     !.lastByte  = IF bytes \/ frame THEN now ELSE @,
     !.everByte  = @ \/ bytes \/ frame,
     !.lastFrame = IF frame THEN now ELSE @,
     !.everFrame = @ \/ frame]

NoteBytesAsFrame(h, now, bytes, frame) ==
  [h EXCEPT
     !.lastByte  = IF bytes \/ frame THEN now ELSE @,
     !.everByte  = @ \/ bytes \/ frame,
     !.lastFrame = IF bytes \/ frame THEN now ELSE @,
     !.everFrame = @ \/ frame]

(* Byte and frame timestamps; a stale gap breaks confirmation. *)
Note(h, now, bytes, frame) ==
  LET gap == frame /\ h.everFrame /\ Age(now, h.lastFrame) > StaleMs
  IN [h EXCEPT
        !.lastByte  = IF bytes \/ frame THEN now ELSE @,
        !.everByte  = @ \/ bytes \/ frame,
        !.lastFrame = IF frame THEN now ELSE @,
        !.everFrame = @ \/ frame,
        !.pending   = IF gap THEN None ELSE @,
        !.hits      = IF gap THEN 0 ELSE @]

Recent(now, then) == Age(now, then) <= StaleMs

LinkOf(h, now) ==
  CASE h.everFrame /\ Recent(now, h.lastFrame) -> "ok"
    [] h.everByte /\ Recent(now, h.lastByte)
       /\ ~(h.everFrame /\ Recent(now, h.lastFrame)) -> "noise"
    [] OTHER -> "dead"

Relink(h, now) == [h EXCEPT !.link = LinkOf(h, now)]

Latch(h, d, at) ==
  [h EXCEPT !.latched = d.level, !.latchedDec = d, !.lastAlert = at]

(* Fault: a more urgent frame has to be confirmed like any other. *)
SupportsSameLevel(h, raw) == raw = h.latched

Supports(h, raw) ==
  raw = h.latched \/ (h.latched # None /\ raw > h.latched)

(* Fault: the uint8_t counter is not kept at its maximum. *)
CountUnsaturated(h, raw) ==
  [h EXCEPT !.pending = raw, !.hits = IF raw = h.pending THEN @ + 1 ELSE 1]

Count(h, raw) ==
  [h EXCEPT
     !.pending = raw,
     !.hits = CASE raw # h.pending -> 1
                [] raw = h.pending /\ @ < MaxHits -> @ + 1
                [] OTHER -> @]

HoldOver(h, now) == Age(now, h.lastAlert) >= ClearMs

Confirmed(h) == h.hits >= ConfirmFrames

(* A fresh frame: support or escalate, count towards another level, or,     *)
(* when the frame shows no threat, break the confirmation.                  *)
Observe(h0, now, d) ==
  LET h == [h0 EXCEPT !.latestDec = d, !.haveObs = TRUE]
      c == Count(h, d.level)
  IN CASE d.level = None ->
            [h EXCEPT !.pending = None, !.hits = 0]
       [] d.level # None /\ Supports(h, d.level) ->
            [Latch(h, d, now) EXCEPT !.pending = d.level,
                                     !.hits = ConfirmFrames]
       [] d.level # None /\ ~Supports(h, d.level) ->
            IF Confirmed(c) /\ (c.latched = None \/ HoldOver(c, now))
              THEN Latch(c, d, now)
              ELSE c

(* Fault: the weaker level does not wait for the hold to end. *)
MayStepDownEarly(h, now) ==
  /\ h.latched # None
  /\ h.pending # None
  /\ h.pending < h.latched
  /\ Confirmed(h)
  /\ h.latestDec.level = h.pending
  /\ Age(now, h.lastFrame) < ClearMs

(* At expiry a weaker level already confirmed takes over, aged from the     *)
(* frame that showed it.                                                    *)
MayStepDown(h, now) ==
  /\ h.latched # None
  /\ h.pending # None
  /\ h.pending < h.latched
  /\ Confirmed(h)
  /\ h.latestDec.level = h.pending
  /\ HoldOver(h, now)
  /\ Age(now, h.lastFrame) < ClearMs

(* Faults: the weaker level is aged from the poll, keeps the decision of    *)
(* the stronger one, or is never taken over.                                *)
StepDownAtPoll(h, now) ==
  IF MayStepDown(h, now) THEN Latch(h, h.latestDec, now) ELSE h

StepDownKeepingDecision(h, now) ==
  IF MayStepDown(h, now)
    THEN [h EXCEPT !.latched = h.pending, !.lastAlert = h.lastFrame]
    ELSE h

StepDownNever(h, now) == h

StepDown(h, now) ==
  IF MayStepDown(h, now) THEN Latch(h, h.latestDec, h.lastFrame) ELSE h

(* Fault: the hold ends one tick late. *)
ExpiresLate(h, now) == h.latched # None /\ Age(now, h.lastAlert) > ClearMs

(* The release at the end of the hold. *)
Expires(h, now) == h.latched # None /\ HoldOver(h, now)

Expire(h, now) ==
  IF Expires(h, now)
    THEN [h EXCEPT !.latched = None,
                   !.latchedDec = EmptyDecision("alert_timeout"),
                   !.pending = None, !.hits = 0]
    ELSE h

(* The decision returned to the caller. *)
Report(h) ==
  LET shown ==
        CASE h.latched # None -> h.latchedDec
          [] h.latched = None /\ h.haveObs /\ h.latestDec.level = None ->
               h.latestDec
          [] h.latched = None /\ h.haveObs /\ h.latestDec.level # None ->
               EmptyDecision(IF h.hits # 0 THEN "confirming"
                             ELSE "alert_timeout")
          [] OTHER -> EmptyDecision("idle")
  IN IF h.latched = None /\ h.link # "ok"
       THEN EmptyDecision(IF h.link = "noise" THEN "no_frame" ELSE "no_uart")
       ELSE [shown EXCEPT !.level = h.latched]

(* ew_hold_update(h, now, true, true, track) with ew_decide(track) = d *)
FrameUpdate(h, now, d) ==
  LET o == Observe(Relink(Note(h, now, TRUE, TRUE), now), now, d)
  IN IF d.level = None THEN Expire(o, now) ELSE o

(* ew_hold_update(h, now, bytes, false, NULL) *)
PollUpdate(h, now, bytes) ==
  Expire(StepDown(Relink(Note(h, now, bytes, FALSE), now), now), now)

-----------------------------------------------------------------------------
VARIABLES
  now,        \* the worker's sample of the clock
  phase,      \* "read" while the worker drains the UART, "sleep" in usleep
  hadBytes,   \* had_bytes of this iteration
  hold,       \* the worker's ew_hold_t
  shown,      \* the decision last returned
  (* History of the true, unwrapped time, for the properties only. *)
  sinceLevel, \* [Threats -> ms since a frame of at least that level]
  sinceFrame, \* ms since the last complete frame
  sinceByte,  \* ms since the last byte
  streak      \* run of equal, unbroken frame levels

history == <<sinceLevel, sinceFrame, sinceByte, streak>>
vars == <<now, phase, hadBytes, hold, shown, history>>

Ages == 0..Horizon

TypeOK ==
  /\ now \in Clock
  /\ phase \in {"read", "sleep"}
  /\ hadBytes \in BOOLEAN
  /\ hold \in Hold
  /\ shown \in Decision
  /\ sinceLevel \in [Threats -> Ages]
  /\ sinceFrame \in Ages
  /\ sinceByte \in Ages
  /\ streak \in [level: Levels, count: 0..MaxHits]

Init ==
  /\ now \in Clock
  /\ phase = "sleep"
  /\ hadBytes = FALSE
  /\ hold = HoldReset
  /\ shown = EmptyDecision("no_uart")
  /\ sinceLevel = [l \in Threats |-> Horizon]
  /\ sinceFrame = Horizon
  /\ sinceByte = Horizon
  /\ streak = [level |-> None, count |-> 0]

Older(age, dt) == IF age + dt > Horizon THEN Horizon ELSE age + dt

(* usleep() ends and the loop samples the clock. *)
Wake(dt) ==
  /\ phase = "sleep"
  /\ now' = Later(now, dt)
  /\ phase' = "read"
  /\ hadBytes' = FALSE
  /\ sinceLevel' = [l \in Threats |-> Older(sinceLevel[l], dt)]
  /\ sinceFrame' = Older(sinceFrame, dt)
  /\ sinceByte' = Older(sinceByte, dt)
  /\ UNCHANGED <<hold, shown, streak>>

(* read() returns bytes that complete no frame. *)
ReadNoise ==
  /\ phase = "read"
  /\ hadBytes' = TRUE
  /\ sinceByte' = 0
  /\ UNCHANGED <<now, phase, hold, shown, sinceLevel, sinceFrame, streak>>

(* The parser completes a frame whose most urgent track decides to level l. *)
Extend(s, l) ==
  IF s.level = l /\ sinceFrame <= StaleMs
    THEN [s EXCEPT !.count = IF @ < MaxHits THEN @ + 1 ELSE @]
    ELSE [level |-> l, count |-> 1]

ReadFrame(l) ==
  /\ phase = "read"
  /\ hadBytes' = TRUE
  /\ hold' = FrameUpdate(hold, now, Instant(l))
  /\ shown' = Report(hold')
  /\ sinceLevel' = [k \in Threats |-> IF k <= l THEN 0 ELSE sinceLevel[k]]
  /\ sinceFrame' = 0
  /\ sinceByte' = 0
  /\ streak' = Extend(streak, l)
  /\ UNCHANGED <<now, phase>>

(* The no-frame update that ends the iteration.  A release forgets an       *)
(* incomplete or old confirmation, so it also ends that run of frames.      *)
RunSurvives ==
  streak.count >= ConfirmFrames /\ sinceFrame < ClearMs

WithinBound ==
  /\ hold.everFrame => sinceFrame <= MaxSilence
  /\ hold.everByte => sinceByte <= MaxSilence

Poll ==
  /\ phase = "read"
  /\ WithinBound
  /\ hold' = PollUpdate(hold, now, hadBytes)
  /\ shown' = Report(hold')
  /\ phase' = "sleep"
  /\ streak' = IF hold.latched # None /\ hold'.latched = None /\ ~RunSurvives
                 THEN [level |-> None, count |-> 0] ELSE streak
  /\ UNCHANGED <<now, hadBytes, sinceLevel, sinceFrame, sinceByte>>

Next ==
  \/ \E dt \in 1..MaxGap : Wake(dt)
  \/ ReadNoise
  \/ \E l \in Levels : ReadFrame(l)
  \/ Poll

Spec == Init /\ [][Next]_vars

-----------------------------------------------------------------------------
(* Properties. *)

(* The age of the latch, kept modulo the clock, is the true time since a    *)
(* frame last supported the latched level: the alarm's lifetime belongs to  *)
(* the observation that owns it and never to a poll or a weaker frame.      *)
LatchAgeIsTrue ==
  hold.latched # None =>
    Age(now, hold.lastAlert) = sinceLevel[hold.latched]

(* The alarm is lowered, or released, only when no frame of its level has   *)
(* been seen for ClearMs of true time.                                      *)
NoEarlyRelease ==
  [][hold'.latched < hold.latched => sinceLevel[hold.latched] >= ClearMs]_vars

(* No alarm outlives its evidence: after the poll that ends an iteration, a *)
(* latched level was supported less than ClearMs ago.                       *)
NoOverhold ==
  phase = "sleep" /\ hold.latched # None =>
    sinceLevel[hold.latched] < ClearMs

(* While an alarm is latched a more urgent frame shows at once.             *)
EscalatesAtOnce == hold.latched # None => hold.latestDec.level <= hold.latched

(* An alarm appears out of silence only after ConfirmFrames equal frames    *)
(* in a row with no stale gap, in true time, between them.                  *)
ConfirmedBeforeAlarm ==
  [][hold.latched = None /\ hold'.latched # None =>
       streak'.level = hold'.latched /\ streak'.count >= ConfirmFrames]_vars

(* A confirmed threat seen less than ClearMs ago is shown, at its level or  *)
(* a higher one.                                                            *)
ConfirmedThreatShown ==
  streak.level # None /\ streak.count >= ConfirmFrames /\ sinceFrame < ClearMs
    => shown.level >= streak.level

(* A shown alarm carries the measurement of a frame of exactly its level,   *)
(* never the numbers of a weaker frame or a placeholder.                    *)
AlarmOwnsItsMeasurement ==
  hold.latched # None => /\ hold.latchedDec = Instant(hold.latched)
                         /\ shown = hold.latchedDec

(* The link reported is what the comment on ew_link_t says, in true time:   *)
(* ok means a complete frame within StaleMs, noise bytes but no frame, dead *)
(* neither.                                                                 *)
LinkIsTrue ==
  phase = "sleep" =>
    /\ hold.link = "ok"    <=> hold.everFrame /\ sinceFrame <= StaleMs
    /\ hold.link = "noise" => sinceByte <= StaleMs /\ sinceFrame > StaleMs
    /\ hold.link = "dead"  => sinceByte > StaleMs
=============================================================================
