------------------------------- MODULE EwAlert -------------------------------
(***************************************************************************)
(* From a radar decision to the screen and the buzzer.  The safety worker  *)
(* sets the buzzer's floor and publishes a snapshot and, on a change, an   *)
(* event; the UI loop drains events, consumes queued alert requests, runs  *)
(* serial commands and draws; a shell and the agent publish requests.      *)
(*                                                                         *)
(* The decisions come from EwHold, of which only the level and the link    *)
(* are kept; the request slot is the one-cell mailbox of AlertSlot, which  *)
(* AlertIpc implements; floor and manual are the two words that Buzzer     *)
(* turns into sound.                                                       *)
(***************************************************************************)
EXTENDS Naturals, Sequences, SequencesExt

CONSTANTS
  TopLevel,     (* EW_ALERT_EMERGENCY: the levels are 0 (none) to this one. *)
  Links,        (* Link states that a decision can carry.                   *)
  NoLink,       (* EW_LINK_DEAD, the link of the first snapshot.            *)
  EventCap,     (* EW_SAFETY_EVENTS                                         *)
  TickEvents,   (* Events that one service tick takes.                      *)
  MaxId         (* Bound: event ids that are handed out.                    *)

ASSUME AlertAssumption ==
  /\ TopLevel \in Nat \ {0}
  /\ NoLink \in Links
  /\ EventCap \in Nat \ {0}
  /\ TickEvents \in Nat \ {0}
  /\ MaxId \in Nat

None == 0
Levels == 0..TopLevel
Ids == 0..MaxId
Decision == [level: Levels, link: Links]
Event == [id: Ids, level: Levels]

NoRequest == TopLevel + 1
Request == Levels \cup {NoRequest}

VARIABLES
  running,     \* g_snapshot.running: the safety worker exists
  wpc, wdec,   \* the worker: its step and the decision it publishes
  nextId,      \* g_event_id of the agent, shared by every source
  snap,        \* g_snapshot: decision and event id
  ring, dropped, \* g_events and dropped_events
  floor,       \* g_safety_freq, as a level
  manual,      \* g_alert_freq, as a level
  upc,         \* the UI loop's step
  ready,       \* g_ui_ready: the alert page is attached
  current,     \* service tick: the event id of its snapshot
  left,        \* service tick: events it may still take
  command,     \* the request or command the UI thread has checked
  ext,         \* g_external_active, g_external_level
  screen,      \* the level the page's objects show
  slot,        \* the request in the transport, claimed or not
  shell,       \* a command of another thread between check and publish
  (* History, for the properties only. *)
  changes,     \* events published
  taken,       \* [count, last]: events taken, and the id of the last
  rendered,    \* radar level that this frame's last render read
  painted      \* another thread painted the page since that render

radar == <<running, wpc, wdec, snap, ring, dropped, floor, changes>>
ui == <<upc, ready, current, left, command, ext, screen, manual, taken,
        rendered, painted>>
vars == <<radar, ui, nextId, slot, shell>>

UiSteps == {"snap", "events", "poll", "actuate", "render", "serial", "command",
            "page", "draw"}

TypeOK ==
  /\ running \in BOOLEAN
  /\ wpc \in {"off", "decide", "publish"}
  /\ wdec \in Decision
  /\ nextId \in Ids
  /\ snap \in [level: Levels, link: Links, id: Ids]
  /\ ring \in Seq(Event) /\ Len(ring) <= EventCap
  /\ dropped \in Nat /\ changes \in Nat
  /\ floor \in Levels /\ manual \in Levels
  /\ upc \in UiSteps /\ ready \in BOOLEAN
  /\ current \in Ids /\ left \in 0..TickEvents
  /\ command \in Request
  /\ ext \in [active: BOOLEAN, level: Levels]
  /\ screen \in Levels
  /\ slot \in Request /\ shell \in Request
  /\ taken \in [count: Nat, last: Ids]
  /\ rendered \in Levels /\ painted \in BOOLEAN

Init ==
  /\ running = FALSE /\ wpc = "off"
  /\ wdec = [level |-> None, link |-> NoLink]
  /\ nextId = 0
  /\ snap = [level |-> None, link |-> NoLink, id |-> 0]
  /\ ring = <<>> /\ dropped = 0 /\ changes = 0
  /\ floor = None /\ manual = None
  /\ upc = "snap" /\ ready = TRUE
  /\ current = 0 /\ left = 0
  /\ command = NoRequest
  /\ ext = [active |-> FALSE, level |-> None]
  /\ screen = None
  /\ slot = NoRequest /\ shell = NoRequest
  /\ taken = [count |-> 0, last |-> 0]
  /\ rendered = None /\ painted = FALSE

-----------------------------------------------------------------------------
(* The safety worker. *)

(* ew_safety_start: the second caller finds it started; a thread that cannot*)
(* be created leaves everything as it was, to be tried again.               *)
SafetyStart ==
  /\ ~running
  /\ running' = TRUE
  /\ wpc' = "decide"
  /\ UNCHANGED <<wdec, snap, ring, dropped, floor, changes, ui, nextId, slot,
                 shell>>

(* A frame or the end of an iteration: the hold decides, and the floor is   *)
(* set before the snapshot.                                                 *)
Decide(d) ==
  /\ wpc = "decide"
  /\ wdec' = d
  /\ floor' = d.level
  /\ wpc' = "publish"
  /\ UNCHANGED <<running, snap, ring, dropped, changes, ui, nextId, slot, shell>>

IsChange(d) == d.level # snap.level \/ d.link # snap.link

(* Faults: a full ring that rejects the newest event, and one that grows.   *)
PushDropNewest(e) ==
  IF Len(ring) < EventCap
    THEN ring' = Append(ring, e) /\ UNCHANGED dropped
    ELSE ring' = ring /\ dropped' = dropped + 1

PushUnbounded(e) == ring' = Append(ring, e) /\ UNCHANGED dropped

Push(e) ==
  IF Len(ring) < EventCap
    THEN ring' = Append(ring, e) /\ UNCHANGED dropped
    ELSE ring' = Append(Tail(ring), e) /\ dropped' = dropped + 1

PublishSnapshot ==
  /\ wpc = "publish"
  /\ wpc' = "decide"
  /\ IF IsChange(wdec)
       THEN /\ nextId < MaxId
            /\ nextId' = nextId + 1
            /\ snap' = [level |-> wdec.level, link |-> wdec.link,
                        id |-> nextId']
            /\ Push([id |-> nextId', level |-> wdec.level])
            /\ changes' = changes + 1
       ELSE UNCHANGED <<nextId, snap, ring, dropped, changes>>
  /\ UNCHANGED <<running, wdec, floor, ui, slot, shell>>

-----------------------------------------------------------------------------
(* The UI loop's frame: alert_lcd_service_tick, ew_serial_ctl_poll,         *)
(* page_tick, lv_timer_handler.                                             *)

Step(from, to) == upc = from /\ upc' = to

(* Fault: an external alert hides a more urgent radar decision. *)
ShownExternalFirst(level) == IF ext.active THEN ext.level ELSE level

(* The level that render_safety puts on the page. *)
Shown(level) ==
  IF ext.active /\ ext.level >= level THEN ext.level ELSE level

(* apply_alert_ui: nothing is painted while the page is not attached. *)
Paint(level) == screen' = IF ready THEN level ELSE screen

RenderSafety == Paint(Shown(snap.level))

TickSnapshot ==
  /\ Step("snap", "events")
  /\ current' = snap.id
  /\ left' = TickEvents
  /\ UNCHANGED <<radar, ready, command, ext, screen, manual, taken,
                 rendered, painted, nextId, slot, shell>>

(* An event of the tick's snapshot goes to the agent's tool, which renders  *)
(* the present snapshot; any other one is reported as superseded.           *)
TakeEvent ==
  /\ upc = "events" /\ left > 0 /\ ring # <<>>
  /\ LET e == Head(ring)
     IN /\ taken' = [count |-> taken.count + 1, last |-> e.id]
        /\ IF e.id = current
             THEN RenderSafety
             ELSE UNCHANGED screen
  /\ ring' = Tail(ring)
  /\ left' = left - 1
  /\ UNCHANGED <<running, wpc, wdec, snap, dropped, floor, changes, upc, ready,
                 current, command, ext, manual, rendered, painted, nextId, slot,
                 shell>>

EventsDone ==
  /\ left = 0 \/ ring = <<>>
  /\ Step("events", "poll")
  /\ current' = 0 /\ left' = 0
  /\ UNCHANGED <<radar, ready, command, ext, screen, manual,
                 taken, rendered, painted, nextId, slot, shell>>

(* poll_request: not attached, too early or nothing queued. *)
PollNothing ==
  /\ Step("poll", "render")
  /\ UNCHANGED <<radar, ready, current, left, command, ext, screen, manual,
                 taken, rendered, painted, nextId, slot, shell>>

Permitted(level) == level >= snap.level

(* consume() claims the request; apply_queued_alert checks it against the   *)
(* snapshot and answers -EPERM below the radar's level.                     *)
PollRequest ==
  /\ ready /\ slot # NoRequest
  /\ IF Permitted(slot)
       THEN Step("poll", "actuate") /\ command' = slot /\ UNCHANGED slot
       ELSE Step("poll", "render") /\ slot' = NoRequest /\ UNCHANGED command
  /\ UNCHANGED <<radar, ready, current, left, ext, screen, manual, taken,
                 rendered, painted, nextId, shell>>

External(level) ==
  /\ ext' = [active |-> level # None, level |-> level]
  /\ Paint(level)

(* The rest of apply_queued_alert, and the acknowledgement. *)
Actuate ==
  /\ Step("actuate", "render")
  /\ manual' = command
  /\ External(command)
  /\ command' = NoRequest
  /\ slot' = NoRequest
  /\ UNCHANGED <<radar, ready, current, left, taken, rendered, painted, nextId,
                 shell>>

TickRender ==
  /\ Step("render", "serial")
  /\ RenderSafety
  /\ UNCHANGED <<radar, ready, current, left, command, ext, manual, taken,
                 rendered, painted, nextId, slot, shell>>

(* A serial command without an alert, or none. *)
SerialNothing ==
  /\ Step("serial", "page")
  /\ UNCHANGED <<radar, ready, current, left, command, ext, screen, manual,
                 taken, rendered, painted, nextId, slot, shell>>

(* An alert or fake command on the UI thread, to the check of               *)
(* alert_lcd_show_event_checked.                                            *)
SerialAlert(level) ==
  /\ nextId < MaxId
  /\ nextId' = nextId + 1
  /\ IF Permitted(level)
       THEN Step("serial", "command") /\ command' = level
       ELSE Step("serial", "page") /\ UNCHANGED command
  /\ UNCHANGED <<radar, ready, current, left, ext, screen, manual, taken,
                 rendered, painted, slot, shell>>

(* Fault: the buzzer follows a command that was only queued. *)
SerialActuateAlways ==
  /\ Step("command", "page")
  /\ manual' = command
  /\ command' = NoRequest
  /\ IF ready
       THEN External(command) /\ UNCHANGED slot
       ELSE /\ slot' = IF slot = NoRequest THEN command ELSE slot
            /\ UNCHANGED <<ext, screen>>
  /\ UNCHANGED <<radar, ready, current, left, taken, rendered, painted, nextId,
                 shell>>

(* With the page attached the command is shown and sounded here; without it *)
(* the request is queued, or refused as busy.                               *)
SerialActuate ==
  /\ Step("command", "page")
  /\ command' = NoRequest
  /\ IF ready
       THEN External(command) /\ manual' = command /\ UNCHANGED slot
       ELSE /\ slot' = IF slot = NoRequest THEN command ELSE slot
            /\ UNCHANGED <<ext, screen, manual>>
  /\ UNCHANGED <<radar, ready, current, left, taken, rendered, painted, nextId,
                 shell>>

(* alert_lcd_warn_tick on the alert page; another page has no radar.        *)
PageTick ==
  /\ Step("page", "draw")
  /\ RenderSafety
  /\ rendered' = snap.level
  /\ UNCHANGED <<radar, ready, current, left, command, ext, manual, taken,
                 painted, nextId, slot, shell>>

FrameEnds ==
  /\ Step("draw", "snap")
  /\ rendered' = None /\ painted' = FALSE
  /\ UNCHANGED <<radar, current, left, command, ext, manual, taken, nextId,
                 slot, shell>>

(* lv_timer_handler draws what the objects show; then the next frame.       *)
Draw == FrameEnds /\ UNCHANGED <<ready, screen>>

(* Attaching builds the page anew, without an alert until the next render.  *)
Attach == ~ready /\ ready' = TRUE /\ screen' = None

Detach == ready /\ ready' = FALSE /\ screen' = None

(* The frame ended with a change of page. *)
SwitchPage == FrameEnds /\ (Attach \/ Detach)

-----------------------------------------------------------------------------
(* Other threads. *)

(* `ew alert` and `ew fake` in a shell: the check, then the publication.    *)
ShellAlert(level) ==
  /\ shell = NoRequest
  /\ nextId < MaxId
  /\ nextId' = nextId + 1
  /\ shell' = IF Permitted(level) THEN level ELSE NoRequest
  /\ UNCHANGED <<radar, ui, slot>>

ShellPublish ==
  /\ shell # NoRequest
  /\ slot' = IF slot = NoRequest THEN shell ELSE slot
  /\ shell' = NoRequest
  /\ UNCHANGED <<radar, ui, nextId>>

(* The agent's registered tool publishes without looking at the radar.      *)
AgentPublish(level) ==
  /\ slot = NoRequest
  /\ slot' = level
  /\ UNCHANGED <<radar, ui, nextId, shell>>

(* alert_lcd_selftest paints red, yellow and blue from the shell's thread.  *)
ScreenSelftest ==
  /\ ready
  /\ \E l \in {TopLevel, 1, None} : Paint(l)
  /\ painted' = (upc = "draw")
  /\ UNCHANGED <<radar, upc, ready, current, left, command, ext, manual, taken,
                 rendered, nextId, slot, shell>>

-----------------------------------------------------------------------------
Worker ==
  \/ SafetyStart
  \/ \E d \in Decision : Decide(d)
  \/ PublishSnapshot

UiFrame ==
  \/ TickSnapshot \/ TakeEvent \/ EventsDone
  \/ PollNothing \/ PollRequest \/ Actuate \/ TickRender
  \/ SerialNothing \/ \E l \in Levels : SerialAlert(l)
  \/ SerialActuate \/ PageTick \/ Draw \/ SwitchPage

Others ==
  \/ \E l \in Levels : ShellAlert(l) \/ AgentPublish(l)
  \/ ShellPublish
  \/ ScreenSelftest

Next == Worker \/ UiFrame \/ Others

Spec == Init /\ [][Next]_vars

-----------------------------------------------------------------------------
(* Properties. *)

(* Every published change is taken, waiting or counted as dropped; what     *)
(* waits is in order, newer than all that was taken, and its last entry is  *)
(* the snapshot's own change.                                               *)
RingTracksSnapshot ==
  /\ changes = taken.count + Len(ring) + dropped
  /\ \A i \in 1..Len(ring) :
       ring[i].id > IF i = 1 THEN taken.last ELSE ring[i - 1].id
  /\ ring # <<>> =>
       /\ Last(ring).id = snap.id
       /\ Last(ring).level = snap.level

(* Between the UI thread's steps the buzzer's manual tone and the external  *)
(* alert on the page are the same alert: queued, refused or stale requests  *)
(* leave neither of them behind.                                            *)
ManualMatchesExternal ==
  manual = ext.level /\ (ext.active <=> ext.level # None)

(* When a frame is drawn on the alert page it shows what is heard: the more *)
(* urgent of the radar's floor and the manual tone, unless the worker has   *)
(* decided again since or another thread has painted.                       *)
SeenIsHeard ==
  /\ upc = "draw" /\ ready /\ ~painted
  /\ wpc # "publish" /\ rendered = snap.level
  => screen = Max({floor, manual})

(* What is drawn on the alert page is never below the radar level that was  *)
(* rendered for it, whatever any thread does.                               *)
FrameShowsRadar == upc = "draw" /\ ready => screen >= rendered
=============================================================================
