# Edge Walker in TLA+

Specifications of the device program in `src/app/edge_walker/`: a bicycle
radar warner on NuttX. An LD2451 radar sends frames over a UART; the program
confirms approaching vehicles, sounds a buzzer and shows the warning on an LVGL
screen, and lets a language-model agent, a shell and a serial line raise alerts
and use a Wi-Fi modem (ESP-AT).

Each `X.tla` models one component, `MCX.tla` with its `.cfg` files gives TLC a
small instance, and the modules called `...Proofs` hold proofs checked by TLAPS.
`PROJECT.json` lists components, runs, hazards, findings, theorems, the mutants
that show that each property can be broken, and the lines of code each
definition models. Run everything here:

    tlc -workers 2 -config MCEwHold.cfg MCEwHold     # any run of PROJECT.json
    tlapm WifiProofs.tla                             # or another ...Proofs

## 1. Inventory

| part (code) | state it keeps | operations | interacts with |
|---|---|---|---|
| frame parser (`ew_ld2451.c`) | byte buffer, counters | feed, reset | safety worker feeds bytes |
| target choice (same) | sensitivity | decide, more-urgent order | one decision per frame |
| confirmation and hold (same) | `ew_hold_t`: latch, pending, times | reset, update | safety worker, once per frame and once per loop |
| safety worker (`ew_safety.c`) | snapshot, event ring, road ring | start, loop, take event | raises the buzzer floor, then publishes |
| buzzer (`alert_buzzer.c`) | two atomics, lock, worker thread | set, stop, beep, self-test, prepare | safety worker, UI, shells |
| alert page (`alert_lcd.c`, `alert_output.c`) | attached page, external alert | service tick, request poll, render, self-test | everything that shows or sounds |
| event ids and emission (`ew_agent.c`) | id counter | emit, register tool | page, agent, shell, serial |
| alert IPC (`ai_agent_ext/ew_alert_ipc.h`) | files in one directory, one static per consumer | publish, consume | agent's process to the alert page |
| UI loop and chat page (`ew_chat.c`) | page, ask generation, remote text | frame, page change, ask | serial, LLM, Wi-Fi page |
| serial control (`ew_serial_ctl.c`) | command ring | read, dispatch, worker threads | UI loop |
| Wi-Fi driver (`ew_wifi_at.c`) | device lock, scan lock, scan cache, credentials | probe, scan, join, forget, bringup, post, plain commands | page job, serial workers, boot thread, LLM |
| Wi-Fi page (`ew_wifi_ui.c`) | job, done flag, list, popup, network and password buffers | clicks, tick, build, teardown, job thread | driver, UI loop |
| LLM client (`ew_llm.c`) | configuration file, its backup and temporary file | configure, restore, ask | driver, chat page, serial control |
| stream splitter (`ew_esp_stream.c`) | `+IPD` state, poisoned or not | init, feed, expire | no caller on the device yet: only its host test feeds it |
| screen mirror (`ew_mirror.c`) | snapshot, mode, lease | tick, send | UI loop, PC panel |

What is hard: five kinds of threads (safety worker, buzzer worker, UI loop,
detached jobs, shells) share atomics, locks and static buffers; the clock wraps;
the byte stream is damaged; the IPC must survive failing file operations and
stopped processes; calls to the modem last tens of seconds while pages come and
go. What makes the parts correct is, in one line each: the parser loses no good
frame and accepts no bad one; an alarm starts only on confirmed evidence, rises
at once, is never released early and never outlives its evidence; the buzzer
sounds the more urgent of two levels and has one waveform; the page shows what
is heard; a request is applied at most once and its acknowledgement is true; the
modem has one user at a time and every call gives it back; the Wi-Fi page never
locks up, and saves what was joined; the chat page shows an answer only to the
question it waits for, and never waits for nobody; a rollback installs the first
configuration; a queue, a codec and a splitter give out what went in.

## 2. Modules

| module | models | main abstraction |
|---|---|---|
| `EwHold` | `ew_hold_reset`, `ew_hold_update`, the safety loop around them | a decision is a level and where it came from; milliseconds are ticks |
| `EwHoldProofs` | theorems about `EwHold` | |
| `EwDecide` | `ew_decide`, `ew_track_is_more_urgent` as operators, with a reference order | integer measurements as in the code |
| `Ld2451Parser` | the feed loop of the parser, one turn of its `while` per action | the bytes of one target are one symbol |
| `AlertSlot` | abstract: a mailbox of one cell | |
| `AlertIpc` | publish and consume, one action per file operation, faults, crashes, the documented recovery | JSON is readable or not |
| `Buzzer` | worker, floor, manual tone, beep, self-test | a frequency is a level |
| `EwAlert` | composition: safety worker, event ring, UI loop, serial, shell, agent | `EwHold` as any decision, the IPC as `AlertSlot`'s cell, `Buzzer` as its two words |
| `WifiAt` | operations of the modem for any number of threads | one AT exchange is one step |
| `WifiUi` | the Wi-Fi page and its job on top of `WifiAt` | strings are model values; typed text is an argument |
| `WifiProofs` | theorems about `WifiUi` and `WifiAt` | |
| `LlmAsk` | `ew_llm_ask_ex` and the HTTPS post below it, for several threads | a request is the question it asks, an answer the question it answers |
| `Chat` | the UI loop's gate, frames and page changes, the chat page, remote text and keys, on top of `LlmAsk` | a generation is the thread that has it; the text box holds any text |
| `LlmConfig` | save, backup and rollback of the configuration, one action per file operation, with power losses | a file is a setting, absent, or torn |
| `CommandQueue` | abstract: a bounded queue | |
| `SerialQueue` | the command ring between reader thread and UI loop | a command is a model value |
| `Mirror` | the run-length encoder of a frame and the panel's decoder | a pixel is a colour; 128 is `MaxCount` |
| `EspStream` | the splitter of the modem's bytes, with a modem sending items | the bytes the parser tells apart; `+IPD,` is one of them |
| `AlertIpcProofs`, `EwAlertProofs`, `BuzzerProofs` | theorems about `AlertIpc`, `EwAlert`, `Buzzer` | |
| `ParserProofs` | theorems about `EwDecide` and `Ld2451Parser` | |
| `ChatProofs` | theorems about `Chat` and `LlmConfig` | |
| `SerialProofs` | theorems about `SerialQueue`, `Mirror` and `EspStream` | |

Variables carry the names of the code in comments beside their declaration.
History variables, used by properties only, are declared last and marked.
Operators whose comment begins with "Fault:" are not part of the next-state
relation: they are the bugs that the mutants of `PROJECT.json` put in.

`EwHold.Wake .. Poll` is one iteration of `safety_worker`: the clock is sampled
once, each frame calls the update and one call without a frame ends the loop.
`EwAlert` splits the UI loop at every point where another thread's write can
be seen, with `upc` as its program counter: snapshot, events, request poll (the
check and the actuation apart), render, serial command, page code, drawing. In
`AlertIpc` a process can stop between any two file operations; in `Buzzer` the
two loads of `active_freq` are two steps. In `WifiAt` a call runs from `enter`
through the exchanges in which it holds `g_at_mu` to the steps behind `at_end`
(`save`, `unlink`, `publish`), which other threads interleave with.

`Chat` has one action for each thing that a UI frame does in order: keys and
serial commands, the page's tick, touch events, and then the loop's decision to
stay, to open the gate or to change the page. `g_ask_generation` is only compared
with the number a thread was started with, so `chat.current` names the thread
whose number would match, or none. A tear-down or a build makes it none, and the
thread runs on. `chat.bubble` tells a bubble on the screen from a pointer to one
that the clean-up of a page has deleted.

## 3. Runs

Passing runs:

- **hold** (`MCEwHold`). Limits are scaled: stale 3 ticks, clear 2, a clock of
  9, two frames to confirm, counter to 3. The clock wraps within a few iterations
  and `Horizon` = 6 exceeds every limit that ages are compared with. `MaxGap` = 3
  is the longest iteration: the loop sleeps 20 ms, so the assumption
  `ClearMs + MaxGap <= ClockMod` (2^32) is generous. `MaxSilence` bounds how long
  silence may last; the link's ages are true only within it (section 5).
  The default `EW_CONFIRM_FRAMES` is 1; 2 exercises the counting, and
  the theorems hold for any number.
- **ipc** (`MCAlertIpc`). Two publishers, two consumers, two events, three
  publish calls, two failing operations of any kind but reading the request, one
  crash. Two processes of a side are what mutual exclusion and the takeover
  of another consumer's completion need; with two faults a repaired step fails
  again. The run also shows that `AlertIpc` implements `AlertSlot`
  (`ImplementsSlot`, with the cell computed from the files).
- **ipc_live**. One consumer, three faults, no crash: every accepted request is
  answered. Fairness: the page's loop polls for ever and a started call
  returns; nobody is obliged to publish. A failure to give back the mutex is
  excluded because the code cannot repair it. With two consumers the one that
  owes a result may find the mutex taken each time, since a directory
  has no queue; the device runs one.
- **alert** (`MCEwAlert`). Two levels, a ring and a tick of two events, three
  event ids: the ring overflows and a tick does not drain it.
- **buzzer** (`MCBuzzer`). Two shells, three changes of the manual tone, one
  thread that cannot be created. Fairness: the worker runs; a beep is a timed
  loop; a setter waiting for the mutex gets it (strong fairness: a beep holds it
  for less than a second, shells beep at a person's pace, and a waiting thread is
  woken when it is released). `SetReturns` and `SettledLevelSounds` rest on that.
- **parser** (`MCLd2451Parser`). Two-byte header and tail, at most two targets,
  and an alphabet in which lengths, counts and targets overlap, so that a header
  may start inside a body and lengths may be wrong in every way. The buffer is
  bounded by the code, so the run covers streams of any length.
- **wifi** (`MCWifi`). One network, one page, one other caller with all
  operations; lists of zero and of one network differ in what a click does.
  Fairness: the job's thread runs and each AT exchange has a time-out
  (`at_tx`'s limits), and the UI loop ticks while the page is shown. The page's
  job never waits for another caller: `at_lock` gives up after 500 ms. There is
  no fairness for workers or for the user.
- **panel** (`MCPanel`). What the PC panel drives: `Chat`, `LlmConfig`,
  `SerialQueue`, `Mirror`, and `EspStream` beside them. They share no variable, so
  their product says nothing that the parts do not; `focus` is chosen once
  and says which part moves, and the run checks each part completely. Two ask
  threads and two questions are what an answer to another question needs; all
  three pages, the gate, remote text with and without the send flag and every
  order of them are reachable. Three settings make a backup of a second setting
  differ from the first. The ring has 4 slots and wraps. The mirror is checked for
  every picture of up to 9 pixels of two colours with packets of up to 4, so runs
  and literals end below, at and above the limit. The splitter gets lines and
  payloads that imitate what it looks for and that are as long as, and one longer
  than, it takes, in both connection modes. `AnswerComes` assumes that the loop
  keeps running frames and that an ask thread's waits have time-outs (those of
  `at_tx` and of the post), and nothing of the user or of the serial port.

Runs that show a disagreement between the code and what the repository says;
`PROJECT.json` quotes the sentence:

- **ipc_recovery**: the documented clean-up does not list `result.tmp`, so after
  a crash between writing and renaming it the slot stays occupied.
- **alert_paint**: the screen self-test paints from the shell's thread while
  the UI loop renders, so a frame may show less than the radar level.
- **wifi_saved** (two networks, two passwords): the join's strings are the page's
  static buffers. A click, a refused connect or leaving the page changes them
  while the join runs, and what is saved is not what was joined.
- **chat_answer** (the chat part of *panel*): the post formats its request into a
  static buffer before it owns the modem. Two asks may be alive, because leaving
  the chat page does not end its thread and the serial port asks as well; the
  later one replaces the request that the earlier one then sends, and the page
  shows the answer to the other question under its own. `ReplyIsForQuestion`, which
  is about whose reply is shown, holds nevertheless and is proved: the generation
  does its work, the text in the reply is wrong.

Everything is checked with deadlock detection where the system cannot stop; it
is off for ipc, alert and buzzer, whose bounds on calls and ids run out.

## 4. Proofs

**EwHoldProofs** proves, for every clock range and all limits that
`HoldAssumption` admits:

- `TypeCorrect`: `Spec => []TypeOK`.
- `InvariantHolds`: `Spec => []IInv`, the inductive invariant.
- `NoAlarmOutlivesEvidence`, `LatchAgeNeverWraps`, `AlarmIsItsMostUrgentFrame`
  and the action property `ReleaseWaits`.
- `ThreatIsShown` (`ConfirmedThreatShown`), from `StreakInvariant`.
- `LinkStaysTrue` (`LinkIsTrue`, from `LinkInvariant`) and the action property
  `AlarmIsConfirmed` (`ConfirmedBeforeAlarm`, from `CountInvariant`), both under
  `SilenceBelowClock`: no silence lasts as long as the clock's period.

None of the properties is inductive. That no alarm outlives its evidence needs
to know that the stored time of the latch is the true time of the last
supporting frame, which wraps; that it does not wrap needs the age to be below
`ClearMs` when the loop went to sleep; and that in turn is what the poll
establishes. `IInv` therefore joins `TypeOK` with `LatchIsFresh` (the stored age
equals the true age, which is below `ClearMs` while sleeping and below
`ClearMs + MaxGap` while reading), with `LatestIsLastFrame` and `EscalatesAtOnce`
(what the last frame recorded, and that a confirmed more urgent one was taken at
once), and with the ownership of the held measurement. The only assumption about
time is that one iteration of the loop lasts at most `MaxGap` and
`ClearMs + MaxGap <= ClockMod`. Each phase of `ew_hold_update` has a lemma that
says what it changes; the step lemmas combine them, one per action.

`StreakInv` says that the age of the last frame is true as long as it matters, that
the pending count is at least the true streak, and that a counted streak is held:
what escalates is kept through every poll, release and weaker frame until it is
`ClearMs` old. The other two theorems go the other way, from what the code has
counted to what happened, and there a wrapped age matters: after 2^32 ms of silence
an old frame looks recent, so a stale gap can be missed and a dead radar can look
alive. `SilenceBelowClock` excludes exactly that. It is a hypothesis of these two
theorems and of their lemmas, not of the module, and the run *hold* satisfies it.

**WifiProofs** proves, for any number of callers, networks, passwords and scan
results, under `WifiAssumption` (the job is not a worker and `Nobody` is no
caller):

- `PageInvariant`: `Spec => []IInv`.
- `ModemHasOneUser` (`HolderTalks`): the device lock and the scan lock are held by
  exactly the calls inside the regions they protect, so every one of the exits of
  every operation gives them back.
- `OneJobAtATime` (`OneJob`): the job's thread, its name and its done flag agree.
- `RowsAreWhatTheyJoin` (`IdleRowsAreCurrent`): inductive by itself, since only a
  job's thread changes the list and no thread ends its job.
- `PageTypes` (`TypeOK`): what each call carries is of its task, so that what an exit
  copies to the page, the cache or the flash is what that variable may hold.

`HolderTalks` alone is not inductive, since where a call goes next depends on its
task: a failing scan has the scan lock to give back, another call has not. `IInv`
adds `PlaceSuitsTask`, which ties the place of a call to its task. The argument is
one lemma about the shape of a step, `MoveKeepsLocks`: a step that moves one call
and takes or gives each lock exactly when it enters or leaves that lock's region
keeps the invariant. `CallMoves` then shows that each of the 27 steps of a call
has this shape, and the page's and the workers' steps reduce to the same lemma.

**ChatProofs** proves, for any number of threads and questions, under
`AskAssumption` and `ChatAssumption` (the model values differ):

- `ChatIsSound`: `ChatSpec => []ChatInv`, the inductive invariant;
- `ChatTypeCorrect`, `RepliesKeptApart` (`ReplyIsForQuestion`) and `WaitsAreServed`
  (`BusyIsServed`).

`BusyIsServed` is not inductive: a page that is built must find no bubble left, and
a thread that ends must find its request unchanged. The invariant adds that a page
that is not the chat page is not busy, that the thread of the current generation is
alive and holds the pending question, and when a bubble may be gone.

It also proves `RollbackCorrect` (`RollbackRestores`): what each file of the
configuration holds at each step of a save or a rollback, for failures and power
losses between any two.

**ParserProofs** proves, for any header, tail, alphabet and number of targets that
`ParserAssumption` admits (a length fits its byte; a target symbol stands for a
physical measurement):

- `ParserTypes` (`TypeOK`): the buffer never exceeds one frame;
- `AcceptedFramesAreGood` (`OnlyGoodFrames`): what passes the checks of header,
  length, count and tail is the encoding of some list of targets, which the proof
  builds;
- `GoodFramesArrive` (`NoFrameLost`): at every position that is given up, no good
  frame stands or begins. The proof takes a good frame that would be lost and shows
  that each check of the code would have passed on it;
- `ChoiceIsMostUrgent` (`MostUrgentChosen`): the urgency of `EwDecide`, levels before
  times, is transitive and total on physical measurements, although the times are
  compared by cross-multiplication, so the last of a chain of pairwise choices beats
  them all.

**SerialProofs** proves what travels over serial lines:

- `RingIsAQueue` (`ImplementsQueue`): every step of the ring is a step of
  `CommandQueue` or a stutter, for any number of slots. The argument is the mapping
  from slots to positions, which is a bijection as long as one slot is free.
- `MirrorCorrect` (`MirrorIsLossless`), for pictures of any size over any colours and
  any `MaxCount`: a packet decodes to the pixels it was made of (`PacketDecodes`),
  and what was sent and what is left add up to the announced size (`MirrorInv`).
- `SplitCorrect` (`SplitAsSent`), for any responses and payloads that
  `StreamAssumption` admits: a response has no newline and does not begin like a
  prompt or a frame, without which nobody could tell them apart; a link is one digit
  (the code knows 0 to 4); a size has any number of digits up to `SizeWidth`, and the
  line buffer holds the longest header (the code's 512 bytes do). The parser refuses
  a size as soon as the digits read so far pass the limit: they pass it exactly when
  the whole number does, since no digit makes a value less (`ValuesGrow`,
  `DecimalValue`). `StreamInv` says which bytes
  of the item that is under way the buffer holds: all of them before and
  in a header (`Reading`), those after the colon in a payload (`InPayload`), none
  once it is given (`Done`). Each step of the parser is a lemma that looks at
  the next byte of a line, a prompt, a frame or a misfit.

Three recursive definitions of these modules are reasoned about without the induction
theorems: the choice over a list, the size of a frame and a decimal number. Where
the definition itself must be unfolded up to a place nobody bounds, the proof takes
the least place at which the claim fails, from the well-foundedness of the naturals
(`LeastNumber`), and derives a contradiction there.

**AlertIpcProofs** proves, for any number of publishers, consumers and events, any
set of failing operations and any number of faults and crashes, under
`IpcAssumption`:

- `IpcTypeCorrect`, `NoAlertAppliedTwice` (`AppliedAtMostOnce`),
  `AcknowledgementTrue` (`AckIsTrue`) and `AcceptedRequestKept` (`NoRequestLost`);
- `FilesAreAMailbox` (`ImplementsSlot`), assuming that a claimed request can be
  read: every file operation, crash, restart and recovery is a step of `AlertSlot`
  or a stutter. Without the assumption it fails: such a request is acknowledged
  under event id 0 (section 5).

The invariant says that the mutex directory is there while a process is inside and
that at most one is (`MutexHeld`), what each process knows where it stands
(`PublisherKnows`, `ConsumerKnows`: a register still equals the file it was read
from or is about to become), that every record names the outcome it had
(`Records`), that at most one consumer owes a result and owes it for the claimed
request (`Owed`), and that two publishers never prepare one event (`Names`). Since
others stay outside, only the actor's knowledge has to be shown again; each file
operation is one case of the step lemma of its side.

**EwAlertProofs** proves, for any number of levels, any ring and any tick size,
`AlertTypeCorrect`, `NoChangeUnaccounted` (`RingTracksSnapshot`),
`ToneIsTheShownAlert` (`ManualMatchesExternal`) and `FrameShowsTheTone`
(`SeenIsHeard`). The ring needs that ids are handed out in order and bound those in
use (`IdsInOrder`). `SeenIsHeard` needs that the floor is the level of the decision
about to be published or published (`FloorIsDecided`) and that the page is as it
was rendered until someone else paints (`DrawnAsRendered`).

**BuzzerProofs** proves, for any number of shells, `BuzzerTypeCorrect`,
`PinHasOneOwner` (`OneWaveform`) and `RadarIsNeverMasked` (`BeepNeverMasksRadar`):
a shell holds the lock exactly while it is in a beep or the self-test
(`LockHeld`), a waveform is driven by the holder before any worker exists
(`BeepHasPin`), and the radar needs the worker (`RadarNeedsWorker`).

Every invariant and refinement that a passing run checks is proved, and so is every
action property of those runs. Model-checked only: the liveness properties (ipc_live,
buzzer, wifi, panel), since fairness and `ENABLED` are beyond the prover, and what the
violation runs show.

## 5. What is not modelled, and the plan

Not modelled: fonts, layout, colours, text; parsing of commands and JSON (only
whether it succeeds); host tests, scripts, gateways and the Android viewer,
which are not the device program; of the alert IPC, a power loss inside one
file operation.
Data races on plain variables between the Wi-Fi job and the page are modelled
as whole reads and writes of a list, not as torn ones; the sensitivity
changes only between frames. Of the mirror, the frame header, raw frames, mode,
period and lease are left out; of the serial control, synthetic touches and the
road and sensitivity replies; of the safety worker, the road ring and the opening
of the UART; of the Wi-Fi driver, the bytes below an exchange, so the answer of an
abandoned command that arrives during the next one.

Of the configuration, a loss that only `fclose` would report: the code ignores its
result (`ew_llm.c:172` and 224), and `LlmConfig` assumes that a file keeps what was
flushed to it.

Three things the code does that the models show and no run checks as a property:

- The link state comes from unsigned ages without a bound (`ew_ld2451.c:429`), so
  after 2^32 ms (49.7 days) of silence a dead radar reads as live for a moment.
  `LinkIsTrue` holds within `MaxSilence`, which is below the clock's period. A held
  alarm is not affected (`LatchAgeNeverWraps`).
- A claimed alert request that cannot be read is acknowledged with event id 0
  (`ew_alert_ipc.h:449`), so its publisher's id is never acknowledged.
- A page change asked for during the gate is forgotten (`ew_chat.c:1360`) but the
  remote text or the send flag that came with it is kept until the chat page is
  next built. A send flag without a text then sends a text that arrives later.

What is left, most important first:

1. The modem's own association in `WifiAt`, to state what the published link and
   the saved credentials mean after concurrent joins and forgets, and after a join
   that fails once the old association was dropped.
2. The modem's bytes as messages below an exchange, with `EspStream` as the reader,
   for the late answer of an abandoned command.
3. The road ring of `ew_safety.c` 34-87 and the mirror's lease.
4. Proofs: `AnswerComes` and the other liveness properties stay with TLC. Worth adding
   is that `EwAlert`'s abstract decisions are those of `EwHold`, as a refinement.

## 6. Bounds at a glance

`MaxGap`, `MaxSilence`, `Horizon` (EwHold); `MaxTries`, `MaxFaults`,
`MaxCrashes` (AlertIpc); `MaxId` (EwAlert); `MaxSets`, `MaxFails` (Buzzer). The
parser, the chat, the configuration, the queue, the splitter and the Wi-Fi modules
need none: their state is finite by itself. `MaxPixels` bounds the pictures of the
mirror.
