-------------------------------- MODULE Chat --------------------------------
(***************************************************************************)
(* The chat page of ew_chat.c in the UI loop: the loop builds a page, pumps *)
(* frames and tears the page down when another is wanted.  A frame runs the *)
(* commands of the serial port, the tick of the page and the events of the  *)
(* touch screen, all on one thread; questions are asked by other threads,   *)
(* whose answers count only for the generation they were asked in.          *)
(***************************************************************************)
EXTENDS LlmAsk

VARIABLES
  page,       \* g_page
  next,       \* g_page_pending
  phase,      \* where the loop is: building, in the gate, or open to changes
  step,       \* what the frame does next
  text,       \* the text of g_ta
  remote,     \* g_remote_text while g_remote_text_pending, else Nothing
  sendWaits,  \* g_remote_send_pending
  chat        \* the question being answered, see Conversations

CONSTANT Nothing   (* No remote text waits. *)

ASSUME ChatAssumption == Nothing \notin Questions \cup {Empty}

loopVars == <<page, next, phase, step>>
inputVars == <<text, remote, sendWaits>>
chatVars == <<askVars, loopVars, inputVars, chat>>

Pages == {"warn", "chat", "wifi"}
Texts == Questions \cup {Empty}

(* A reply remembers whose question it was written to and which question   *)
(* it answers: they are one unless the request was changed on its way.     *)
Replies == [to : Texts, of : Answers]
NoReply == [to |-> Empty, of |-> Failed]

(* g_pending, g_busy, g_reply_ready and g_reply; the thread whose          *)
(* generation equals g_ask_generation, which is how a generation is used;  *)
(* and what g_wait_bubble points to.  Gone: a widget deleted with its page.*)
Conversations ==
  [pending : Texts, busy : BOOLEAN, ready : BOOLEAN, reply : Replies,
   current : Asks \cup {Nobody}, bubble : {"none", "shown", "gone"}]

Quiet == [pending |-> Empty, busy |-> FALSE, ready |-> FALSE,
          reply |-> NoReply, current |-> Nobody, bubble |-> "none"]

ChatTypeOK ==
  /\ AskTypeOK
  /\ page \in Pages /\ next \in Pages
  /\ phase \in {"build", "gate", "open"}
  /\ step \in {"serial", "events"}
  /\ text \in Texts
  /\ remote \in Texts \cup {Nothing}
  /\ sendWaits \in BOOLEAN
  /\ chat \in Conversations

ChatInit ==
  /\ AskInit
  /\ page \in {"warn", "chat"} /\ next = "warn"
  /\ phase = "build" /\ step = "serial"
  /\ text = Empty /\ remote = Nothing /\ sendWaits = FALSE
  /\ chat = Quiet

-----------------------------------------------------------------------------
(* Asking. *)

(* start_ask, once the question is on the page: a new generation. *)
Asked(c, q, a) ==
  [c EXCEPT !.pending = q, !.busy = TRUE, !.ready = FALSE, !.bubble = "shown",
            !.current = a]

Replied(c, to, of) ==
  [c EXCEPT !.ready = TRUE, !.reply = [to |-> to, of |-> of]]

(* The question is answered at once, from the table of local replies or    *)
(* because memory or threads are short; or a thread asks the model.        *)
Launch(c, q) ==
  \/ \E of \in {q, Failed} :
       /\ chat' = Replied(Asked(c, q, Nobody), q, of)
       /\ UNCHANGED askVars
  \/ \E a \in Asks :
       /\ AskStarts(a, q)
       /\ chat' = Asked(c, q, a)

(* start_ask: no text, or a question still unanswered, and nothing happens.*)
StartAsk(c, t) ==
  IF t = Empty \/ c.busy
    THEN chat' = c /\ UNCHANGED askVars
    ELSE Launch(c, t)

(* send_from_ta: the text leaves the box whether it was asked or not. *)
SendText(c, t) ==
  /\ StartAsk(c, t)
  /\ text' = Empty

(* apply_remote_pending, with t as the pending text. *)
ApplyRemote(c, t) ==
  /\ remote' = Nothing
  /\ sendWaits' = FALSE
  /\ IF sendWaits THEN SendText(c, t)
                  ELSE text' = t /\ chat' = c /\ UNCHANGED askVars

-----------------------------------------------------------------------------
(* The UI loop. *)

(* Fault: the pointer to the wait bubble survives the build. *)
EnteredKeepingBubble(c) == [Quiet EXCEPT !.bubble = c.bubble]

(* chat_page_build: a new generation, idle, without a wait bubble. *)
Entered(c) == Quiet

(* lv_obj_clean and the build of a page other than the chat: the wait       *)
(* bubble is deleted, the pointer to it stays.                              *)
Left(c) == [c EXCEPT !.bubble = IF @ = "none" THEN "none" ELSE "gone"]

(* page_build after lv_obj_clean, and the start of the gate. *)
Build ==
  /\ phase = "build"
  /\ \/ /\ page = "chat" /\ remote # Nothing
        /\ ApplyRemote(Entered(chat), remote)
     \/ /\ page = "chat" /\ remote = Nothing
        /\ chat' = Entered(chat) /\ text' = Empty
        /\ UNCHANGED <<remote, sendWaits, askVars>>
     \/ /\ page # "chat"
        /\ chat' = Left(chat) /\ text' = Empty
        /\ UNCHANGED <<remote, sendWaits, askVars>>
  /\ next' = page
  /\ phase' = "gate" /\ step' = "serial"
  /\ UNCHANGED page

(* A frame begins: the keys and the serial commands are served. *)
AtSerial == phase # "build" /\ step = "serial"

(* poll_reply: a reply is shown once, in place of the wait bubble.  The     *)
(* thread it came from, if any, has ended.                                  *)
Polled(c) == IF c.ready THEN Quiet ELSE c

(* The queue of commands is empty, and page_tick follows. *)
Tick ==
  /\ AtSerial
  /\ chat' = IF page = "chat" THEN Polled(chat) ELSE chat
  /\ step' = "events"
  /\ UNCHANGED <<page, next, phase, inputVars, askVars>>

(* page_teardown of the chat page. *)
TornDown(c) == [Quiet EXCEPT !.bubble = c.bubble]

EndFrame == phase # "build" /\ step = "events"

StayInFrame ==
  /\ EndFrame
  /\ phase = "gate" \/ next = page
  /\ step' = "serial"
  /\ UNCHANGED <<page, next, phase, inputVars, chat, askVars>>

(* The gate's time is over: what was wanted meanwhile is forgotten. *)
GateEnds ==
  /\ EndFrame /\ phase = "gate"
  /\ phase' = "open" /\ step' = "serial"
  /\ next' = page
  /\ UNCHANGED <<page, inputVars, chat, askVars>>

Leave ==
  /\ EndFrame /\ phase = "open" /\ next # page
  /\ chat' = IF page = "chat" THEN TornDown(chat) ELSE chat
  /\ page' = next
  /\ phase' = "build" /\ step' = "serial"
  /\ UNCHANGED <<next, inputVars, askVars>>

-----------------------------------------------------------------------------
(* What the user does: on the screen while the events are served, on a     *)
(* keyboard at the start of the frame.                                     *)

Type(t) ==
  /\ phase # "build" /\ page = "chat" /\ t # text
  /\ text' = t
  /\ UNCHANGED <<loopVars, remote, sendWaits, chat, askVars>>

(* The send button and the enter keys. *)
Send ==
  /\ phase # "build" /\ page = "chat"
  /\ SendText(chat, text)
  /\ UNCHANGED <<loopVars, remote, sendWaits>>

(* A quick prompt is asked without passing through the box. *)
Chip(q) ==
  /\ phase # "build" /\ page = "chat"
  /\ StartAsk(chat, q)
  /\ UNCHANGED <<loopVars, inputVars>>

(* The buttons that change the page. *)
Navigate(p) ==
  /\ phase # "build"
  /\ p \in (IF page = "warn" THEN {"chat", "wifi"} ELSE {"warn"})
  /\ next' = p
  /\ UNCHANGED <<page, phase, step, inputVars, chat, askVars>>

-----------------------------------------------------------------------------
(* Commands of the serial port.  On the Wi-Fi page its own box takes the   *)
(* text and the keys, see WifiUi.                                          *)

(* @input, ew_chat_remote_set_text. *)
Input(t) ==
  /\ AtSerial
  /\ \/ /\ page = "chat"
        /\ ApplyRemote(chat, t)
        /\ UNCHANGED next
     \/ /\ page = "warn"
        /\ remote' = t /\ next' = "chat"
        /\ UNCHANGED <<text, sendWaits, chat, askVars>>
  /\ UNCHANGED <<page, phase, step>>

(* @submit: the same followed by the enter key. *)
Submit(t) ==
  /\ AtSerial
  /\ \/ /\ page = "chat"
        /\ SendText(chat, t)
        /\ remote' = Nothing /\ sendWaits' = FALSE
        /\ UNCHANGED next
     \/ /\ page = "warn"
        /\ remote' = t /\ sendWaits' = TRUE /\ next' = "chat"
        /\ UNCHANGED <<text, chat, askVars>>
  /\ UNCHANGED <<page, phase, step>>

(* @key enter, ew_chat_remote_key. *)
KeyEnter ==
  /\ AtSerial
  /\ \/ /\ page = "chat"
        /\ IF remote # Nothing
             THEN ApplyRemote(chat, remote)
             ELSE SendText(chat, text) /\ UNCHANGED <<remote, sendWaits>>
        /\ UNCHANGED next
     \/ /\ page = "warn"
        /\ sendWaits' = TRUE /\ next' = "chat"
        /\ UNCHANGED <<text, remote, chat, askVars>>
  /\ UNCHANGED <<page, phase, step>>

(* @goto, and @key escape, which goes to the alert page. *)
Goto(p) ==
  /\ AtSerial
  /\ next' = p
  /\ UNCHANGED <<page, phase, step, inputVars, chat, askVars>>

(* @ask: a thread of the serial port asks the model and prints the answer. *)
AskCommand(q) ==
  /\ AtSerial
  /\ \E a \in Asks : AskStarts(a, q)
  /\ UNCHANGED <<loopVars, inputVars, chat>>

-----------------------------------------------------------------------------
(* The end of a thread. *)

(* Fault: the thread publishes into whatever conversation there is. *)
PublishAlways(a) ==
  IF chat.busy THEN Replied(chat, request[a], answer[a]) ELSE chat

(* Fault: a failed question is not reported. *)
PublishSuccess(a) ==
  IF chat.current = a /\ answer[a] # Failed
    THEN [Replied(chat, request[a], answer[a]) EXCEPT !.current = Nobody]
    ELSE chat

(* ask_thread publishes only in the generation it was started in.  No other *)
(* thread can have that generation afterwards.                              *)
Publish(a) ==
  IF chat.current = a
    THEN [Replied(chat, request[a], answer[a]) EXCEPT !.current = Nobody]
    ELSE chat

Finish(a) ==
  /\ Returned(a)
  /\ chat' = Publish(a)
  /\ UNCHANGED <<loopVars, inputVars>>

Thinks(a) ==
  /\ AskStep(a)
  /\ UNCHANGED <<loopVars, inputVars, chat>>

-----------------------------------------------------------------------------

Loop == Build \/ Tick \/ StayInFrame \/ GateEnds \/ Leave
User ==
  \/ Send
  \/ \E t \in Texts : Type(t)
  \/ \E q \in Questions : Chip(q)
  \/ \E p \in Pages : Navigate(p)
Serial ==
  \/ KeyEnter
  \/ \E t \in Texts : Input(t) \/ Submit(t)
  \/ \E p \in Pages : Goto(p)
  \/ \E q \in Questions : AskCommand(q)

ChatNext ==
  \/ Loop
  \/ User
  \/ Serial
  \/ \E a \in Asks : Thinks(a) \/ Finish(a)

(* The loop keeps running frames, whose length is bounded, and the waits of *)
(* a thread all have time-outs.  The user and the serial port owe nothing.  *)
ChatFairness ==
  /\ WF_chatVars(Build) /\ WF_chatVars(Tick)
  /\ WF_chatVars(StayInFrame) /\ WF_chatVars(Leave)
  /\ \A a \in Asks :
       /\ WF_chatVars(Thinks(a))
       /\ WF_chatVars(Finish(a))

ChatSpec == ChatInit /\ [][ChatNext]_chatVars /\ ChatFairness

-----------------------------------------------------------------------------
(* Properties. *)

(* A reply that the page will show was written for the question that the   *)
(* page waits for, never for one of an older visit or of the serial port.  *)
ReplyIsForQuestion ==
  chat.ready => chat.busy /\ chat.reply.to = chat.pending

(* The page waits for exactly what someone is doing.  While it is busy its *)
(* wait bubble is shown, and there is a reply to show or the thread of this *)
(* generation is asking just this question; while it is not there is no     *)
(* bubble left, least of all one deleted with an older page.                *)
BusyIsServed ==
  /\ chat.busy =>
       /\ chat.bubble = "shown"
       /\ \/ chat.ready
          \/ /\ chat.current \in Asks
             /\ ask[chat.current] # "idle"
             /\ request[chat.current] = chat.pending
  /\ page = "chat" /\ phase # "build" /\ ~chat.busy => chat.bubble = "none"

(* The chat page does not stay busy: the answer comes, or the page is left. *)
AnswerComes == chat.busy ~> ~chat.busy

(* docs: a late answer does not replace the answer of the new page.  What   *)
(* the page is given answers its own question, or says that asking failed.  *)
AnswerFitsQuestion ==
  chat.ready => chat.reply.of \in {chat.pending, Failed}
=============================================================================
