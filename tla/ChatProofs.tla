----------------------------- MODULE ChatProofs -----------------------------
(***************************************************************************)
(* The chat page never mixes conversations up: proofs for any number of     *)
(* threads and questions.  The invariant adds to the properties of Chat      *)
(* that only the built chat page is busy and that the thread of the current *)
(* generation is at work on the question the page waits for.  At the end,   *)
(* the configuration that the threads ask with: what a rollback restores.   *)
(***************************************************************************)
EXTENDS Chat, LlmConfig, TLAPS

(* A thread that has started has a question; one that may send has put one *)
(* into the request buffer.                                                *)
AskInv ==
  /\ AskTypeOK
  /\ \A a \in Asks : ask[a] # "idle" => request[a] \in Questions
  /\ \A a \in Asks : ask[a] \in {"begin", "exchange"} => http \in Questions

(* What holds of a conversation, on whatever page. *)
Sound(c) ==
  /\ c.ready => c.busy /\ c.reply.to = c.pending
  /\ c.busy => c.bubble = "shown" /\ (c.ready \/ c.current \in Asks)
  /\ c.current \in Asks =>
       c.busy /\ ask[c.current] # "idle" /\ request[c.current] = c.pending

(* Only the built chat page waits, and it keeps no bubble of an older page.*)
OnlyChatWaits ==
  /\ page # "chat" \/ phase = "build" => ~chat.busy
  /\ page = "chat" /\ phase # "build" /\ ~chat.busy => chat.bubble = "none"

LoopTypeOK ==
  /\ page \in Pages /\ next \in Pages
  /\ phase \in {"build", "gate", "open"}
  /\ step \in {"serial", "events"}
  /\ text \in Texts
  /\ remote \in Texts \cup {Nothing}
  /\ sendWaits \in BOOLEAN

ChatInv ==
  /\ AskInv
  /\ LoopTypeOK
  /\ chat \in Conversations
  /\ Sound(chat)
  /\ OnlyChatWaits

-----------------------------------------------------------------------------
(* The threads. *)

(* A thread starts only with a question, and leaves the others alone. *)
LEMMA AskStartsKeepsAskInv ==
  ASSUME AskInv, NEW a \in Asks, NEW q \in Questions, AskStarts(a, q)
  PROVE  /\ AskInv'
         /\ ask[a] = "idle" /\ ask'[a] # "idle" /\ request'[a] = q
         /\ \A b \in Asks \ {a} : ask'[b] = ask[b] /\ request'[b] = request[b]
  BY DEF AskInv, AskTypeOK, AskStarts, Goes, Places

LEMMA AskStepKeepsAskInv ==
  ASSUME AskInv, NEW a \in Asks, AskStep(a)
  PROVE  /\ AskInv'
         /\ request' = request
         /\ ask[a] # "idle" /\ ask'[a] # "idle"
         /\ \A b \in Asks \ {a} : ask'[b] = ask[b]
<1>1. CASE Prepare(a)
  BY <1>1 DEF AskInv, AskTypeOK, Prepare, Goes, Places
<1>2. CASE Format(a)
  BY <1>2 DEF AskInv, AskTypeOK, Format, Goes, Places
<1>3. CASE Begin(a)
  BY <1>3 DEF AskInv, AskTypeOK, Begin, Goes, Places
<1>4. CASE GiveUp(a)
  BY <1>4 DEF AskInv, AskTypeOK, GiveUp, Goes, Places
<1>5. CASE Exchange(a)
  <2>1. answer' \in [Asks -> Answers]
    BY <1>5 DEF AskInv, AskTypeOK, Exchange, Answers
  <2> QED
    BY <1>5, <2>1 DEF AskInv, AskTypeOK, Exchange, Goes, Places
<1> QED BY <1>1, <1>2, <1>3, <1>4, <1>5 DEF AskStep

(* A thread that returns is idle again, whatever became of its answer. *)
LEMMA ReturnedKeepsAskInv ==
  ASSUME AskInv, NEW a \in Asks, Returned(a)
  PROVE  /\ AskInv'
         /\ request[a] \in Questions /\ answer[a] \in Answers
         /\ \A b \in Asks \ {a} : ask'[b] = ask[b] /\ request'[b] = request[b]
  BY DEF AskInv, AskTypeOK, Returned, Goes, Places, Answers

-----------------------------------------------------------------------------
(* Asking from the page. *)

LEMMA QuietIsSound == Quiet \in Conversations /\ Sound(Quiet) /\ ~Quiet.busy
  BY AskAssumption DEF Quiet, Conversations, Sound, NoReply, Replies, Texts,
     Answers

(* A question is taken up only by an idle page, and then the page is busy  *)
(* with just that question.                                                *)
LEMMA StartAskIsSound ==
  ASSUME AskInv, NEW c \in Conversations, Sound(c), NEW t \in Texts,
         StartAsk(c, t)
  PROVE  /\ AskInv'
         /\ chat' \in Conversations
         /\ Sound(chat)'
         /\ chat' = c \/ chat'.busy
<1>1. CASE t = Empty \/ c.busy
  BY <1>1 DEF StartAsk, AskInv, AskTypeOK, askVars, Sound
<1>2. CASE ~(t = Empty \/ c.busy)
  <2>1. t \in Questions /\ c.current \notin Asks /\ Launch(c, t)
    BY <1>2 DEF StartAsk, Texts, Sound
  <2>2. CASE \E of \in {t, Failed} :
                chat' = Replied(Asked(c, t, Nobody), t, of) /\ UNCHANGED askVars
    <3>1. PICK of \in {t, Failed} :
                chat' = Replied(Asked(c, t, Nobody), t, of) /\ UNCHANGED askVars
      BY <2>2
    <3>2. [to |-> t, of |-> of] \in Replies
      BY <2>1, <3>1 DEF Replies, Texts, Answers
    <3>3. chat' = [pending |-> t, busy |-> TRUE, ready |-> TRUE,
                   reply |-> [to |-> t, of |-> of], current |-> Nobody,
                   bubble |-> "shown"]
      BY <3>1 DEF Replied, Asked, Conversations
    <3>4. chat' \in Conversations
      BY <3>2, <3>3, <2>1 DEF Conversations
    <3> QED
      BY <3>1, <3>3, <3>4, AskAssumption DEF Sound, AskInv, AskTypeOK, askVars
  <2>3. CASE \E a \in Asks : AskStarts(a, t) /\ chat' = Asked(c, t, a)
    <3>1. PICK a \in Asks : AskStarts(a, t) /\ chat' = Asked(c, t, a)
      BY <2>3
    <3>2. /\ AskInv'
          /\ ask'[a] # "idle" /\ request'[a] = t
      BY <3>1, <2>1, AskStartsKeepsAskInv
    <3>3. chat' = [pending |-> t, busy |-> TRUE, ready |-> FALSE,
                   reply |-> c.reply, current |-> a, bubble |-> "shown"]
      BY <3>1 DEF Asked, Conversations
    <3>4. chat' \in Conversations
      BY <3>3, <2>1 DEF Conversations
    <3> QED BY <3>2, <3>3, <3>4 DEF Sound
  <2> QED BY <2>1, <2>2, <2>3 DEF Launch
<1> QED BY <1>1, <1>2

-----------------------------------------------------------------------------
(* The inductive invariant. *)

LEMMA ChatInitInv == ChatInit => ChatInv
<1> SUFFICES ASSUME ChatInit PROVE ChatInv
  OBVIOUS
<1>1. AskInv
  BY DEF ChatInit, AskInit, AskInv, AskTypeOK, Places, Answers
<1>2. LoopTypeOK
  BY DEF ChatInit, LoopTypeOK, Pages, Texts
<1>3. OnlyChatWaits
  BY QuietIsSound DEF ChatInit, OnlyChatWaits
<1> QED BY <1>1, <1>2, <1>3, QuietIsSound DEF ChatInit, ChatInv

(* What the box and the remote text become when something is sent. *)
LEMMA ApplyRemoteIsSound ==
  ASSUME AskInv, NEW c \in Conversations, Sound(c), NEW t \in Texts,
         sendWaits \in BOOLEAN, ApplyRemote(c, t)
  PROVE  /\ AskInv'
         /\ chat' \in Conversations
         /\ Sound(chat)'
         /\ chat' = c \/ chat'.busy
         /\ text' \in Texts /\ remote' = Nothing /\ sendWaits' = FALSE
<1>1. CASE sendWaits
  BY <1>1, StartAskIsSound DEF ApplyRemote, SendText, Texts
<1>2. CASE ~sendWaits
  BY <1>2 DEF ApplyRemote, AskInv, AskTypeOK, askVars, Sound
<1> QED BY <1>1, <1>2

LEMMA BuildKeepsInv == ChatInv /\ Build => ChatInv'
<1> SUFFICES ASSUME ChatInv, Build PROVE ChatInv'
  OBVIOUS
<1>1. page' = page /\ phase' = "gate" /\ step' = "serial" /\ next' = page
  BY DEF Build
<1>2. CASE page = "chat" /\ remote # Nothing /\ ApplyRemote(Entered(chat), remote)
  <2>1. remote \in Texts /\ sendWaits \in BOOLEAN /\ AskInv
    BY <1>2 DEF ChatInv, LoopTypeOK
  <2>2. /\ AskInv' /\ chat' \in Conversations /\ Sound(chat)'
        /\ chat' = Quiet \/ chat'.busy
        /\ text' \in Texts /\ remote' = Nothing /\ sendWaits' = FALSE
    BY <1>2, <2>1, QuietIsSound, ApplyRemoteIsSound DEF Entered
  <2>3. OnlyChatWaits'
    BY <1>1, <1>2, <2>2 DEF OnlyChatWaits, Quiet
  <2> QED BY <1>1, <2>2, <2>3 DEF ChatInv, LoopTypeOK
<1>3. CASE /\ page = "chat" /\ remote = Nothing
           /\ chat' = Entered(chat) /\ text' = Empty
           /\ UNCHANGED <<remote, sendWaits, askVars>>
  <2>1. Sound(chat)' /\ chat' \in Conversations
    BY <1>3, QuietIsSound DEF Entered, Sound, Quiet
  <2>2. OnlyChatWaits'
    BY <1>1, <1>3 DEF OnlyChatWaits, Entered, Quiet
  <2> QED
    BY <1>1, <1>3, <2>1, <2>2 DEF ChatInv, LoopTypeOK, AskInv, AskTypeOK,
       askVars, Texts
<1>4. CASE /\ page # "chat"
           /\ chat' = Left(chat) /\ text' = Empty
           /\ UNCHANGED <<remote, sendWaits, askVars>>
  <2>1. ~chat.busy /\ ~chat.ready /\ chat.current \notin Asks
    BY <1>4 DEF ChatInv, OnlyChatWaits, Sound
  <2>2. /\ chat' \in Conversations
        /\ ~chat'.busy /\ ~chat'.ready /\ chat'.current \notin Asks
    BY <1>4, <2>1 DEF ChatInv, Left, Conversations
  <2>3. Sound(chat)' /\ OnlyChatWaits'
    BY <1>1, <1>4, <2>2 DEF Sound, OnlyChatWaits
  <2> QED
    BY <1>1, <1>4, <2>2, <2>3 DEF ChatInv, LoopTypeOK, AskInv, AskTypeOK,
       askVars, Texts
<1> QED BY <1>2, <1>3, <1>4 DEF Build

LEMMA TickKeepsInv == ChatInv /\ Tick => ChatInv'
<1> SUFFICES ASSUME ChatInv, Tick PROVE ChatInv'
  OBVIOUS
<1>1. chat' = chat \/ chat' = Quiet
  BY DEF Tick, Polled
<1>2. AskInv' /\ LoopTypeOK'
  BY DEF Tick, ChatInv, LoopTypeOK, AskInv, AskTypeOK, askVars, inputVars
<1>3. chat' \in Conversations /\ Sound(chat)' /\ OnlyChatWaits'
  <2>1. UNCHANGED <<ask, request, page, phase>>
    BY DEF Tick, askVars
  <2>2. CASE chat' = chat
    BY <2>1, <2>2 DEF ChatInv, Sound, OnlyChatWaits
  <2>3. CASE chat' = Quiet
    BY <2>1, <2>3, QuietIsSound DEF ChatInv, Sound, OnlyChatWaits, Quiet
  <2> QED BY <1>1, <2>2, <2>3
<1> QED BY <1>2, <1>3 DEF ChatInv

(* The frame's end: the conversation is left alone or torn down. *)
LEMMA EndOfFrameKeepsInv == ChatInv /\ (StayInFrame \/ GateEnds \/ Leave) => ChatInv'
<1> SUFFICES ASSUME ChatInv, StayInFrame \/ GateEnds \/ Leave PROVE ChatInv'
  OBVIOUS
<1>1. AskInv'
  BY DEF StayInFrame, GateEnds, Leave, ChatInv, AskInv, AskTypeOK, askVars
<1>2. CASE StayInFrame \/ GateEnds
  BY <1>1, <1>2 DEF StayInFrame, GateEnds, EndFrame, ChatInv, LoopTypeOK, Sound,
     OnlyChatWaits, askVars, inputVars
<1>3. CASE Leave
  <2>1. LoopTypeOK'
    BY <1>3 DEF Leave, ChatInv, LoopTypeOK, inputVars
  <2>2. /\ chat' \in Conversations
        /\ ~chat'.busy /\ ~chat'.ready /\ chat'.current \notin Asks
    <3>1. CASE page = "chat"
      <4>1. chat' = [pending |-> Empty, busy |-> FALSE, ready |-> FALSE,
                     reply |-> NoReply, current |-> Nobody,
                     bubble |-> chat.bubble]
        BY <1>3, <3>1 DEF Leave, TornDown, Quiet
      <4> QED
        BY <4>1, QuietIsSound, AskAssumption DEF ChatInv, Conversations, Quiet
    <3>2. CASE page # "chat"
      BY <1>3, <3>2 DEF Leave, ChatInv, OnlyChatWaits, Sound
    <3> QED BY <3>1, <3>2
  <2>3. Sound(chat)' /\ OnlyChatWaits'
    BY <1>3, <2>2 DEF Leave, Sound, OnlyChatWaits
  <2> QED BY <1>1, <2>1, <2>2, <2>3 DEF ChatInv
<1> QED BY <1>2, <1>3

(* What is asked on the built chat page keeps the invariant. *)
LEMMA AskedOnPageKeepsInv ==
  ASSUME ChatInv, page = "chat", phase # "build", UNCHANGED <<page, phase>>,
         AskInv', LoopTypeOK', chat' \in Conversations, Sound(chat)',
         chat' = chat \/ chat'.busy
  PROVE  ChatInv'
  BY DEF ChatInv, OnlyChatWaits

LEMMA UserKeepsInv == ChatInv /\ User => ChatInv'
<1> SUFFICES ASSUME ChatInv, User PROVE ChatInv'
  OBVIOUS
<1> USE DEF ChatInv
<1>1. CASE Send
  <2>1. StartAsk(chat, text) /\ text' = Empty /\ text \in Texts
    BY <1>1 DEF Send, SendText, LoopTypeOK
  <2>2. LoopTypeOK'
    BY <1>1, <2>1 DEF Send, LoopTypeOK, loopVars, Texts
  <2>3. page = "chat" /\ phase # "build" /\ UNCHANGED <<page, phase>>
    BY <1>1 DEF Send, loopVars
  <2> QED BY <2>1, <2>2, <2>3, StartAskIsSound, AskedOnPageKeepsInv
<1>2. ASSUME NEW t \in Texts, Type(t) PROVE ChatInv'
  BY <1>2 DEF Type, LoopTypeOK, Sound, OnlyChatWaits, AskInv, AskTypeOK,
     loopVars, askVars
<1>3. ASSUME NEW q \in Questions, Chip(q) PROVE ChatInv'
  <2>1. StartAsk(chat, q) /\ q \in Texts
    BY <1>3 DEF Chip, Texts
  <2>2. LoopTypeOK'
    BY <1>3 DEF Chip, LoopTypeOK, loopVars, inputVars
  <2>3. page = "chat" /\ phase # "build" /\ UNCHANGED <<page, phase>>
    BY <1>3 DEF Chip, loopVars
  <2> QED BY <2>1, <2>2, <2>3, StartAskIsSound, AskedOnPageKeepsInv
<1>4. ASSUME NEW p \in Pages, Navigate(p) PROVE ChatInv'
  BY <1>4 DEF Navigate, LoopTypeOK, Sound, OnlyChatWaits, AskInv, AskTypeOK,
     inputVars, askVars
<1> QED BY <1>1, <1>2, <1>3, <1>4 DEF User

LEMMA SerialKeepsInv == ChatInv /\ Serial => ChatInv'
<1> SUFFICES ASSUME ChatInv, Serial PROVE ChatInv'
  OBVIOUS
<1> USE DEF ChatInv
(* Off the chat page the commands only leave requests for the loop. *)
<1>1. ASSUME UNCHANGED <<page, phase, step, chat, askVars, text>>, next' \in Pages,
             remote' \in Texts \cup {Nothing}, sendWaits' \in BOOLEAN
      PROVE  ChatInv'
  BY <1>1 DEF LoopTypeOK, Sound, OnlyChatWaits, AskInv, AskTypeOK, askVars
<1>2. "chat" \in Pages
  BY DEF Pages
<1>3. CASE KeyEnter
  <2>1. CASE page = "chat" /\ remote # Nothing /\ ApplyRemote(chat, remote)
             /\ UNCHANGED next
    <3>1. phase # "build" /\ UNCHANGED <<page, phase, step>>
      BY <1>3 DEF KeyEnter, AtSerial
    <3>2. remote \in Texts /\ sendWaits \in BOOLEAN
      BY <2>1 DEF LoopTypeOK
    <3>3. /\ AskInv' /\ chat' \in Conversations /\ Sound(chat)'
          /\ chat' = chat \/ chat'.busy
          /\ text' \in Texts /\ remote' = Nothing /\ sendWaits' = FALSE
      BY <2>1, <3>2, ApplyRemoteIsSound
    <3>4. LoopTypeOK'
      BY <2>1, <3>1, <3>3 DEF LoopTypeOK
    <3> QED BY <2>1, <3>1, <3>3, <3>4, AskedOnPageKeepsInv
  <2>2. CASE page = "chat" /\ SendText(chat, text)
             /\ UNCHANGED <<next, remote, sendWaits>>
    <3>1. phase # "build" /\ UNCHANGED <<page, phase, step>>
      BY <1>3 DEF KeyEnter, AtSerial
    <3>2. StartAsk(chat, text) /\ text' = Empty /\ text \in Texts
      BY <2>2 DEF SendText, LoopTypeOK
    <3>3. LoopTypeOK'
      BY <2>2, <3>1, <3>2 DEF LoopTypeOK, Texts
    <3> QED BY <2>2, <3>1, <3>2, <3>3, StartAskIsSound, AskedOnPageKeepsInv
  <2>3. CASE page = "warn" /\ sendWaits' = TRUE /\ next' = "chat"
             /\ UNCHANGED <<text, remote, chat, askVars>>
    BY <1>1, <1>2, <1>3, <2>3 DEF KeyEnter, LoopTypeOK
  <2> QED BY <1>3, <2>1, <2>2, <2>3 DEF KeyEnter
<1>4. ASSUME NEW t \in Texts, Input(t) PROVE ChatInv'
  <2>1. CASE page = "chat" /\ ApplyRemote(chat, t) /\ UNCHANGED next
    <3>1. phase # "build" /\ UNCHANGED <<page, phase, step>>
      BY <1>4 DEF Input, AtSerial
    <3>2. /\ AskInv' /\ chat' \in Conversations /\ Sound(chat)'
          /\ chat' = chat \/ chat'.busy
          /\ text' \in Texts /\ remote' = Nothing /\ sendWaits' = FALSE
      BY <2>1, ApplyRemoteIsSound DEF LoopTypeOK
    <3>3. LoopTypeOK'
      BY <2>1, <3>1, <3>2 DEF LoopTypeOK
    <3> QED BY <2>1, <3>1, <3>2, <3>3, AskedOnPageKeepsInv
  <2>2. CASE page = "warn" /\ remote' = t /\ next' = "chat"
             /\ UNCHANGED <<text, sendWaits, chat, askVars>>
    BY <1>1, <1>2, <1>4, <2>2 DEF Input, LoopTypeOK
  <2> QED BY <1>4, <2>1, <2>2 DEF Input
<1>5. ASSUME NEW t \in Texts, Submit(t) PROVE ChatInv'
  <2>1. CASE page = "chat" /\ SendText(chat, t)
             /\ remote' = Nothing /\ sendWaits' = FALSE /\ UNCHANGED next
    <3>1. phase # "build" /\ UNCHANGED <<page, phase, step>>
      BY <1>5 DEF Submit, AtSerial
    <3>2. StartAsk(chat, t) /\ text' = Empty
      BY <2>1 DEF SendText
    <3>3. LoopTypeOK'
      BY <2>1, <3>1, <3>2 DEF LoopTypeOK, Texts
    <3> QED BY <2>1, <3>1, <3>2, <3>3, StartAskIsSound, AskedOnPageKeepsInv
  <2>2. CASE page = "warn" /\ remote' = t /\ sendWaits' = TRUE
             /\ next' = "chat" /\ UNCHANGED <<text, chat, askVars>>
    BY <1>1, <1>2, <1>5, <2>2 DEF Submit
  <2> QED BY <1>5, <2>1, <2>2 DEF Submit
<1>6. ASSUME NEW p \in Pages, Goto(p) PROVE ChatInv'
  BY <1>1, <1>6 DEF Goto, LoopTypeOK, inputVars
<1>7. ASSUME NEW q \in Questions, AskCommand(q) PROVE ChatInv'
  <2>1. PICK a \in Asks : AskStarts(a, q)
    BY <1>7 DEF AskCommand
  <2>2. /\ AskInv' /\ ask[a] = "idle"
        /\ \A b \in Asks \ {a} : ask'[b] = ask[b] /\ request'[b] = request[b]
    BY <2>1, AskStartsKeepsAskInv
  <2>3. UNCHANGED <<loopVars, inputVars, chat>>
    BY <1>7 DEF AskCommand
  <2>4. Sound(chat)'
    BY <2>2, <2>3 DEF Sound
  <2> QED
    BY <2>2, <2>3, <2>4 DEF LoopTypeOK, OnlyChatWaits, loopVars, inputVars
<1> QED BY <1>3, <1>4, <1>5, <1>6, <1>7 DEF Serial

LEMMA ThreadKeepsInv ==
  ChatInv /\ (\E a \in Asks : Thinks(a) \/ Finish(a)) => ChatInv'
<1> SUFFICES ASSUME ChatInv, NEW a \in Asks, Thinks(a) \/ Finish(a) PROVE ChatInv'
  OBVIOUS
<1> USE DEF ChatInv
<1>1. CASE Thinks(a)
  <2>1. /\ AskInv' /\ request' = request /\ ask[a] # "idle" /\ ask'[a] # "idle"
        /\ \A b \in Asks \ {a} : ask'[b] = ask[b]
    BY <1>1, AskStepKeepsAskInv DEF Thinks
  <2>2. UNCHANGED <<loopVars, inputVars, chat>>
    BY <1>1 DEF Thinks
  <2>3. Sound(chat)'
    BY <2>1, <2>2 DEF Sound
  <2> QED
    BY <2>1, <2>2, <2>3 DEF LoopTypeOK, OnlyChatWaits, loopVars, inputVars
<1>2. CASE Finish(a)
  <2>1. /\ AskInv' /\ request[a] \in Questions /\ answer[a] \in Answers
        /\ \A b \in Asks \ {a} : ask'[b] = ask[b] /\ request'[b] = request[b]
    BY <1>2, ReturnedKeepsAskInv DEF Finish
  <2>2. UNCHANGED <<loopVars, inputVars>> /\ chat' = Publish(a)
    BY <1>2 DEF Finish
  <2>3. CASE chat.current = a
    <3>1. /\ chat' = [pending |-> chat.pending, busy |-> chat.busy, ready |-> TRUE,
                      reply |-> [to |-> request[a], of |-> answer[a]],
                      current |-> Nobody, bubble |-> chat.bubble]
      BY <2>2, <2>3 DEF Publish, Replied, Conversations
    <3>2. [to |-> request[a], of |-> answer[a]] \in Replies
      BY <2>1 DEF Replies, Texts
    <3>3. chat' \in Conversations
      BY <3>1, <3>2 DEF Conversations
    <3>4. chat.busy /\ request[a] = chat.pending /\ chat.bubble = "shown"
      BY <2>3 DEF Sound
    <3>5. Sound(chat)' /\ OnlyChatWaits'
      BY <2>2, <3>1, <3>4, AskAssumption DEF Sound, OnlyChatWaits, loopVars
    <3> QED
      BY <2>1, <2>2, <3>3, <3>5 DEF LoopTypeOK, loopVars, inputVars
  <2>4. CASE chat.current # a
    <3>1. chat' = chat
      BY <2>2, <2>4 DEF Publish
    <3>2. Sound(chat)' /\ OnlyChatWaits'
      BY <2>1, <2>2, <2>4, <3>1 DEF Sound, OnlyChatWaits, loopVars
    <3> QED
      BY <2>1, <2>2, <3>1, <3>2 DEF LoopTypeOK, loopVars, inputVars
  <2> QED BY <2>3, <2>4
<1> QED BY <1>1, <1>2

LEMMA StutterKeepsInv == ChatInv /\ UNCHANGED chatVars => ChatInv'
  BY DEF ChatInv, chatVars, askVars, loopVars, inputVars, AskInv, AskTypeOK,
     LoopTypeOK, Sound, OnlyChatWaits

-----------------------------------------------------------------------------
(* The theorems. *)

(* ChatInv holds throughout. *)
THEOREM ChatIsSound == ChatSpec => []ChatInv
<1>1. ChatInv /\ [ChatNext]_chatVars => ChatInv'
  BY BuildKeepsInv, TickKeepsInv, EndOfFrameKeepsInv, UserKeepsInv,
     SerialKeepsInv, ThreadKeepsInv, StutterKeepsInv DEF ChatNext, Loop
<1> QED BY ChatInitInv, <1>1, PTL DEF ChatSpec

(* Whatever pages are opened and left and whatever threads are still asking,*)
(* every variable keeps its type: poll_reply shows texts, never the reply   *)
(* of a request that was not formatted.                                     *)
THEOREM ChatTypeCorrect == ChatSpec => []ChatTypeOK
<1>1. ChatInv => ChatTypeOK
  BY DEF ChatInv, ChatTypeOK, AskInv, LoopTypeOK
<1> QED BY <1>1, ChatIsSound, PTL

(* For any number of threads asking at once, from older visits of the page  *)
(* or for the serial port, the reply that the page is given was asked for   *)
(* by this page and is the one it waits for: the generation keeps visits    *)
(* apart.                                                                   *)
THEOREM RepliesKeptApart == ChatSpec => []ReplyIsForQuestion
<1>1. ChatInv => ReplyIsForQuestion
  BY DEF ChatInv, Sound, ReplyIsForQuestion
<1> QED BY <1>1, ChatIsSound, PTL

(* The page never waits for a thread that is not asking its question, and   *)
(* shows its wait bubble exactly then.                                      *)
THEOREM WaitsAreServed == ChatSpec => []BusyIsServed
<1>1. ChatInv => BusyIsServed
  BY DEF ChatInv, Sound, OnlyChatWaits, BusyIsServed
<1> QED BY <1>1, ChatIsSound, PTL

-----------------------------------------------------------------------------
(* What a rollback of the configuration restores.  Between the operations a *)
(* board without a backup still has its first setting; within one, what is  *)
(* about to be renamed into place is whole, unless the backup it was copied *)
(* from is torn.                                                            *)

(* What each step of an operation relies on. *)
Prepared ==
  /\ at = "write" => target \in Settings
  /\ at \in {"backup", "copy"} => tmp \in Settings
  /\ at = "copy" => bak = Torn /\ config = original /\ config \in Settings
  /\ at = "restore" => bak # Absent
  /\ at = "replace" =>
       /\ tmp \in Settings \/ (tmp = Torn /\ bak = Torn)
       /\ bak # Absent \/ config = Absent

ConfigInv ==
  /\ ConfigTypeOK
  /\ Prepared
  /\ RollbackRestores
  /\ bak = Absent => config = original
  /\ bak # Absent => original \in Settings

LEMMA ConfigInitInv == ConfigInit => ConfigInv
  BY SettingsAssumption DEF ConfigInit, ConfigInv, ConfigTypeOK, Contents,
     Prepared, RollbackRestores

LEMMA ConfigNextInv == ConfigInv /\ [ConfigNext]_configVars => ConfigInv'
<1> SUFFICES ASSUME ConfigInv, [ConfigNext]_configVars PROVE ConfigInv'
  OBVIOUS
<1> USE SettingsAssumption
    DEF ConfigInv, ConfigTypeOK, Contents, Prepared, RollbackRestores
<1>1. ASSUME NEW s \in Settings, Configure(s) PROVE ConfigInv'
  BY <1>1 DEF Configure
<1>2. CASE WriteTmp
  BY <1>2 DEF WriteTmp
<1>3. CASE SkipBackup
  BY <1>3 DEF SkipBackup, NeedsBackup, files
<1>4. CASE OpenBackup
  BY <1>4 DEF OpenBackup, NeedsBackup
<1>5. CASE CopyBackup
  BY <1>5 DEF CopyBackup
<1>6. CASE CopyFails
  BY <1>6 DEF CopyFails
<1>7. CASE Replace
  BY <1>7 DEF Replace
<1>8. CASE Restore
  BY <1>8 DEF Restore
<1>9. CASE CopyRestored
  BY <1>9 DEF CopyRestored
<1>10. CASE GiveUpSaving
  BY <1>10 DEF GiveUpSaving
<1>11. CASE PowerLoss
  BY <1>11 DEF PowerLoss, files
<1>12. CASE UNCHANGED configVars
  BY <1>12 DEF configVars, files
<1> QED
  BY <1>1, <1>2, <1>3, <1>4, <1>5, <1>6, <1>7, <1>8, <1>9, <1>10, <1>11, <1>12
     DEF ConfigNext

(* However saving and rolling back fail or are cut short by the power, the  *)
(* backup stays the first setting of the board unless it was torn while it  *)
(* was made, and nothing but such a backup makes the configuration torn.    *)
THEOREM RollbackCorrect == ConfigSpec => []RollbackRestores
<1>1. ConfigInv => RollbackRestores
  BY DEF ConfigInv
<1> QED BY ConfigInitInv, ConfigNextInv, <1>1, PTL DEF ConfigSpec
=============================================================================
