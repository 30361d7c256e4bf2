------------------------------- MODULE LlmAsk -------------------------------
(***************************************************************************)
(* Threads that ask the language model: ew_llm_ask_ex of ew_llm.c with the *)
(* HTTPS post of ew_wifi_at.c under it.  The post formats its request into *)
(* one static buffer before it owns the modem, and sends from that buffer  *)
(* up to a minute later.  The text of a request is the question it asks.   *)
(***************************************************************************)

CONSTANTS
  Asks,       \* the threads that may be asking at the same time
  Questions,  \* the questions that may be asked
  Nobody,     \* no thread
  Empty,      \* no text
  Failed      \* the text of a failure

ASSUME AskAssumption ==
  /\ Nobody \notin Asks
  /\ Empty \notin Questions /\ Failed \notin Questions /\ Empty # Failed

VARIABLES
  device,   \* the thread that holds g_at_mu and the modem
  http,     \* the static request buffer of the post
  ask,      \* where each thread is
  request,  \* the prompt that each thread was given
  answer    \* what a finished thread returns: the question it answers

askVars == <<device, http, ask, request, answer>>

Places == {"idle", "prepare", "format", "begin", "exchange", "done"}
Answers == Questions \cup {Failed}

AskTypeOK ==
  /\ device \in Asks \cup {Nobody}
  /\ http \in Questions \cup {Empty}
  /\ ask \in [Asks -> Places]
  /\ request \in [Asks -> Questions \cup {Empty}]
  /\ answer \in [Asks -> Answers]

AskInit ==
  /\ device = Nobody
  /\ http = Empty
  /\ ask = [a \in Asks |-> "idle"]
  /\ request = [a \in Asks |-> Empty]
  /\ answer = [a \in Asks |-> Failed]

Goes(a, place) == ask' = [ask EXCEPT ![a] = place]

(* A thread starts with a copy of the question.  Until something else is   *)
(* received its result is a failure.                                       *)
AskStarts(a, q) ==
  /\ ask[a] = "idle"
  /\ Goes(a, "prepare")
  /\ request' = [request EXCEPT ![a] = q]
  /\ UNCHANGED <<device, http, answer>>

(* The configuration names a key and the probe, which borrows the modem,   *)
(* finds a network.                                                        *)
Prepare(a) ==
  /\ ask[a] = "prepare"
  /\ device = Nobody
  /\ Goes(a, "format")
  /\ UNCHANGED <<device, http, request, answer>>

(* The post writes its request into the static buffer: no lock is held.    *)
Format(a) ==
  /\ ask[a] = "format"
  /\ http' = request[a]
  /\ Goes(a, "begin")
  /\ UNCHANGED <<device, request, answer>>

Begin(a) ==
  /\ ask[a] = "begin"
  /\ device = Nobody
  /\ device' = a
  /\ Goes(a, "exchange")
  /\ UNCHANGED <<http, request, answer>>

(* No configuration, no network, the modem busy or silent, a prompt or a   *)
(* request too long: every early return before the modem is owned.         *)
GiveUp(a) ==
  /\ ask[a] \in {"prepare", "begin"}
  /\ Goes(a, "done")
  /\ UNCHANGED <<device, http, request, answer>>

(* The modem sends what the buffer holds by now.  Whatever comes of it,    *)
(* the modem is given back.                                                *)
Exchange(a) ==
  /\ ask[a] = "exchange"
  /\ \E r \in {http, Failed} : answer' = [answer EXCEPT ![a] = r]
  /\ device' = Nobody
  /\ Goes(a, "done")
  /\ UNCHANGED <<http, request>>

(* The thread returns: its caller has taken the result. *)
Returned(a) ==
  /\ ask[a] = "done"
  /\ Goes(a, "idle")
  /\ request' = [request EXCEPT ![a] = Empty]
  /\ answer' = [answer EXCEPT ![a] = Failed]
  /\ UNCHANGED <<device, http>>

AskStep(a) ==
  Prepare(a) \/ Format(a) \/ Begin(a) \/ GiveUp(a) \/ Exchange(a)
=============================================================================
