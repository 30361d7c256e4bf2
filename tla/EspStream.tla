----------------------------- MODULE EspStream -----------------------------
(***************************************************************************)
(* ew_esp_stream.c: the bytes of an ESP modem are split into response      *)
(* lines, prompts and the payloads of +IPD frames, which may hold any byte. *)
(* The modem here sends one item after another; the owner of the parser    *)
(* may let a partial item expire, and starts a new session after an error. *)
(* A chunk of ew_esp_stream_feed is a sequence of Feed steps: everything   *)
(* the parser knows between two bytes it also keeps between two calls.     *)
(***************************************************************************)
EXTENDS Naturals, Sequences

CONSTANTS
  Responses,  \* the lines that the modem may send, beginning
              \* neither like a prompt nor like a frame
  Payloads,   \* the payloads that it may send
  LineMax,    \* EW_ESP_STREAM_LINE_MAX
  SizeWidth,  \* the digits that the modem writes at most for a size
  DataMax,    \* EW_ESP_STREAM_DATA_MAX
  LinkMax     \* EW_ESP_STREAM_LINK_MAX

(* The bytes: the digits 0..9, and those the parser tells from the rest.   *)
(* The five bytes "+IPD," count as one.                                    *)
Comma == 10
Colon == 11
Greater == 12
Space == 13
Cr == 14
Lf == 15
Nul == 16
Ipd == 17
Letter == 18
Bytes == 0 .. 18

ASSUME StreamAssumption ==
  /\ DataMax \in Nat \ {0} /\ LinkMax \in 0 .. 8   \* a link is one digit
  /\ SizeWidth \in Nat \ {0}
  /\ LineMax \in Nat /\ 3 + SizeWidth <= LineMax   \* the longest header fits
  /\ Responses \subseteq Seq(Bytes) /\ Payloads \subseteq Seq(Bytes)
  /\ \A t \in Responses : t # <<>> => t[1] \notin {Greater, Space, Ipd}
  /\ \A t \in Responses : \A i \in 1 .. Len(t) : t[i] # Lf

VARIABLES
  buffer,       \* parser->buffer, its used bytes
  missing,      \* parser->expected, the size of the payload being read
  link,         \* parser->link_id, NoLink for -1
  multiple,     \* parser->multiple
  promptSpace,  \* parser->prompt_space
  error,        \* parser->error
  item,         \* what the modem sends
  coming,       \* its bytes that have not arrived
  events        \* what the callback was given since the item began

streamVars ==
  <<buffer, missing, link, multiple, promptSpace, error, item, coming, events>>

NoLink == LinkMax + 2
Links == 0 .. LinkMax + 1

Event(kind, id, bytes) == [kind |-> kind, link |-> id, bytes |-> bytes]

-----------------------------------------------------------------------------
(* The modem. *)

(* The values of the digits d: of none of them, of the first, of two...    *)
Values(d) ==
  LET value[i \in 0 .. Len(d)] ==
        IF i = 0 THEN 0 ELSE 10 * value[i - 1] + d[i]
  IN value

(* How the modem writes a size. *)
Numerals(n) ==
  {d \in UNION {[1 .. k -> 0 .. 9] : k \in 1 .. SizeWidth} :
     Values(d)[Len(d)] = n /\ (Len(d) > 1 => d[1] # 0)}

(* With one connection a frame names none; a link may be out of range.  A   *)
(* misfit is a notice of passive mode, or a header without what it needs.   *)
Items ==
  {Event("line", NoLink, t) : t \in Responses} \cup
  {Event("prompt", NoLink, <<Greater>>), Event("misfit", NoLink, <<>>)} \cup
  {Event("data", id, p) : id \in IF multiple THEN Links ELSE {NoLink},
                          p \in Payloads}

Encodings(it) ==
  CASE it.kind = "line" -> {it.bytes \o <<Cr, Lf>>}
    [] it.kind = "prompt" -> {<<Greater>>, <<Greater, Space>>}
    [] it.kind = "misfit" ->
         {<<Ipd, 1, Cr, Lf>>, <<Ipd, Letter, Colon>>, <<Ipd, Comma, Colon>>}
    [] it.kind = "data" ->
         {<<Ipd>> \o (IF multiple THEN <<it.link, Comma>> ELSE <<>>)
            \o d \o <<Colon>> \o it.bytes : d \in Numerals(Len(it.bytes))}

(* What the parser has promised to take.  The carriage return of a line    *)
(* passes through the buffer.                                              *)
Fits(it) ==
  CASE it.kind = "line" ->
         Len(it.bytes) < LineMax /\ \A i \in 1 .. Len(it.bytes) : it.bytes[i] # Nul
    [] it.kind = "prompt" -> TRUE
    [] it.kind = "misfit" -> FALSE
    [] it.kind = "data" ->
         Len(it.bytes) <= DataMax /\ (multiple => it.link <= LinkMax)

-----------------------------------------------------------------------------
(* The parser. *)

StreamInit ==
  /\ buffer = <<>> /\ missing = 0
  /\ link = NoLink /\ multiple \in BOOLEAN
  /\ promptSpace = FALSE /\ error = "none"
  /\ item = Event("prompt", NoLink, <<Greater>>)
  /\ coming = <<>> /\ events = <<item>>

(* The next item begins when the last has arrived. *)
SendItem(it) ==
  /\ coming = <<>> /\ error = "none"
  /\ item' = it
  /\ coming' \in Encodings(it)
  /\ events' = <<>>
  /\ UNCHANGED <<buffer, missing, link, multiple, promptSpace, error>>

Arrives(byte) ==
  /\ error = "none"
  /\ coming # <<>> /\ byte = Head(coming)
  /\ coming' = Tail(coming)
  /\ UNCHANGED <<multiple, item>>

(* emit: the buffer starts again. *)
Emit(e) ==
  /\ events' = Append(events, e)
  /\ buffer' = <<>>

Fail ==
  /\ error' = "bad"
  /\ UNCHANGED <<buffer, missing, link, events>>

Keep(byte) ==
  /\ buffer' = Append(buffer, byte)
  /\ UNCHANGED <<missing, link, error, events>>

(* A byte of a payload, whatever it is. *)
FeedData(byte) ==
  /\ Arrives(byte)
  /\ missing # 0
  /\ IF Len(buffer) + 1 = missing
       THEN /\ Emit(Event("data", link, Append(buffer, byte)))
            /\ missing' = 0
       ELSE /\ buffer' = Append(buffer, byte)
            /\ UNCHANGED <<missing, events>>
  /\ UNCHANGED <<link, promptSpace, error>>

(* The space after a prompt. *)
SkipSpace ==
  /\ Arrives(Space)
  /\ missing = 0 /\ promptSpace
  /\ promptSpace' = FALSE
  /\ UNCHANGED <<buffer, missing, link, error, events>>

(* Any other byte outside a payload: it takes the place of that space.     *)
Outside(byte) ==
  /\ Arrives(byte)
  /\ missing = 0
  /\ ~(promptSpace /\ byte = Space)

(* Fault: a prompt is seen inside a line. *)
AtPromptAnywhere(byte) == byte = Greater

AtPrompt(byte) == buffer = <<>> /\ byte = Greater

FeedPrompt ==
  /\ Outside(Greater) /\ AtPrompt(Greater)
  /\ Emit(Event("prompt", NoLink, <<Greater>>))
  /\ promptSpace' = TRUE
  /\ UNCHANGED <<missing, link, error>>

InHeader == buffer # <<>> /\ buffer[1] = Ipd

(* decimal: the value of the digits d, or limit + 1 if it is none or more. *)
Decimal(d, limit) ==
  IF d = <<>> \/ \E i \in 1 .. Len(d) : d[i] > 9 \/ Values(d)[i] > limit
    THEN limit + 1
    ELSE Values(d)[Len(d)]

(* Where the first comma of the header is, 0 without one. *)
CommaAt ==
  LET at == {i \in 2 .. Len(buffer) : buffer[i] = Comma}
  IN IF at = {} THEN 0 ELSE CHOOSE i \in at : \A j \in at : i <= j

HeaderLink ==
  IF CommaAt = 0 THEN LinkMax + 1 ELSE Decimal(SubSeq(buffer, 2, CommaAt - 1), LinkMax)
HeaderSize ==
  Decimal(SubSeq(buffer, IF multiple THEN CommaAt + 1 ELSE 2, Len(buffer)), DataMax)

(* The colon ends the header of a frame; an empty frame is complete. *)
FeedHeader ==
  /\ Outside(Colon) /\ InHeader
  /\ promptSpace' = FALSE
  /\ IF (multiple /\ HeaderLink > LinkMax) \/ HeaderSize > DataMax
       THEN Fail
       ELSE /\ link' = IF multiple THEN HeaderLink ELSE NoLink
            /\ missing' = HeaderSize
            /\ IF HeaderSize = 0
                 THEN Emit(Event("data", link', <<>>))
                 ELSE buffer' = <<>> /\ UNCHANGED events
            /\ UNCHANGED error

Text ==
  IF buffer # <<>> /\ buffer[Len(buffer)] = Cr
    THEN SubSeq(buffer, 1, Len(buffer) - 1) ELSE buffer

(* The end of a line.  An empty line is no event. *)
FeedNewline ==
  /\ Outside(Lf)
  /\ promptSpace' = FALSE
  /\ \/ InHeader /\ Fail
     \/ /\ ~InHeader
        /\ IF Text = <<>> THEN buffer' = <<>> /\ UNCHANGED events
                          ELSE Emit(Event("line", NoLink, Text))
        /\ UNCHANGED <<missing, link, error>>

FeedByte(byte) ==
  /\ Outside(byte)
  /\ ~AtPrompt(byte) /\ ~(InHeader /\ byte = Colon) /\ byte # Lf
  /\ promptSpace' = FALSE
  /\ IF byte = Nul \/ Len(buffer) = LineMax THEN Fail ELSE Keep(byte)

(* ew_esp_stream_expire, at the owner's deadline. *)
Expire ==
  /\ error = "none"
  /\ buffer # <<>> \/ missing # 0
  /\ error' = "late"
  /\ UNCHANGED <<buffer, missing, link, multiple, promptSpace, item, coming, events>>

(* What arrives after an error is ignored. *)
Ignore ==
  /\ error # "none" /\ coming # <<>>
  /\ coming' = Tail(coming)
  /\ UNCHANGED <<buffer, missing, link, multiple, promptSpace, error, item, events>>

(* The owner closes the connections and calls ew_esp_stream_init for a new  *)
(* session with the modem.                                                 *)
NewSession ==
  /\ error # "none"
  /\ buffer' = <<>> /\ missing' = 0
  /\ link' = NoLink /\ multiple' \in BOOLEAN
  /\ promptSpace' = FALSE /\ error' = "none"
  /\ item' = Event("prompt", NoLink, <<Greater>>)
  /\ coming' = <<>> /\ events' = <<item'>>

StreamNext ==
  \/ \E it \in Items : SendItem(it)
  \/ \E byte \in Bytes : FeedData(byte) \/ FeedByte(byte)
  \/ SkipSpace \/ FeedPrompt \/ FeedHeader \/ FeedNewline
  \/ Expire \/ Ignore \/ NewSession

StreamSpec == StreamInit /\ [][StreamNext]_streamVars

-----------------------------------------------------------------------------

(* What the callback shall be given for an item: nothing for an empty line. *)
Given(it) == IF it.kind = "line" /\ it.bytes = <<>> THEN <<>> ELSE <<it>>

(* Every item is given to the callback exactly once and unchanged, whatever *)
(* bytes a payload imitates and whatever came before it; what does not fit  *)
(* poisons the session and is not given at all.                            *)
SplitAsSent ==
  /\ events \in {<<>>, Given(item)}
  /\ error = "none" /\ coming = <<>> => events = Given(item)
  /\ error = "bad" => ~Fits(item)
  /\ ~Fits(item) => events = <<>>
=============================================================================
