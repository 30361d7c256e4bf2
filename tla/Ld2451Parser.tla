---------------------------- MODULE Ld2451Parser ----------------------------
(***************************************************************************)
(* The frame parser of ew_ld2451.c: ew_ld2451_parser_feed_sniff() finds    *)
(* frames in a byte stream that may lose, damage or invent bytes.  The     *)
(* safety worker feeds it one byte per call; each turn of its while loop   *)
(* is an action here, so a call is a Feed and the turns up to the next.    *)
(*                                                                         *)
(* A frame is header, two length bytes, body and tail; a body is empty, or *)
(* a count, an alarm byte and the targets.  The five bytes of a target are *)
(* one symbol that stands for a whole target, or for one whose direction   *)
(* byte is invalid.                                                        *)
(***************************************************************************)
EXTENDS EwDecide, SequencesExt

CONSTANTS
  Header, Tails,  (* The byte sequences that begin and end a frame.         *)
  MaxTargets,     (* EW_LD2451_MAX_TARGETS                                  *)
  Symbols,        (* The bytes, and target symbols, of the stream.          *)
  Targets         (* [symbols of valid targets -> track without its alarm]  *)

ASSUME ParserAssumption ==
  /\ Header # <<>> /\ Tails # <<>>
  /\ Header \in Seq(Symbols) /\ Tails \in Seq(Symbols)
  /\ MaxTargets \in 0..253   \* so that a length fits its first byte
  /\ Symbols \subseteq Byte
  /\ DOMAIN Targets \subseteq Symbols
  /\ Targets \in [DOMAIN Targets -> {t \in Track : t.phys}]

MaxFrame == Len(Header) + 2 + (2 + MaxTargets) + Len(Tails)

-----------------------------------------------------------------------------
(* What a good frame is, said once for a whole frame: the reference.        *)

Bodies ==
  {<<>>} \cup
  UNION {{<<n, alarm>> \o ts : alarm \in {0, 1}, ts \in [1..n -> DOMAIN Targets]} :
         n \in 0..MaxTargets}

GoodFrames == {Header \o <<Len(b), 0>> \o b \o Tails : b \in Bodies}

-----------------------------------------------------------------------------
(* The parser's tests on the buffer, in the order of the loop.              *)

HeaderLen == Len(Header)
Field(b, i) == b[HeaderLen + i]

StartsLikeHeader(b) ==
  \A i \in 1..Len(b) : i <= HeaderLen => b[i] = Header[i]

HasHeader(b) == StartsLikeHeader(b) /\ Len(b) >= HeaderLen
HasLength(b) == HasHeader(b) /\ Len(b) >= HeaderLen + 2

BodyLen(b) == Field(b, 1) + 256 * Field(b, 2)
BodyStart == HeaderLen + 2

(* A target is one symbol here, so no length is between two of them.        *)
BadLength(b) == BodyLen(b) # 0 /\ BodyLen(b) \notin 2..(2 + MaxTargets)

(* As soon as the count or the alarm byte is there it must fit. *)
BadStart(b) ==
  /\ BodyLen(b) # 0
  /\ \/ /\ Len(b) >= BodyStart + 1
        /\ b[BodyStart + 1] > MaxTargets \/ BodyLen(b) # 2 + b[BodyStart + 1]
     \/ Len(b) >= BodyStart + 2 /\ b[BodyStart + 2] > 1

FrameLen(b) == BodyStart + BodyLen(b) + Len(Tails)

Complete(b) == Len(b) >= FrameLen(b)

Body(b) == SubSeq(b, BodyStart + 1, BodyStart + BodyLen(b))

(* Fault: any direction byte is accepted. *)
BodyValidAnyDirection(body) ==
  body = <<>> \/ /\ Len(body) >= 2 /\ body[1] <= MaxTargets /\ body[2] <= 1
                 /\ Len(body) = 2 + body[1]

BodyValid(body) ==
  \/ body = <<>>
  \/ /\ Len(body) >= 2 /\ body[1] <= MaxTargets /\ body[2] <= 1
     /\ Len(body) = 2 + body[1]
     /\ \A i \in 3..Len(body) : body[i] \in DOMAIN Targets

TailMatches(b) ==
  SubSeq(b, FrameLen(b) - Len(Tails) + 1, FrameLen(b)) = Tails

Damaged(b) ==
  /\ HasLength(b)
  /\ \/ BadLength(b)
     \/ BadStart(b)
     \/ Complete(b) /\ ~(BodyValid(Body(b)) /\ TailMatches(b))

Rejected(b) == ~StartsLikeHeader(b) \/ Damaged(b)
Accepted(b) == HasLength(b) /\ ~Damaged(b) /\ Complete(b)
Waiting(b) == ~Rejected(b) /\ ~Accepted(b)

-----------------------------------------------------------------------------
VARIABLES
  buffer,      \* parser->buffer, its used bytes
  headerSeen,  \* parser->header_seen
  early,       \* the sensitivity
  choice,      \* chosen and got of the present call
  (* History, for the properties only. *)
  offered,     \* tracks that frames of this call delivered
  dropped      \* what the last turn took out of the buffer

vars == <<buffer, headerSeen, early, choice, offered, dropped>>

(* The header is counted once, when it is complete. *)
NewHeader(b) == IF HasHeader(b) /\ ~headerSeen THEN 1 ELSE 0

Settled == Waiting(buffer) /\ NewHeader(buffer) = 0

(* Every variable keeps its type; the 37-byte buffer never fills up while   *)
(* it waits, so it is never thrown away with a frame half read; and a header *)
(* is only remembered as counted while it is in front of the buffer.        *)
TypeOK ==
  /\ buffer \in Seq(Symbols)
  /\ Len(buffer) <= MaxFrame /\ (Settled => Len(buffer) < MaxFrame)
  /\ headerSeen \in BOOLEAN /\ early \in BOOLEAN
  /\ headerSeen => HasHeader(buffer)
  /\ choice \in {<<>>} \cup {<<t>> : t \in offered}
  /\ offered \subseteq Track
  /\ dropped \in Seq(Symbols)

Init ==
  /\ buffer = <<>> /\ headerSeen = FALSE
  /\ early \in BOOLEAN
  /\ choice = <<>>
  /\ offered = {} /\ dropped = <<>>

(* Fault: the next header is taken for the one already counted. *)
DropKeepingHeader(n) ==
  /\ dropped' = SubSeq(buffer, 1, n)
  /\ buffer' = SubSeq(buffer, n + 1, Len(buffer))
  /\ UNCHANGED headerSeen

(* parser_drop *)
Drop(n) ==
  /\ dropped' = SubSeq(buffer, 1, n)
  /\ buffer' = SubSeq(buffer, n + 1, Len(buffer))
  /\ headerSeen' = FALSE

(* The next call.  A full buffer would be thrown away first. *)
Feed(x) ==
  /\ Settled
  /\ buffer' = IF Len(buffer) >= MaxFrame THEN <<x>> ELSE Append(buffer, x)
  /\ headerSeen' = (headerSeen /\ Len(buffer) < MaxFrame)
  /\ choice' = <<>> /\ offered' = {} /\ dropped' = <<>>
  /\ UNCHANGED early

(* A turn that waits for more bytes. *)
SeeHeader ==
  /\ Waiting(buffer) /\ NewHeader(buffer) = 1
  /\ headerSeen' = TRUE
  /\ UNCHANGED <<buffer, early, choice, offered, dropped>>

(* Fault: a damaged frame is dropped as a whole. *)
ResyncWholeFrame ==
  /\ Rejected(buffer)
  /\ Drop(IF HasLength(buffer) /\ Complete(buffer) THEN FrameLen(buffer)
            ELSE 1)
  /\ UNCHANGED <<early, choice, offered>>

(* One byte is given up and the rest is looked at again. *)
Resync ==
  /\ Rejected(buffer)
  /\ Drop(1)
  /\ UNCHANGED <<early, choice, offered>>

TracksIn(body) ==
  [i \in 1..(IF body = <<>> THEN 0 ELSE body[1]) |->
     [Targets[body[i + 2]] EXCEPT !.alarm = (body[2] = 1)]]

(* A frame: its most urgent target, then the most urgent of the call. *)
AcceptFrame ==
  /\ Accepted(buffer)
  /\ LET tracks == TracksIn(Body(buffer))
         best == Choose(tracks, early)
     IN /\ choice' = IF best = <<>> THEN choice ELSE Better(choice, best[1], early)
        /\ offered' = offered \cup {tracks[i] : i \in {k \in 1..Len(tracks) :
                                                       ~Skipped(tracks[k])}}
  /\ Drop(FrameLen(buffer))
  /\ UNCHANGED early

(* ew_sensitivity_set, from another thread at any time.  What was offered  *)
(* so far was compared under the old sensitivity: only the choice remains.  *)
SetSensitivity ==
  /\ early' = ~early
  /\ offered' = {t \in offered : choice = <<t>>}
  /\ UNCHANGED <<buffer, headerSeen, choice, dropped>>

(* ew_ld2451_parser_reset, when the UART is opened again after an error. *)
ParserReset ==
  /\ Settled
  /\ buffer' = <<>> /\ headerSeen' = FALSE
  /\ choice' = <<>> /\ offered' = {} /\ dropped' = <<>>
  /\ UNCHANGED early

Next ==
  \/ \E x \in Symbols : Feed(x)
  \/ SeeHeader \/ Resync \/ AcceptFrame \/ ParserReset \/ SetSensitivity

Spec == Init /\ [][Next]_vars

-----------------------------------------------------------------------------
(* Properties. *)

(* Whatever is damaged before it, no byte that may still begin a good frame *)
(* is given up while the UART stays open: a bad length, count or tail never *)
(* swallows the next frame.                                                 *)
NoFrameLost ==
  [][Len(buffer') < Len(buffer) /\ ~ParserReset =>
       \/ dropped' \in GoodFrames
       \/ /\ Len(dropped') = 1
          /\ \A f \in GoodFrames : ~IsPrefix(buffer, f) /\ ~IsPrefix(f, buffer)]_vars

(* Only a good frame refreshes the link or reaches the policy. *)
OnlyGoodFrames == Accepted(buffer) =>
  SubSeq(buffer, 1, FrameLen(buffer)) \in GoodFrames

(* The target handed to the policy raises the highest level of all that     *)
(* were delivered, and at that level none will arrive sooner, in whatever   *)
(* order and in however many frames they came.                              *)
MostUrgentChosen ==
  /\ offered # {} => choice # <<>>
  /\ choice # <<>> =>
       /\ choice[1] \in offered
       /\ \A t \in offered :
            /\ LevelOf(t, early) <= LevelOf(choice[1], early)
            /\ LevelOf(t, early) = LevelOf(choice[1], early) /\ HasTtc(t)
                 => HasTtc(choice[1]) /\ ~Sooner(t, choice[1])
=============================================================================
