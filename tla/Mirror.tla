------------------------------- MODULE Mirror -------------------------------
(***************************************************************************)
(* A frame of the screen mirror: ew_mirror.c writes the pixels packet by    *)
(* packet, as a run or as a literal, and decode_rle565 of the PC panel reads*)
(* them back.  A packet begins with one byte: its high bit says run, the    *)
(* others hold the count less one.                                          *)
(***************************************************************************)
EXTENDS Naturals, Sequences, SequencesExt, FiniteSetsExt

CONSTANTS
  Pixels,    \* the colours of a pixel
  Pictures,  \* the sequences of pixels that a frame may have
  MaxCount   \* 128, the pixels of the longest packet

ASSUME MirrorAssumption ==
  /\ Pictures \subseteq Seq(Pixels)
  /\ MaxCount \in Nat \ {0}

VARIABLES
  picture,   \* data, the pixels of the snapshot
  pos,       \* the pixels encoded so far
  expected,  \* the length that the header announced, 0 between frames
  wire,      \* the bytes sent after the header
  decoded    \* the pixels that the panel has read

mirrorVars == <<picture, pos, expected, wire, decoded>>

MirrorInit ==
  /\ picture = <<>> /\ pos = 0
  /\ expected = 0 /\ wire = 0
  /\ decoded = <<>>

-----------------------------------------------------------------------------
(* The encoder. *)

(* How far the pixels from i on are equal, at most n of them. *)
RunLen(p, i, n) ==
  Max({k \in 1 .. Min({n, Len(p) - i + 1}) :
         \A j \in i .. i + k - 1 : p[j] = p[i]})

(* Fault: a run may be one pixel longer than its byte can say. *)
RunAtLong(p, i) == RunLen(p, i, MaxCount + 1)

RunAt(p, i) == RunLen(p, i, MaxCount)

(* The pixels of a literal from i on: it ends where a run of three begins. *)
LiteralAt(p, i) ==
  LET longest == Min({MaxCount, Len(p) - i + 1})
      ends == {k \in RunAt(p, i) .. longest :
                 k < longest => RunLen(p, i + k, 3) = 3}
  IN Min(ends)

(* rle565_next_packet: the first byte and the pixels that follow it. *)
Packet(p, i) ==
  IF RunAt(p, i) >= 3
    THEN [byte |-> MaxCount + RunAt(p, i) - 1, pixels |-> <<p[i]>>]
    ELSE [byte |-> LiteralAt(p, i) - 1,
          pixels |-> SubSeq(p, i, i + LiteralAt(p, i) - 1)]

Used(p, i) == IF RunAt(p, i) >= 3 THEN RunAt(p, i) ELSE LiteralAt(p, i)

(* The bytes of a packet, two to a pixel. *)
Size(packet) == 1 + 2 * Len(packet.pixels)

(* rle565_size, the dry run over a picture: the size of what is left. *)
EncodedSize(p) ==
  LET left[i \in 1 .. Len(p) + 1] ==
        IF i > Len(p) THEN 0 ELSE Size(Packet(p, i)) + left[i + Used(p, i)]
  IN left[1]

-----------------------------------------------------------------------------
(* The decoder of the panel. *)

Decode(packet) ==
  LET byte == packet.byte % (2 * MaxCount)
  IN IF byte >= MaxCount
       THEN [k \in 1 .. byte - MaxCount + 1 |-> packet.pixels[1]]
       ELSE SubSeq(packet.pixels, 1, byte + 1)

-----------------------------------------------------------------------------

(* A snapshot is taken.  Only a picture that the packets make shorter is    *)
(* sent in packets, any other goes out as it is and is not modelled.        *)
Capture(p) ==
  /\ expected = 0
  /\ EncodedSize(p) < 2 * Len(p)
  /\ picture' = p
  /\ expected' = EncodedSize(p)
  /\ UNCHANGED <<pos, wire, decoded>>

SendPacket ==
  /\ pos < Len(picture)
  /\ LET packet == Packet(picture, pos + 1)
     IN /\ decoded' = decoded \o Decode(packet)
        /\ wire' = wire + Size(packet)
        /\ pos' = pos + Used(picture, pos + 1)
  /\ UNCHANGED <<picture, expected>>

(* The frame is complete, or a write made no progress for too long and the  *)
(* rest of it is given up: the snapshot is destroyed.                       *)
EndOfFrame ==
  /\ expected > 0
  /\ picture' = <<>> /\ pos' = 0
  /\ expected' = 0 /\ wire' = 0
  /\ decoded' = <<>>

MirrorNext == SendPacket \/ EndOfFrame \/ \E p \in Pictures : Capture(p)

MirrorSpec == MirrorInit /\ [][MirrorNext]_mirrorVars

(* Whatever the picture, what the panel has decoded is the part that was    *)
(* encoded, and a whole frame has the length that its header announced.     *)
MirrorIsLossless ==
  /\ decoded = SubSeq(picture, 1, pos)
  /\ expected > 0 => wire <= expected /\ (wire = expected <=> pos = Len(picture))
=============================================================================
