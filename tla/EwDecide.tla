------------------------------ MODULE EwDecide ------------------------------
(***************************************************************************)
(* The single-frame policy of ew_ld2451.c: ew_decide() and the order of    *)
(* urgency between targets.  Distances are metres, speeds km/h and signal  *)
(* strengths the sensor's units, all of them bytes; a time to collision is *)
(* the exact quotient 3.6 * range / speed, compared by cross-multiplying,  *)
(* where the program rounds to a float.                                    *)
(***************************************************************************)
EXTENDS Integers, Sequences

Byte == 0..255

None == 0
Soft == 1
Strong == 2
Emergency == 3
Levels == None..Emergency

(* A target: phys is track_physical_valid, alarm the module's own alarm bit.*)
Track == [range: Byte, speed: Byte, snr: Byte,
          approaching: BOOLEAN, alarm: BOOLEAN, phys: BOOLEAN]

(* Thresholds: ranges in metres, times to collision in half seconds. *)
MinSpeed == 5
MinSnr == 8
RangeOf == [l \in Soft..Emergency |-> CASE l = Soft -> 25
                                        [] l = Strong -> 15
                                        [] l = Emergency -> 8]
TtcOf == [l \in Soft..Emergency |-> CASE l = Soft -> 10
                                      [] l = Strong -> 6
                                      [] l = Emergency -> 3]

(* The sensitivity factor, in quarters. *)
Factor(early) == IF early THEN 5 ELSE 4

-----------------------------------------------------------------------------
(* level_from_range_ttc *)

Near(l, range, early) == 4 * range <= RangeOf[l] * Factor(early)

(* 3.6 * range / speed < TtcOf[l] / 2 * Factor / 4; the soft limit includes *)
(* its end.                                                                 *)
TtcLeft(range) == 144 * range
TtcLimit(l, speed, early) == 5 * speed * TtcOf[l] * Factor(early)

Soon(l, range, speed, early) ==
  /\ speed > 0
  /\ \/ TtcLeft(range) < TtcLimit(l, speed, early)
     \/ l = Soft /\ TtcLeft(range) = TtcLimit(l, speed, early)

Reaches(l, range, speed, early) ==
  Near(l, range, early) \/ Soon(l, range, speed, early)

LevelFromRangeTtc(range, speed, early) ==
  CASE Reaches(Emergency, range, speed, early) -> Emergency
    [] ~Reaches(Emergency, range, speed, early)
       /\ Reaches(Strong, range, speed, early) -> Strong
    [] ~Reaches(Emergency, range, speed, early)
       /\ ~Reaches(Strong, range, speed, early)
       /\ Reaches(Soft, range, speed, early) -> Soft
    [] OTHER -> None

(* ew_decide: a target that is not approaching, too slow or too faint       *)
(* raises no more than the module's own alarm does.                         *)
Measured(t) ==
  t.phys /\ t.approaching /\ t.speed >= MinSpeed /\ t.snr >= MinSnr

Fallback(t) == IF t.alarm THEN Soft ELSE None

LevelOf(t, early) ==
  IF Measured(t) /\ LevelFromRangeTtc(t.range, t.speed, early) # None
    THEN LevelFromRangeTtc(t.range, t.speed, early)
    ELSE Fallback(t)

HasTtc(t) == t.phys /\ t.approaching /\ t.speed > 0
RangeShown(t) == IF t.phys THEN t.range ELSE 0

-----------------------------------------------------------------------------
(* ew_track_is_more_urgent, for valid tracks. *)

Counts(t) == t.phys \/ t.alarm

(* Time to collision of a below that of b. *)
Sooner(a, b) == a.range * b.speed < b.range * a.speed
Together(a, b) == a.range * b.speed = b.range * a.speed

(* Fault: the nearest target is the most urgent one. *)
MoreUrgentByRange(a, b, early) == RangeShown(a) < RangeShown(b)

MoreUrgent(a, b, early) ==
  \/ LevelOf(a, early) > LevelOf(b, early)
  \/ /\ LevelOf(a, early) = LevelOf(b, early)
     /\ \/ HasTtc(a) /\ ~HasTtc(b)
        \/ HasTtc(a) /\ HasTtc(b) /\ Sooner(a, b)
        \/ /\ HasTtc(a) /\ HasTtc(b) /\ Together(a, b)
           /\ RangeShown(a) < RangeShown(b)
        \/ ~HasTtc(a) /\ ~HasTtc(b) /\ RangeShown(a) < RangeShown(b)

(* The candidate replaces the current choice, an empty sequence at first. *)
Better(choice, t, early) ==
  IF /\ Counts(t)
     /\ \/ choice = <<>>
        \/ ~Counts(choice[1])
        \/ MoreUrgent(t, choice[1], early)
    THEN <<t>> ELSE choice

(* decode_body passes over targets that are no concern of the policy. *)
Skipped(t) ==
  /\ ~t.alarm
  /\ ~t.approaching \/ t.speed < MinSpeed \/ t.snr < MinSnr

(* The choice of decode_body, in the order of the body's targets: best[i]   *)
(* is the choice after the first i of them.                                 *)
Choose(targets, early) ==
  LET best[i \in 0..Len(targets)] ==
        IF i = 0 THEN <<>>
        ELSE IF Skipped(targets[i]) THEN best[i - 1]
        ELSE Better(best[i - 1], targets[i], early)
  IN best[Len(targets)]
=============================================================================
