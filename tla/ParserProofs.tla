---------------------------- MODULE ParserProofs ----------------------------
(***************************************************************************)
(* The frame parser keeps its types, accepts good frames only, gives up no *)
(* byte of a good frame and hands over a most urgent target, for every     *)
(* header, tail, size and set of targets.                                  *)
(*                                                                         *)
(* The choice of a frame is a recursive function.  Nothing here is proved  *)
(* by induction over it: a set of numbers has a least one (LeastNumber,    *)
(* from the well-foundedness of Nat), so the first turn after which the    *)
(* choice is not a most urgent target would follow one after which it is.  *)
(***************************************************************************)
EXTENDS Ld2451Parser, SequenceTheorems, WellFoundedInduction, TLAPS

-----------------------------------------------------------------------------
(* Counting. *)

Below == {p \in Nat \X Nat : p[1] < p[2]}

(* A set of numbers has a least one: what holds for all smaller numbers     *)
(* whenever it fails for one cannot fail first.                             *)
LEMMA LeastNumber ==
  ASSUME NEW S, S \subseteq Nat, S # {}
  PROVE  \E n \in S : \A m \in S : n <= m
<1>1. Below = OpToRel(<, Nat)
  BY DEF Below, OpToRel
<1>2. IsWellFoundedOn(Below, Nat)
  BY <1>1, NatLessThanWellFounded, Zenon
<1>3. PICK n \in S : \A m \in S : <<m, n>> \notin Below
  BY <1>2, WFMin
<1>4. ASSUME NEW m \in S PROVE n <= m
  <2>1. <<m, n>> \notin Below /\ m \in Nat /\ n \in Nat
    BY <1>3
  <2>2. m < n => <<m, n>> \in Below
    BY <2>1 DEF Below
  <2>3. QED
    BY <2>1, <2>2
<1> QED
  BY <1>4

(* Products of numbers. *)
LEMMA TimesNat == \A x, y \in Nat : x * y \in Nat
BY SMT
LEMMA TimesGrows == \A x, y, a \in Nat : x <= y => x * a <= y * a
BY SMT
LEMMA TimesLess == \A x, y, z \in Nat : x < y /\ 0 < z => ~(y * z <= x * z)
BY SMT
LEMMA TimesSwap == \A x, y, z \in Nat : (x * y) * z = (x * z) * y
BY SMT
LEMMA AtMostTransitive == \A x, y, z \in Nat : x <= y /\ y <= z => x <= z
BY SMT
LEMMA AtMostOrMore == \A x, y \in Nat : ~(y <= x) => x < y
BY SMT

(* The quotient ar / as is at most br / bs, and that at most cr / cs: so is *)
(* ar / as.  Cross-multiplied.                                              *)
LEMMA CrossTransitive ==
  ASSUME NEW ar \in Nat, NEW as \in Nat, NEW br \in Nat, NEW bs \in Nat,
         NEW cr \in Nat, NEW cs \in Nat,
         0 < bs, br * cs <= cr * bs, ar * bs <= br * as
  PROVE  ar * cs <= cr * as
<1>0. /\ cr * bs \in Nat /\ br * cs \in Nat
      /\ br * as \in Nat /\ ar * bs \in Nat
      /\ cr * as \in Nat /\ ar * cs \in Nat
  BY TimesNat, Zenon
<1>n. /\ (ar * bs) * cs \in Nat /\ (br * as) * cs \in Nat
      /\ (br * cs) * as \in Nat /\ (cr * bs) * as \in Nat
      /\ (ar * cs) * bs \in Nat /\ (cr * as) * bs \in Nat
  BY <1>0, TimesNat, Zenon
<1>1. (br * cs) * as <= (cr * bs) * as
  BY <1>0, TimesGrows, Zenon
<1>2. (ar * bs) * cs <= (br * as) * cs
  BY <1>0, TimesGrows, Zenon
<1>3. /\ (br * cs) * as = (br * as) * cs
      /\ (cr * bs) * as = (cr * as) * bs
      /\ (ar * bs) * cs = (ar * cs) * bs
  <2>1. (br * cs) * as = (br * as) * cs
    BY TimesSwap, Zenon
  <2>2. (cr * bs) * as = (cr * as) * bs
    BY TimesSwap, Zenon
  <2>3. (ar * bs) * cs = (ar * cs) * bs
    BY TimesSwap, Zenon
  <2>4. QED
    BY <2>1, <2>2, <2>3, Zenon
<1>4. (ar * cs) * bs <= (br * as) * cs /\ (br * as) * cs <= (cr * as) * bs
  BY <1>1, <1>2, <1>3, Zenon
<1>5. (ar * cs) * bs <= (cr * as) * bs
  BY <1>n, <1>4, AtMostTransitive, Zenon
<1> SUFFICES ASSUME ~(ar * cs <= cr * as) PROVE FALSE
  BY <1>0
<1>6. cr * as < ar * cs
  BY <1>0, AtMostOrMore, Zenon
<1>7. ~((ar * cs) * bs <= (cr * as) * bs)
  BY <1>0, <1>6, TimesLess, Zenon
<1> QED
  BY <1>5, <1>7, Zenon

LEMMA NotLess == \A x, y \in Nat : ~(x < y) <=> y <= x
BY SMT

-----------------------------------------------------------------------------
(* The order of urgency. *)

(* a raises at least the level of b, and at that level b is no sooner.      *)
AsUrgent(a, b, e) ==
  /\ LevelOf(b, e) <= LevelOf(a, e)
  /\ LevelOf(b, e) = LevelOf(a, e) /\ HasTtc(b)
       => HasTtc(a) /\ ~Sooner(b, a)

(* A level is a number. *)
LEMMA LevelsOfTargets ==
  ASSUME NEW t \in Track, NEW e \in BOOLEAN
  PROVE  LevelOf(t, e) \in Int
<1> DEFINE l == LevelFromRangeTtc(t.range, t.speed, e)
<1>0. l \in {Emergency, Strong, Soft, None}
  BY Zenon DEF LevelFromRangeTtc
<1> HIDE DEF l
<1>1. l \in Int
  BY <1>0 DEF None, Soft, Strong, Emergency
<1>2. Fallback(t) \in Int
  BY DEF Fallback, None, Soft
<1> QED
  BY <1>1, <1>2 DEF LevelOf, l

(* Cross-multiplied times to collision are transitive. *)
LEMMA SoonerTransitive ==
  ASSUME NEW a \in Track, NEW b \in Track, NEW c \in Track,
         0 < b.speed, ~Sooner(c, b), ~Sooner(b, a)
  PROVE  ~Sooner(c, a)
<1>1. /\ a.range \in Nat /\ a.speed \in Nat /\ b.range \in Nat
      /\ b.speed \in Nat /\ c.range \in Nat /\ c.speed \in Nat
  BY DEF Track, Byte
<1>2. /\ c.range * b.speed \in Nat /\ b.range * c.speed \in Nat
      /\ b.range * a.speed \in Nat /\ a.range * b.speed \in Nat
      /\ c.range * a.speed \in Nat /\ a.range * c.speed \in Nat
  BY <1>1, TimesNat, Zenon
<1>3. /\ b.range * c.speed <= c.range * b.speed
      /\ a.range * b.speed <= b.range * a.speed
  BY <1>2, NotLess, Zenon DEF Sooner
<1>4. a.range * c.speed <= c.range * a.speed
  BY <1>1, <1>3, CrossTransitive, Zenon
<1> QED
  BY <1>2, <1>4, NotLess, Zenon DEF Sooner

(* Ranges times speeds are numbers. *)
LEMMA ProductsOfTracks ==
  \A a, b \in Track : a.range * b.speed \in Nat
<1> SUFFICES ASSUME NEW a \in Track, NEW b \in Track
             PROVE  a.range * b.speed \in Nat
  OBVIOUS
<1>1. a.range \in Nat /\ b.speed \in Nat
  BY DEF Track, Byte
<1> QED
  BY <1>1, TimesNat, Zenon

(* Order, for the solver of first-order logic. *)
LEMMA LessIsNotMore == \A x, y \in Nat : x < y \/ x = y => ~(y < x)
BY SMT

(* So is the order of urgency. *)
LEMMA AsUrgentTransitive ==
  ASSUME NEW a \in Track, NEW b \in Track, NEW c \in Track, NEW e \in BOOLEAN,
         AsUrgent(a, b, e), AsUrgent(b, c, e)
  PROVE  AsUrgent(a, c, e)
<1>1. /\ LevelOf(a, e) \in Int /\ LevelOf(b, e) \in Int /\ LevelOf(c, e) \in Int
  BY LevelsOfTargets
<1>2. LevelOf(c, e) <= LevelOf(a, e)
  BY <1>1 DEF AsUrgent
<1>3. ASSUME LevelOf(c, e) = LevelOf(a, e), HasTtc(c)
      PROVE  HasTtc(a) /\ ~Sooner(c, a)
  <2>1. LevelOf(b, e) = LevelOf(c, e) /\ LevelOf(b, e) = LevelOf(a, e)
    BY <1>1, <1>3 DEF AsUrgent
  <2>2. HasTtc(b) /\ ~Sooner(c, b) /\ HasTtc(a) /\ ~Sooner(b, a)
    BY <1>3, <2>1 DEF AsUrgent
  <2>3. QED
    <3>1. 0 < b.speed
      BY <2>2 DEF HasTtc, Track, Byte
    <3>2. QED
      BY <2>2, <3>1, SoonerTransitive
<1> QED
  BY <1>2, <1>3 DEF AsUrgent

(* Each of two targets is as urgent as the other, or the program says which *)
(* is more urgent.                                                          *)
LEMMA MoreUrgentDecides ==
  ASSUME NEW a \in Track, NEW b \in Track, NEW e \in BOOLEAN
  PROVE  /\ MoreUrgent(a, b, e) => AsUrgent(a, b, e)
         /\ ~MoreUrgent(a, b, e) => AsUrgent(b, a, e)
<1>1. LevelOf(a, e) \in Int /\ LevelOf(b, e) \in Int
  BY LevelsOfTargets
<1>2. MoreUrgent(a, b, e) => AsUrgent(a, b, e)
  <2> SUFFICES ASSUME MoreUrgent(a, b, e) PROVE AsUrgent(a, b, e)
    OBVIOUS
  <2>1. LevelOf(b, e) <= LevelOf(a, e)
    BY <1>1 DEF MoreUrgent
  <2>2. ASSUME LevelOf(b, e) = LevelOf(a, e), HasTtc(b)
        PROVE  HasTtc(a) /\ (Sooner(a, b) \/ Together(a, b))
    <3>1. ~(LevelOf(a, e) > LevelOf(b, e))
      BY <1>1, <2>2
    <3>2. QED
      BY <2>2, <3>1, Zenon DEF MoreUrgent
  <2>3. Sooner(a, b) \/ Together(a, b) => ~Sooner(b, a)
    BY ProductsOfTracks, NotLess, LessIsNotMore, Zenon DEF Sooner, Together
  <2>4. QED
    BY <2>1, <2>2, <2>3 DEF AsUrgent
<1>3. ~MoreUrgent(a, b, e) => AsUrgent(b, a, e)
  <2> SUFFICES ASSUME ~MoreUrgent(a, b, e) PROVE AsUrgent(b, a, e)
    OBVIOUS
  <2>1. LevelOf(a, e) <= LevelOf(b, e)
    BY <1>1 DEF MoreUrgent
  <2>2. QED
    BY <2>1 DEF MoreUrgent, AsUrgent
<1> QED
  BY <1>2, <1>3

(* It is reflexive. *)
LEMMA AsUrgentAsItself ==
  ASSUME NEW a \in Track, NEW e \in BOOLEAN
  PROVE  AsUrgent(a, a, e)
<1>1. LevelOf(a, e) <= LevelOf(a, e)
  BY LevelsOfTargets
<1>2. ~Sooner(a, a)
  BY ProductsOfTracks, LessIsNotMore, Zenon DEF Sooner
<1> QED
  BY <1>1, <1>2 DEF AsUrgent

-----------------------------------------------------------------------------
(* The choice of a frame. *)

(* f is the choice after each of the first n targets, as in Choose. *)
Steps(f, ts, e, n) ==
  f = [i \in 0..n |-> IF i = 0 THEN <<>>
                      ELSE IF Skipped(ts[i]) THEN f[i - 1]
                      ELSE Better(f[i - 1], ts[i], e)]

(* The loop runs to its end: its choices are a function of the turn. *)
LEMMA StepsExist ==
  ASSUME NEW ts, NEW e, NEW n \in Nat
  PROVE  \E f : Steps(f, ts, e, n)
<1> DEFINE S == {m \in Nat : ~\E f : Steps(f, ts, e, m)}
<1> SUFFICES ASSUME S # {} PROVE FALSE
  OBVIOUS
<1>1. PICK m \in S : \A k \in S : m <= k
  <2>1. S \subseteq Nat
    OBVIOUS
  <2>2. QED
    BY <2>1, LeastNumber
<1>2. m \in Nat /\ ~\E f : Steps(f, ts, e, m)
  OBVIOUS
<1>3. CASE m = 0
  <2>1. Steps([i \in 0..0 |-> <<>>], ts, e, 0)
    BY DEF Steps
  <2>2. QED
    BY <1>2, <1>3, <2>1
<1>4. CASE m # 0
  <2>1. m - 1 \in Nat /\ m - 1 \notin S
    BY <1>1, <1>2, <1>4
  <2>2. PICK f : Steps(f, ts, e, m - 1)
    BY <2>1
  <2> DEFINE g == [i \in 0..m |-> IF i = m THEN
                                     IF Skipped(ts[m]) THEN f[m - 1]
                                     ELSE Better(f[m - 1], ts[m], e)
                                  ELSE f[i]]
  <2>3. Steps(g, ts, e, m)
    <3>1. \A i \in 0..m : g[i] = IF i = 0 THEN <<>>
                      ELSE IF Skipped(ts[i]) THEN g[i - 1]
                      ELSE Better(g[i - 1], ts[i], e)
      <4> SUFFICES ASSUME NEW i \in 0..m
                   PROVE  g[i] = IF i = 0 THEN <<>>
                      ELSE IF Skipped(ts[i]) THEN g[i - 1]
                      ELSE Better(g[i - 1], ts[i], e)
        OBVIOUS
      <4>1. i # 0 => i - 1 \in 0..(m - 1) /\ i - 1 \in 0..m /\ i - 1 # m
        BY <1>2
      <4>2. CASE i = m
        <5>1. g[i] = IF Skipped(ts[m]) THEN f[m - 1]
                     ELSE Better(f[m - 1], ts[m], e)
          BY <4>2
        <5>2. g[i - 1] = f[m - 1]
          BY <1>4, <4>1, <4>2
        <5>3. QED
          BY <1>4, <4>2, <5>1, <5>2
      <4>3. CASE i # m
        <5>1. i \in 0..(m - 1) /\ g[i] = f[i]
          BY <1>2, <4>3
        <5>2. f[i] = IF i = 0 THEN <<>>
                      ELSE IF Skipped(ts[i]) THEN f[i - 1]
                      ELSE Better(f[i - 1], ts[i], e)
          BY <2>2, <5>1 DEF Steps
        <5>3. i # 0 => g[i - 1] = f[i - 1]
          BY <4>1
        <5>4. QED
          BY <5>1, <5>2, <5>3
      <4>4. QED
        BY <4>2, <4>3
    <3>2. g = [i \in 0..m |-> g[i]]
      OBVIOUS
    <3> HIDE DEF g
    <3>3. QED
      BY <3>1, <3>2, Zenon DEF Steps
  <2>4. QED
    BY <1>2, <2>3
<1> QED
  BY <1>3, <1>4

(* The tracks of a body, as ParserAssumption describes them: every field is *)
(* a byte, so track_physical_valid holds.                                   *)
PhysTracks == {t \in Track : t.phys}

(* c is a most urgent one of the targets O, or none of none. *)
MostUrgentOf(c, O, e) ==
  \/ c = <<>> /\ O = {}
  \/ \E t \in O : c = <<t>> /\ \A u \in O : AsUrgent(t, u, e)

(* The better of two most urgent ones is the most urgent of all.            *)
LEMMA BetterOfBoth ==
  ASSUME NEW O \in SUBSET PhysTracks, NEW Q \in SUBSET PhysTracks,
         NEW e \in BOOLEAN,
         NEW c, MostUrgentOf(c, O, e),
         NEW t \in Q, \A u \in Q : AsUrgent(t, u, e)
  PROVE  MostUrgentOf(Better(c, t, e), O \cup Q, e)
<1>0. t \in Track /\ Counts(t) /\ \A u \in O \cup Q : u \in Track /\ Counts(u)
  BY DEF PhysTracks, Counts
<1>1. CASE c = <<>>
  <2>1. Better(c, t, e) = <<t>>
    BY <1>0, <1>1 DEF Better
  <2>2. O = {}
    BY <1>1 DEF MostUrgentOf
  <2>3. QED
    BY <2>1, <2>2 DEF MostUrgentOf
<1>2. ASSUME NEW a \in O, c = <<a>>, \A u \in O : AsUrgent(a, u, e)
      PROVE  MostUrgentOf(Better(c, t, e), O \cup Q, e)
  <2>0. c[1] = a /\ c # <<>>
    BY <1>2
  <2>1. CASE MoreUrgent(t, a, e)
    <3>1. Better(c, t, e) = <<t>>
      BY <1>0, <2>0, <2>1 DEF Better
    <3>2. AsUrgent(t, a, e)
      BY <1>0, <2>1, MoreUrgentDecides
    <3>3. \A u \in O : AsUrgent(t, u, e)
      BY <1>0, <1>2, <3>2, AsUrgentTransitive
    <3>4. QED
      BY <3>1, <3>3 DEF MostUrgentOf
  <2>2. CASE ~MoreUrgent(t, a, e)
    <3>1. Better(c, t, e) = <<a>>
      BY <1>0, <1>2, <2>0, <2>2 DEF Better
    <3>2. AsUrgent(a, t, e)
      BY <1>0, <2>2, MoreUrgentDecides
    <3>3. \A u \in Q : AsUrgent(a, u, e)
      BY <1>0, <3>2, AsUrgentTransitive
    <3>4. QED
      BY <1>2, <3>1, <3>3 DEF MostUrgentOf
  <2>3. QED
    BY <2>1, <2>2
<1>3. QED
  BY <1>1, <1>2 DEF MostUrgentOf

(* What the first n of the targets offer to the policy. *)
OfferedBy(ts, n) == {ts[i] : i \in {k \in 1..n : ~Skipped(ts[k])}}

(* The choice of a frame is a most urgent one of its targets. *)
LEMMA ChosenIsMostUrgent ==
  ASSUME NEW ts \in Seq(PhysTracks), NEW e \in BOOLEAN
  PROVE  MostUrgentOf(Choose(ts, e), OfferedBy(ts, Len(ts)), e)
<1> DEFINE N == Len(ts)
           f == CHOOSE g : Steps(g, ts, e, N)
           S == {n \in 0..N : ~MostUrgentOf(f[n], OfferedBy(ts, n), e)}
<1>1. Choose(ts, e) = f[N]
  BY DEF Choose, Steps
<1>2. N \in Nat /\ \A i \in 1..N : ts[i] \in PhysTracks
  OBVIOUS
<1>3. Steps(f, ts, e, N)
  BY <1>2, StepsExist
<1> HIDE DEF f, N
<1>4. /\ f[0] = <<>>
      /\ \A i \in 1..N : f[i] = IF Skipped(ts[i]) THEN f[i - 1]
                                ELSE Better(f[i - 1], ts[i], e)
  <2>1. \A i \in 0..N : f[i] = IF i = 0 THEN <<>>
                      ELSE IF Skipped(ts[i]) THEN f[i - 1]
                      ELSE Better(f[i - 1], ts[i], e)
    BY <1>3 DEF Steps
  <2>2. 0 \in 0..N
    BY <1>2
  <2>3. ASSUME NEW i \in 1..N
        PROVE  f[i] = IF Skipped(ts[i]) THEN f[i - 1]
                      ELSE Better(f[i - 1], ts[i], e)
    <3>1. i \in 0..N /\ i # 0
      BY <1>2
    <3>2. QED
      BY <2>1, <3>1
  <2>4. f[0] = <<>>
    BY <2>1, <2>2
  <2>5. QED
    BY <2>3, <2>4
<1>5. S = {}
  <2> SUFFICES ASSUME S # {} PROVE FALSE
    OBVIOUS
  <2>1. S \subseteq Nat
    BY <1>2
  <2>2. PICK n \in S : \A m \in S : n <= m
    BY <2>1, LeastNumber
  <2>3. n \in 0..N /\ ~MostUrgentOf(f[n], OfferedBy(ts, n), e)
    OBVIOUS
  <2>4. CASE n = 0
    <3>1. OfferedBy(ts, 0) = {}
      BY DEF OfferedBy
    <3>2. QED
      BY <1>4, <2>3, <2>4, <3>1 DEF MostUrgentOf
  <2>5. CASE n # 0
    <3>1. n \in 1..N /\ n - 1 \in 0..N /\ ~(n <= n - 1)
      BY <1>2, <2>3, <2>5
    <3>2. MostUrgentOf(f[n - 1], OfferedBy(ts, n - 1), e)
      <4>1. n - 1 \notin S
        BY <2>2, <3>1
      <4>2. QED
        BY <3>1, <4>1
    <3>3. OfferedBy(ts, n) = IF Skipped(ts[n]) THEN OfferedBy(ts, n - 1)
                             ELSE OfferedBy(ts, n - 1) \cup {ts[n]}
      <4>1. 1..n = (1..(n - 1)) \cup {n}
        BY <1>2, <3>1
      <4>2. QED
        BY <4>1 DEF OfferedBy
    <3>4. f[n] = IF Skipped(ts[n]) THEN f[n - 1]
                 ELSE Better(f[n - 1], ts[n], e)
      BY <1>4, <3>1
    <3>5. OfferedBy(ts, n - 1) \in SUBSET PhysTracks /\ ts[n] \in PhysTracks
      <4>1. 1..(n - 1) \subseteq 1..N
        BY <1>2, <3>1
      <4>2. QED
        BY <1>2, <3>1, <4>1 DEF OfferedBy
    <3>6. CASE Skipped(ts[n])
      BY <2>3, <3>2, <3>3, <3>4, <3>6
    <3>7. CASE ~Skipped(ts[n])
      <4>1. AsUrgent(ts[n], ts[n], e)
        BY <3>5, AsUrgentAsItself DEF PhysTracks
      <4>2. MostUrgentOf(Better(f[n - 1], ts[n], e),
                         OfferedBy(ts, n - 1) \cup {ts[n]}, e)
        BY <3>2, <3>5, <4>1, BetterOfBoth
      <4>3. QED
        BY <2>3, <3>3, <3>4, <3>7, <4>2
    <3>8. QED
      BY <3>6, <3>7
  <2>6. QED
    BY <2>4, <2>5
<1>6. N \in 0..N /\ N \notin S
  BY <1>2, <1>5
<1>7. MostUrgentOf(f[N], OfferedBy(ts, N), e)
  BY <1>6
<1> QED
  BY <1>1, <1>7 DEF N

-----------------------------------------------------------------------------
(* Frames. *)

(* What the assumption says, in the parser's terms. *)
LEMMA Sizes ==
  /\ Header \in Seq(Symbols) /\ Tails \in Seq(Symbols)
  /\ HeaderLen \in Nat /\ HeaderLen > 0 /\ HeaderLen = Len(Header)
  /\ Len(Tails) \in Nat /\ Len(Tails) > 0
  /\ MaxTargets \in 0..253 /\ MaxTargets \in Nat
  /\ BodyStart = HeaderLen + 2
  /\ MaxFrame = HeaderLen + 2 + 2 + MaxTargets + Len(Tails)
<1>1. /\ Header \in Seq(Symbols) /\ Tails \in Seq(Symbols)
      /\ Header # <<>> /\ Tails # <<>> /\ MaxTargets \in 0..253
  BY ParserAssumption, Zenon
<1>2. /\ Len(Header) \in Nat /\ Len(Header) > 0
      /\ Len(Tails) \in Nat /\ Len(Tails) > 0
  BY <1>1
<1> QED
  BY <1>1, <1>2 DEF HeaderLen, BodyStart, MaxFrame

LEMMA SymbolsAreBytes == Symbols \subseteq Byte /\ Symbols \subseteq Nat
<1>1. Byte \subseteq Nat
  BY DEF Byte
<1> QED
  BY <1>1, ParserAssumption, Zenon

(* A length that is not bad fits its first byte, and its frame the buffer.  *)
LEMMA GoodLength ==
  ASSUME NEW b \in Seq(Symbols), HasLength(b), ~BadLength(b)
  PROVE  /\ Len(b) \in Nat /\ Len(b) >= BodyStart
         /\ BodyLen(b) \in 0..(2 + MaxTargets)
         /\ Field(b, 1) = BodyLen(b) /\ Field(b, 2) = 0
         /\ FrameLen(b) \in Nat /\ FrameLen(b) <= MaxFrame
         /\ FrameLen(b) >= BodyStart + Len(Tails)
<1>1. Len(b) \in Nat /\ Len(b) >= BodyStart
  BY Sizes DEF HasLength
<1>2. Field(b, 1) \in Nat /\ Field(b, 2) \in Nat
  <2>1. HeaderLen + 1 \in 1..Len(b) /\ HeaderLen + 2 \in 1..Len(b)
    BY Sizes, <1>1
  <2>2. b[HeaderLen + 1] \in Symbols /\ b[HeaderLen + 2] \in Symbols
    BY <2>1
  <2>3. QED
    BY <2>2, SymbolsAreBytes, Zenon DEF Field
<1>3. BodyLen(b) \in 0..(2 + MaxTargets)
  BY Sizes, <1>2 DEF BadLength, BodyLen
<1>4. Field(b, 2) = 0
  <2>1. Field(b, 1) + 256 * Field(b, 2) <= 255
    BY Sizes, <1>3 DEF BodyLen
  <2>2. QED
    BY <1>2, <2>1
<1>5. Field(b, 1) = BodyLen(b)
  BY <1>2, <1>4 DEF BodyLen
<1> QED
  BY Sizes, <1>1, <1>3, <1>4, <1>5 DEF FrameLen

(* A buffer that waits has room for one more byte. *)
LEMMA WaitingHasRoom ==
  ASSUME NEW b \in Seq(Symbols), Waiting(b)
  PROVE  Len(b) < MaxFrame
<1>1. StartsLikeHeader(b) /\ ~Damaged(b) /\ ~(HasLength(b) /\ Complete(b))
  BY DEF Waiting, Rejected, Accepted
<1>2. CASE HasLength(b)
  <2>1. ~BadLength(b) /\ ~Complete(b)
    BY <1>1, <1>2 DEF Damaged
  <2>2. QED
    BY <1>2, <2>1, GoodLength, Sizes DEF Complete
<1>3. CASE ~HasLength(b)
  BY <1>1, <1>3, Sizes DEF HasLength, HasHeader
<1> QED
  BY <1>2, <1>3

(* The bytes of a sequence after the first m, up to the n-th. *)
LEMMA Parts ==
  ASSUME NEW S, NEW b \in Seq(S), NEW m \in Nat, NEW n \in Nat,
         m <= n, n <= Len(b)
  PROVE  /\ SubSeq(b, m + 1, n) \in Seq(S)
         /\ Len(SubSeq(b, m + 1, n)) = n - m
         /\ \A i \in 1..(n - m) : SubSeq(b, m + 1, n)[i] = b[m + i]
<1>0. Len(b) \in Nat
  BY LenProperties
<1>1. \A i \in (m + 1)..n : b[i] \in S
  <2>1. \A i \in (m + 1)..n : i \in 1..Len(b)
    BY <1>0
  <2>2. QED
    BY <2>1, ElementOfSeq, Zenon
<1>2. m + 1 \in Int /\ n \in Int
  OBVIOUS
<1>3. /\ SubSeq(b, m + 1, n) \in Seq(S)
      /\ Len(SubSeq(b, m + 1, n)) = IF m + 1 <= n THEN n - (m + 1) + 1 ELSE 0
      /\ \A i \in 1..(n - (m + 1) + 1) :
           SubSeq(b, m + 1, n)[i] = b[(m + 1) + i - 1]
  <2> DEFINE k == m + 1
  <2>1. k \in Int /\ n \in Int /\ \A i \in k..n : b[i] \in S
    BY <1>1
  <2> HIDE DEF k
  <2>2. /\ SubSeq(b, k, n) \in Seq(S)
        /\ Len(SubSeq(b, k, n)) = IF k <= n THEN n - k + 1 ELSE 0
        /\ \A i \in 1..(n - k + 1) : SubSeq(b, k, n)[i] = b[k + i - 1]
    BY <2>1, SubSeqProperties
  <2>3. QED
    BY <2>2, Zenon DEF k
<1>4. n - (m + 1) + 1 = n - m /\ \A i \in 1..(n - m) : (m + 1) + i - 1 = m + i
  OBVIOUS
<1>5. Len(SubSeq(b, m + 1, n)) = n - m
  BY <1>3
<1> QED
  BY <1>3, <1>4, <1>5, Zenon

(* A sequence is its beginning followed by the rest. *)
LEMMA Splits ==
  ASSUME NEW b \in Seq(Symbols), NEW m \in Nat, NEW n \in Nat,
         m <= n, n <= Len(b)
  PROVE  SubSeq(b, 1, m) \o SubSeq(b, m + 1, n) = SubSeq(b, 1, n)
<1>1. Len(b) \in Nat
  BY LenProperties
<1>2. 1 \in 1..(Len(b) + 1) /\ m \in (1 - 1)..Len(b) /\ n \in m..Len(b)
  BY <1>1
<1> QED
  BY <1>2, ConcatAdjacentSubSeq, Zenon

(* The body of a frame that is accepted. *)
LEMMA AcceptedBody ==
  ASSUME NEW b \in Seq(Symbols), Accepted(b)
  PROVE  /\ Len(b) \in Nat /\ FrameLen(b) \in Nat /\ FrameLen(b) <= Len(b)
         /\ Body(b) \in Seq(Symbols) /\ Len(Body(b)) = BodyLen(b)
         /\ Body(b) \in Bodies
         /\ TracksIn(Body(b)) \in Seq(PhysTracks)
<1> DEFINE body == Body(b)
           n == body[1]
           ts == [i \in 1..n |-> body[i + 2]]
<1>1. /\ HasLength(b) /\ ~BadLength(b) /\ Complete(b)
      /\ BodyValid(Body(b))
  BY DEF Accepted, Damaged
<1>2. /\ Len(b) \in Nat /\ FrameLen(b) \in Nat /\ FrameLen(b) <= Len(b)
      /\ BodyLen(b) \in Nat /\ FrameLen(b) = BodyStart + BodyLen(b) + Len(Tails)
  BY <1>1, GoodLength, Sizes DEF Complete, FrameLen
<1>3. body \in Seq(Symbols) /\ Len(body) = BodyLen(b)
  <2>1. /\ BodyStart \in Nat /\ BodyStart + BodyLen(b) \in Nat
        /\ BodyStart <= BodyStart + BodyLen(b)
        /\ BodyStart + BodyLen(b) <= Len(b)
        /\ (BodyStart + BodyLen(b)) - BodyStart = BodyLen(b)
    BY <1>2, Sizes
  <2>2. QED
    BY <2>1, Parts, Zenon DEF Body
<1> HIDE DEF body
<1>4. CASE body = <<>>
  <2>1. body \in Bodies
    BY <1>4 DEF Bodies
  <2>2. TracksIn(body) = <<>>
    BY <1>4 DEF TracksIn
  <2>3. QED
    BY <1>2, <1>3, <2>1, <2>2 DEF body
<1>5. CASE body # <<>>
  <2>1. /\ Len(body) >= 2 /\ n <= MaxTargets /\ body[2] <= 1
        /\ Len(body) = 2 + n
        /\ \A i \in 3..Len(body) : body[i] \in DOMAIN Targets
    BY <1>1, <1>5, Zenon DEF BodyValid, body
  <2>2. n \in 0..MaxTargets /\ body[2] \in {0, 1}
    <3>1. n \in Symbols /\ body[2] \in Symbols
      <4>1. Len(body) \in Nat
        BY <1>3, LenProperties, Zenon
      <4>2. 1 \in 1..Len(body) /\ 2 \in 1..Len(body)
        BY <2>1, <4>1
      <4>3. QED
        BY <1>3, <4>2, ElementOfSeq, Zenon
    <3>2. QED
      <4>1. n \in Nat /\ body[2] \in Nat
        BY <3>1, SymbolsAreBytes, Zenon
      <4>2. QED
        BY <2>1, <4>1, Sizes
  <2>3. ts \in [1..n -> DOMAIN Targets]
    <3>1. \A i \in 1..n : i + 2 \in 3..Len(body)
      BY <2>1, <2>2
    <3>2. QED
      BY <2>1, <3>1
  <2>4. <<n, body[2]>> \o ts = body
    <3> HIDE DEF ts, n
    <3> DEFINE head == <<n, body[2]>>
    <3>0. n \in Nat /\ body[2] \in Nat /\ Len(body) = 2 + n
      BY <2>1, <2>2, Sizes
    <3>1. ts \in Seq(Nat) /\ Len(ts) = n
      <4>1. DOMAIN Targets \subseteq Nat
        BY ParserAssumption, SymbolsAreBytes, Zenon
      <4>2. ts \in [1..n -> Nat]
        BY <2>3, <4>1
      <4>3. QED
        BY <3>0, <4>2
    <3>2. /\ head \in Seq(Nat) /\ Len(head) = 2
          /\ head[1] = n /\ head[2] = body[2]
      BY <3>0
    <3>3. body \in Seq(Nat)
      BY <1>3, SymbolsAreBytes, SeqMonotonic, Zenon
    <3> HIDE DEF head
    <3>4. /\ head \o ts \in Seq(Nat) /\ Len(head \o ts) = 2 + n
          /\ \A i \in 1..(2 + n) :
               (head \o ts)[i] = IF i <= 2 THEN head[i] ELSE ts[i - 2]
      <4>1. /\ head \o ts \in Seq(Nat)
            /\ Len(head \o ts) = Len(head) + Len(ts)
            /\ \A i \in 1..(Len(head) + Len(ts)) : (head \o ts)[i] =
                 IF i <= Len(head) THEN head[i] ELSE ts[i - Len(head)]
        BY <3>1, <3>2, ConcatProperties, Zenon
      <4>2. QED
        BY <3>1, <3>2, <4>1, Zenon
    <3>5. ASSUME NEW i \in 1..(2 + n)
          PROVE  (head \o ts)[i] = body[i]
      <4>1. CASE i <= 2
        <5>1. i = 1 \/ i = 2
          BY <4>1
        <5>2. QED
          BY <3>2, <3>4, <4>1, <5>1, Zenon DEF n
      <4>2. CASE ~(i <= 2)
        <5>1. i - 2 \in 1..n /\ (i - 2) + 2 = i
          BY <3>0, <4>2
        <5>2. ts[i - 2] = body[(i - 2) + 2]
          BY <5>1, Zenon DEF ts
        <5>3. QED
          BY <3>4, <4>2, <5>1, <5>2, Zenon
      <4>3. QED
        BY <4>1, <4>2
    <3>6. head \o ts = body
      BY <3>0, <3>3, <3>4, <3>5, SeqEqual, Zenon
    <3>7. QED
      BY <3>6 DEF head
  <2>5. body \in Bodies
    <3> HIDE DEF ts, n
    <3> DEFINE ofSize(k) == {<<k, alarm>> \o us :
                               alarm \in {0, 1},
                               us \in [1..k -> DOMAIN Targets]}
    <3>1. <<n, body[2]>> \o ts \in Bodies
      <4>1. <<n, body[2]>> \o ts \in ofSize(n)
        BY <2>2, <2>3
      <4>2. Bodies = {<<>>} \cup UNION {ofSize(k) : k \in 0..MaxTargets}
        BY DEF Bodies
      <4> HIDE DEF ofSize
      <4>3. ofSize(n) \in {ofSize(k) : k \in 0..MaxTargets}
        BY <2>2
      <4>4. QED
        BY <4>1, <4>2, <4>3
    <3>2. QED
      BY <2>4, <3>1
  <2>6. TracksIn(body) \in Seq(PhysTracks)
    <3>1. TracksIn(body) = [i \in 1..n |-> [Targets[body[i + 2]]
                              EXCEPT !.alarm = (body[2] = 1)]]
      BY <1>5 DEF TracksIn
    <3>2. ASSUME NEW i \in 1..n
          PROVE  [Targets[body[i + 2]] EXCEPT !.alarm = (body[2] = 1)]
                   \in PhysTracks
      <4>1. body[i + 2] \in DOMAIN Targets
        BY <2>3
      <4>2. Targets[body[i + 2]] \in Track /\ Targets[body[i + 2]].phys
        BY <4>1, ParserAssumption
      <4>3. (body[2] = 1) \in BOOLEAN
        OBVIOUS
      <4>4. QED
        BY <4>2, <4>3, Zenon DEF PhysTracks, Track
    <3>3. n \in Nat
      BY <2>2, Sizes
    <3> HIDE DEF n
    <3>4. [i \in 1..n |-> [Targets[body[i + 2]] EXCEPT !.alarm = (body[2] = 1)]]
            \in [1..n -> PhysTracks]
      BY <3>2
    <3>5. [1..n -> PhysTracks] \subseteq Seq(PhysTracks)
      BY <3>3
    <3>6. QED
      BY <3>1, <3>4, <3>5
  <2>7. QED
    BY <1>2, <1>3, <2>5, <2>6 DEF body
<1> QED
  BY <1>4, <1>5

(* What is accepted is a good frame. *)
LEMMA AcceptedIsGood ==
  ASSUME NEW b \in Seq(Symbols), Accepted(b)
  PROVE  SubSeq(b, 1, FrameLen(b)) \in GoodFrames
<1> DEFINE L == BodyLen(b)
           body == Body(b)
<1>1. /\ HasLength(b) /\ ~BadLength(b) /\ TailMatches(b) /\ StartsLikeHeader(b)
  BY DEF Accepted, Damaged, HasLength, HasHeader
<1>2. /\ Len(b) \in Nat /\ FrameLen(b) \in Nat /\ FrameLen(b) <= Len(b)
      /\ body \in Bodies /\ Len(body) = L
  BY AcceptedBody
<1>3. /\ L \in Nat /\ Field(b, 1) = L /\ Field(b, 2) = 0 /\ Len(b) >= BodyStart
  BY <1>1, GoodLength, Sizes
<1>4. /\ HeaderLen \in Nat /\ BodyStart \in Nat /\ BodyStart + L \in Nat
      /\ HeaderLen <= BodyStart /\ BodyStart <= BodyStart + L
      /\ HeaderLen + 2 = BodyStart
      /\ BodyStart + L <= FrameLen(b) /\ HeaderLen <= Len(b)
      /\ BodyStart <= Len(b) /\ BodyStart + L <= Len(b)
      /\ FrameLen(b) - Len(Tails) = BodyStart + L
  BY <1>2, <1>3, Sizes DEF FrameLen
<1>5. SubSeq(b, 1, HeaderLen) = Header
  <2> DEFINE s == SubSeq(b, 1, HeaderLen)
  <2>1. /\ 0 \in Nat /\ 0 <= HeaderLen /\ 0 + 1 = 1 /\ HeaderLen - 0 = HeaderLen
        /\ \A i \in 1..HeaderLen : 0 + i = i
    BY <1>4
  <2>2. /\ SubSeq(b, 0 + 1, HeaderLen) \in Seq(Symbols)
        /\ Len(SubSeq(b, 0 + 1, HeaderLen)) = HeaderLen - 0
        /\ \A i \in 1..(HeaderLen - 0) :
             SubSeq(b, 0 + 1, HeaderLen)[i] = b[0 + i]
    BY <1>4, <2>1, Parts
  <2>3. /\ s \in Seq(Symbols) /\ Len(s) = HeaderLen
        /\ \A i \in 1..HeaderLen : s[i] = b[i]
    BY <2>1, <2>2, Zenon
  <2>4. \A i \in 1..HeaderLen : b[i] = Header[i]
    <3>1. \A i \in 1..HeaderLen : i \in 1..Len(b) /\ i <= HeaderLen
      BY <1>2, <1>4
    <3>2. QED
      BY <1>1, <3>1, Zenon DEF StartsLikeHeader
  <2> HIDE DEF s
  <2>5. s = Header
    BY <2>3, <2>4, Sizes, SeqEqual, Zenon
  <2>6. QED
    BY <2>5 DEF s
<1>6. SubSeq(b, HeaderLen + 1, BodyStart) = <<L, 0>>
  <2> DEFINE s == SubSeq(b, HeaderLen + 1, BodyStart)
  <2>1. /\ s \in Seq(Symbols) /\ Len(s) = BodyStart - HeaderLen
        /\ \A i \in 1..(BodyStart - HeaderLen) : s[i] = b[HeaderLen + i]
    <3>1. /\ HeaderLen \in Nat /\ BodyStart \in Nat
          /\ HeaderLen <= BodyStart /\ BodyStart <= Len(b)
      BY <1>4
    <3>2. QED
      BY <3>1, Parts
  <2>2. BodyStart - HeaderLen = 2
    BY <1>4
  <2>3. s[1] = L /\ s[2] = 0 /\ Len(s) = 2
    <3>1. 1 \in 1..2 /\ 2 \in 1..2
      OBVIOUS
    <3>2. QED
      BY <1>3, <2>1, <2>2, <3>1, Zenon DEF Field
  <2>4. s \in Seq(Nat)
    BY <2>1, SymbolsAreBytes, SeqMonotonic, Zenon
  <2> HIDE DEF s
  <2> DEFINE r == <<L, 0>>
  <2>5. r \in Seq(Nat) /\ Len(r) = 2 /\ r[1] = L /\ r[2] = 0
    BY <1>3
  <2> HIDE DEF r
  <2>6. \A i \in 1..2 : s[i] = r[i]
    BY <2>3, <2>5
  <2>7. s = r
    BY <2>3, <2>4, <2>5, <2>6, SeqEqual, Zenon
  <2>8. QED
    BY <2>7 DEF s, r
<1>7. SubSeq(b, BodyStart + 1, BodyStart + L) = body
  BY DEF Body
<1>8. SubSeq(b, BodyStart + L + 1, FrameLen(b)) = Tails
  BY <1>1, <1>4, Zenon DEF TailMatches
<1>9. SubSeq(b, 1, BodyStart) = Header \o <<L, 0>>
  BY <1>4, <1>5, <1>6, Splits, Zenon
<1>10. SubSeq(b, 1, BodyStart + L) = Header \o <<L, 0>> \o body
  BY <1>4, <1>7, <1>9, Splits, Zenon
<1>11. SubSeq(b, 1, FrameLen(b)) = Header \o <<L, 0>> \o body \o Tails
  BY <1>2, <1>4, <1>8, <1>10, Splits, Zenon
<1> QED
  BY <1>2, <1>11, Zenon DEF GoodFrames

(* A body is empty, or a count, an alarm byte and its targets. *)
LEMMA BodyCases ==
  ASSUME NEW body \in Bodies
  PROVE  \/ body = <<>>
         \/ \E n \in 0..MaxTargets, alarm \in {0, 1} :
              \E ts \in [1..n -> DOMAIN Targets] : body = <<n, alarm>> \o ts
<1> DEFINE ofSize(n) == {<<n, alarm>> \o ts :
                           alarm \in {0, 1}, ts \in [1..n -> DOMAIN Targets]}
<1>1. ASSUME NEW n
      PROVE  \A x \in ofSize(n) : \E alarm \in {0, 1} :
               \E ts \in [1..n -> DOMAIN Targets] : x = <<n, alarm>> \o ts
  OBVIOUS
<1>2. Bodies = {<<>>} \cup UNION {ofSize(n) : n \in 0..MaxTargets}
  BY DEF Bodies
<1> HIDE DEF ofSize
<1>3. body = <<>> \/ \E n \in 0..MaxTargets : body \in ofSize(n)
  BY <1>2
<1> QED
  BY <1>1, <1>3, Zenon

(* What the body of a good frame is made of. *)
LEMMA BodyPlaces ==
  ASSUME NEW body \in Bodies
  PROVE  /\ body \in Seq(Nat) /\ Len(body) \in 0..(2 + MaxTargets)
         /\ BodyValid(body)
         /\ body # <<>> => body[2] \in {0, 1}
<1>1. CASE body = <<>>
  <2>1. body \in Seq(Nat) /\ Len(body) = 0
    BY <1>1
  <2>2. QED
    BY <1>1, <2>1, Sizes DEF BodyValid
<1>2. ASSUME NEW n \in 0..MaxTargets, NEW alarm \in {0, 1},
             NEW ts \in [1..n -> DOMAIN Targets], body = <<n, alarm>> \o ts
      PROVE  /\ body \in Seq(Nat) /\ Len(body) \in 0..(2 + MaxTargets)
             /\ BodyValid(body)
             /\ body # <<>> => body[2] \in {0, 1}
  <2> DEFINE head == <<n, alarm>>
  <2>0. n \in Nat /\ n <= MaxTargets /\ alarm \in Nat /\ alarm <= 1
    BY Sizes
  <2>1. ts \in Seq(Nat) /\ Len(ts) = n
    <3>1. DOMAIN Targets \subseteq Nat
      BY ParserAssumption, SymbolsAreBytes, Zenon
    <3>2. ts \in [1..n -> Nat]
      BY <3>1
    <3>3. QED
      BY <2>0, <3>2
  <2>2. /\ head \in Seq(Nat) /\ Len(head) = 2
        /\ head[1] = n /\ head[2] = alarm
    BY <2>0
  <2> HIDE DEF head
  <2>3. /\ head \o ts \in Seq(Nat) /\ Len(head \o ts) = Len(head) + Len(ts)
        /\ \A i \in 1..(Len(head) + Len(ts)) : (head \o ts)[i] =
             IF i <= Len(head) THEN head[i] ELSE ts[i - Len(head)]
    BY <2>1, <2>2, ConcatProperties, Zenon
  <2>4. /\ body \in Seq(Nat) /\ Len(body) = 2 + n
        /\ \A i \in 1..(2 + n) :
             body[i] = IF i <= 2 THEN head[i] ELSE ts[i - 2]
    BY <1>2, <2>1, <2>2, <2>3, Zenon DEF head
  <2>5. body[1] = n /\ body[2] = alarm
    <3>1. 1 \in 1..(2 + n) /\ 2 \in 1..(2 + n) /\ 1 <= 2 /\ 2 <= 2
      BY <2>0
    <3>2. QED
      BY <2>2, <2>4, <3>1, Zenon
  <2>6. ASSUME NEW i \in 3..Len(body) PROVE body[i] \in DOMAIN Targets
    <3>1. i \in 1..(2 + n) /\ ~(i <= 2) /\ i - 2 \in 1..n
      BY <2>0, <2>4
    <3>2. QED
      BY <2>4, <3>1
  <2>7. Len(body) \in 0..(2 + MaxTargets) /\ Len(body) >= 2
    BY <2>0, <2>4, Sizes
  <2>8. BodyValid(body)
    BY <2>0, <2>4, <2>5, <2>6, <2>7 DEF BodyValid
  <2>9. QED
    BY <2>4, <2>5, <2>7, <2>8
<1> QED
  BY <1>1, <1>2, BodyCases, Zenon

(* What concatenation yields, for lengths known under other names. *)
LEMMA Joined ==
  ASSUME NEW s \in Seq(Nat), NEW t \in Seq(Nat), NEW m, NEW n,
         Len(s) = m, Len(t) = n
  PROVE  /\ s \o t \in Seq(Nat) /\ Len(s \o t) = m + n
         /\ \A i \in 1..(m + n) :
              (s \o t)[i] = IF i <= m THEN s[i] ELSE t[i - m]
<1>1. /\ s \o t \in Seq(Nat) /\ Len(s \o t) = Len(s) + Len(t)
      /\ \A i \in 1..(Len(s) + Len(t)) : (s \o t)[i] =
             IF i <= Len(s) THEN s[i] ELSE t[i - Len(s)]
  BY ConcatProperties, Zenon
<1> QED
  BY <1>1, Zenon

(* Byte by byte, what a good frame is made of. *)
LEMMA GoodFramePlaces ==
  ASSUME NEW f \in GoodFrames
  PROVE  \E body \in Bodies :
           /\ f \in Seq(Nat)
           /\ Len(f) = BodyStart + Len(body) + Len(Tails)
           /\ \A i \in 1..HeaderLen : f[i] = Header[i]
           /\ f[HeaderLen + 1] = Len(body) /\ f[HeaderLen + 2] = 0
           /\ \A i \in 1..Len(body) : f[BodyStart + i] = body[i]
           /\ \A i \in 1..Len(Tails) : f[BodyStart + Len(body) + i] = Tails[i]
<1>1. PICK body \in Bodies : f = Header \o <<Len(body), 0>> \o body \o Tails
  BY Zenon DEF GoodFrames
<1> DEFINE L == Len(body)
           size == <<L, 0>>
           p == Header \o size
           q == p \o body
<1>2. body \in Seq(Nat) /\ L \in Nat
  BY BodyPlaces, LenProperties, Zenon
<1>3. Header \in Seq(Nat) /\ Tails \in Seq(Nat)
  BY Sizes, SymbolsAreBytes, SeqMonotonic, Zenon
<1>4. /\ HeaderLen \in Nat /\ Len(Header) = HeaderLen /\ Len(Tails) \in Nat
      /\ BodyStart = HeaderLen + 2
  BY Sizes
<1>5. size \in Seq(Nat) /\ Len(size) = 2 /\ size[1] = L /\ size[2] = 0
  BY <1>2
<1> HIDE DEF size
<1>6. /\ p \in Seq(Nat) /\ Len(p) = HeaderLen + 2
      /\ \A i \in 1..(HeaderLen + 2) :
           p[i] = IF i <= HeaderLen THEN Header[i] ELSE size[i - HeaderLen]
  <2>1. /\ p \in Seq(Nat) /\ Len(p) = Len(Header) + Len(size)
        /\ \A i \in 1..(Len(Header) + Len(size)) : p[i] =
             IF i <= Len(Header) THEN Header[i] ELSE size[i - Len(Header)]
    BY <1>3, <1>5, ConcatProperties, Zenon
  <2> HIDE DEF p
  <2>2. QED
    BY <1>4, <1>5, <2>1, Zenon
<1> HIDE DEF p
<1>6a. /\ Len(p) = BodyStart
       /\ \A i \in 1..BodyStart :
            p[i] = IF i <= HeaderLen THEN Header[i] ELSE size[i - HeaderLen]
  BY <1>4, <1>6, Zenon
<1>7. /\ q \in Seq(Nat) /\ Len(q) = BodyStart + L
      /\ \A i \in 1..(BodyStart + L) :
           q[i] = IF i <= BodyStart THEN p[i] ELSE body[i - BodyStart]
  BY <1>2, <1>6, <1>6a, Joined
<1> HIDE DEF q
<1>8. /\ f \in Seq(Nat) /\ Len(f) = BodyStart + L + Len(Tails)
      /\ \A i \in 1..(BodyStart + L + Len(Tails)) :
           f[i] = IF i <= BodyStart + L THEN q[i]
                  ELSE Tails[i - (BodyStart + L)]
  <2>1. f = q \o Tails
    BY <1>1 DEF q, p, size
  <2>2. QED
    <3>1. /\ f \in Seq(Nat) /\ Len(f) = Len(q) + Len(Tails)
          /\ \A i \in 1..(Len(q) + Len(Tails)) : f[i] =
               IF i <= Len(q) THEN q[i] ELSE Tails[i - Len(q)]
      BY <1>3, <1>7, <2>1, ConcatProperties, Zenon
    <3>2. QED
      BY <1>7, <3>1, Zenon
<1> HIDE DEF L
<1>9. \A i \in 1..BodyStart : f[i] = p[i]
  <2>1. \A i \in 1..BodyStart : /\ i \in 1..(BodyStart + L + Len(Tails))
                               /\ i <= BodyStart + L /\ i \in 1..(BodyStart + L)
                               /\ i <= BodyStart
    BY <1>2, <1>4
  <2>2. QED
    BY <1>7, <1>8, <2>1, Zenon
<1>10. \A i \in 1..HeaderLen : f[i] = Header[i]
  <2>1. \A i \in 1..HeaderLen : i \in 1..BodyStart /\ i <= HeaderLen
    BY <1>4
  <2>2. QED
    BY <1>6a, <1>9, <2>1, Zenon
<1>11. f[HeaderLen + 1] = L /\ f[HeaderLen + 2] = 0
  <2>1. /\ HeaderLen + 1 \in 1..BodyStart /\ HeaderLen + 2 \in 1..BodyStart
        /\ ~(HeaderLen + 1 <= HeaderLen) /\ ~(HeaderLen + 2 <= HeaderLen)
        /\ (HeaderLen + 1) - HeaderLen = 1 /\ (HeaderLen + 2) - HeaderLen = 2
    BY <1>4
  <2>2. QED
    BY <1>5, <1>6a, <1>9, <2>1, Zenon
<1>12. \A i \in 1..L : f[BodyStart + i] = body[i]
  <2>1. \A i \in 1..L : /\ BodyStart + i \in 1..(BodyStart + L + Len(Tails))
                       /\ BodyStart + i <= BodyStart + L
                       /\ BodyStart + i \in 1..(BodyStart + L)
                       /\ ~(BodyStart + i <= BodyStart)
                       /\ (BodyStart + i) - BodyStart = i
    BY <1>2, <1>4
  <2>2. QED
    BY <1>7, <1>8, <2>1, Zenon
<1>13. \A i \in 1..Len(Tails) : f[BodyStart + L + i] = Tails[i]
  <2>1. \A i \in 1..Len(Tails) :
           /\ BodyStart + L + i \in 1..(BodyStart + L + Len(Tails))
           /\ ~(BodyStart + L + i <= BodyStart + L)
           /\ (BodyStart + L + i) - (BodyStart + L) = i
    BY <1>2, <1>4
  <2>2. QED
    BY <1>8, <2>1, Zenon
<1> QED
  BY <1>8, <1>10, <1>11, <1>12, <1>13, Zenon DEF L

(* A prefix agrees with the whole, place by place. *)
LEMMA PlacesOfPrefix ==
  ASSUME NEW S, NEW s \in Seq(S), NEW T, NEW t \in Seq(T), Len(s) <= Len(t),
         SubSeq(s, 1, Len(s)) = SubSeq(t, 1, Len(s)), NEW i \in 1..Len(s)
  PROVE  s[i] = t[i]
<1> DEFINE n == Len(s)
<1>1. n \in Nat /\ Len(t) \in Nat /\ 0 \in Nat /\ 0 <= n /\ n <= n
  BY LenProperties
<1>2. /\ \A k \in 1..(n - 0) : SubSeq(s, 0 + 1, n)[k] = s[0 + k]
      /\ \A k \in 1..(n - 0) : SubSeq(t, 0 + 1, n)[k] = t[0 + k]
  BY <1>1, Parts
<1>3. n - 0 = n /\ 0 + 1 = 1 /\ 0 + i = i
  BY <1>1
<1> QED
  BY <1>2, <1>3

(* Nothing that agrees with a good frame as far as they go is rejected.     *)
LEMMA BeginningIsKept ==
  ASSUME NEW b \in Seq(Symbols), NEW f \in GoodFrames,
         IsPrefix(b, f) \/ IsPrefix(f, b)
  PROVE  ~Rejected(b)
<1>1. PICK body \in Bodies :
           /\ f \in Seq(Nat)
           /\ Len(f) = BodyStart + Len(body) + Len(Tails)
           /\ \A i \in 1..HeaderLen : f[i] = Header[i]
           /\ f[HeaderLen + 1] = Len(body) /\ f[HeaderLen + 2] = 0
           /\ \A i \in 1..Len(body) : f[BodyStart + i] = body[i]
           /\ \A i \in 1..Len(Tails) : f[BodyStart + Len(body) + i] = Tails[i]
  BY GoodFramePlaces, Zenon
<1> DEFINE L == Len(body)
<1>2. /\ Len(b) \in Nat /\ Len(f) \in Nat
      /\ L \in 0..(2 + MaxTargets) /\ L \in Nat /\ body \in Seq(Nat)
      /\ BodyValid(body) /\ (body # <<>> => body[2] \in {0, 1})
      /\ (body = <<>> <=> L = 0)
      /\ Len(f) = BodyStart + L + Len(Tails)
  BY <1>1, BodyPlaces
<1> HIDE DEF L
<1>3. ASSUME NEW i \in 1..Len(b), i <= Len(f)
      PROVE  b[i] = f[i]
  <2>1. CASE IsPrefix(b, f)
    <3>1. Len(b) <= Len(f) /\ SubSeq(b, 1, Len(b)) = SubSeq(f, 1, Len(b))
      BY <2>1, Zenon DEF IsPrefix
    <3>2. QED
      BY <1>2, <3>1, PlacesOfPrefix
  <2>2. CASE IsPrefix(f, b)
    <3>1. Len(f) <= Len(b) /\ SubSeq(f, 1, Len(f)) = SubSeq(b, 1, Len(f))
      BY <2>2, Zenon DEF IsPrefix
    <3>2. i \in 1..Len(f)
      BY <1>2, <1>3
    <3>3. QED
      BY <1>1, <1>2, <3>1, <3>2, PlacesOfPrefix
  <2>3. QED
    BY <2>1, <2>2
<1>4. StartsLikeHeader(b)
  <2> SUFFICES ASSUME NEW i \in 1..Len(b), i <= HeaderLen PROVE b[i] = Header[i]
    BY DEF StartsLikeHeader
  <2>1. i \in 1..HeaderLen /\ i <= Len(f)
    BY <1>1, <1>2, Sizes
  <2>2. QED
    BY <1>1, <1>3, <2>1, Zenon
<1>5. ASSUME HasLength(b) PROVE /\ BodyLen(b) = L /\ FrameLen(b) = Len(f)
                                /\ Len(b) >= BodyStart
  <2>1. /\ HeaderLen + 1 \in 1..Len(b) /\ HeaderLen + 2 \in 1..Len(b)
        /\ HeaderLen + 1 <= Len(f) /\ HeaderLen + 2 <= Len(f)
    BY <1>2, <1>5, Sizes DEF HasLength
  <2>2. b[HeaderLen + 1] = L /\ b[HeaderLen + 2] = 0
    BY <1>1, <1>3, <2>1, Zenon DEF L
  <2>3. BodyLen(b) = L
    BY <1>2, <2>2 DEF BodyLen, Field
  <2>4. QED
    BY <1>1, <1>2, <1>5, <2>3, Sizes DEF HasLength, FrameLen
<1>6. ~(HasLength(b) /\ BadLength(b))
  <2>1. L # 0 => L >= 2
    BY <1>2 DEF BodyValid, L
  <2>2. QED
    BY <1>2, <1>5, <2>1, Sizes DEF BadLength
<1>7. ~(HasLength(b) /\ BadStart(b))
  <2> SUFFICES ASSUME HasLength(b), L # 0
               PROVE  /\ Len(b) >= BodyStart + 1 =>
                            /\ ~(b[BodyStart + 1] > MaxTargets)
                            /\ L = 2 + b[BodyStart + 1]
                      /\ Len(b) >= BodyStart + 2 => ~(b[BodyStart + 2] > 1)
    BY <1>5 DEF BadStart
  <2>1. Len(body) >= 2 /\ body[1] <= MaxTargets /\ L = 2 + body[1]
    BY <1>2, Zenon DEF BodyValid, L
  <2>2. body[1] \in Nat /\ body[2] \in {0, 1}
    <3>1. 1 \in 1..Len(body)
      BY <1>2, <2>1
    <3>2. QED
      BY <1>2, <3>1, ElementOfSeq
  <2>3. ASSUME NEW k \in {1, 2}, Len(b) >= BodyStart + k
        PROVE  b[BodyStart + k] = body[k]
    <3>1. /\ BodyStart + k \in 1..Len(b) /\ BodyStart + k <= Len(f)
          /\ k \in 1..L
      <4>1. L >= 2 /\ L \in Nat
        BY <1>2, <2>1 DEF L
      <4>2. k \in 1..L /\ k \in Nat /\ k >= 1
        BY <4>1
      <4>3. BodyStart + k \in 1..Len(b)
        BY <1>2, <2>3, <4>2, Sizes
      <4>4. BodyStart + k <= Len(f)
        BY <1>2, <4>1, <4>2, Sizes
      <4>5. QED
        BY <4>2, <4>3, <4>4
    <3>2. QED
      BY <1>1, <1>3, <3>1, Zenon DEF L
  <2>4. QED
    BY <2>1, <2>2, <2>3, Sizes
<1>8. ASSUME HasLength(b), Complete(b)
      PROVE  BodyValid(Body(b)) /\ TailMatches(b)
  <2>1. /\ BodyLen(b) = L /\ FrameLen(b) = BodyStart + L + Len(Tails)
        /\ FrameLen(b) <= Len(b) /\ FrameLen(b) = Len(f)
    BY <1>2, <1>5, <1>8, Sizes DEF Complete
  <2>2. Body(b) = body
    <3> DEFINE m == BodyStart + L
               s == SubSeq(b, BodyStart + 1, m)
    <3>1. /\ BodyStart \in Nat /\ m \in Nat /\ BodyStart <= m /\ m <= Len(b)
          /\ m - BodyStart = L
      BY <1>2, <2>1, Sizes
    <3> HIDE DEF m
    <3>2. /\ s \in Seq(Symbols) /\ Len(s) = m - BodyStart
          /\ \A i \in 1..(m - BodyStart) : s[i] = b[BodyStart + i]
      BY <3>1, Parts
    <3> HIDE DEF s
    <3>3. s \in Seq(Nat)
      BY <3>2, SymbolsAreBytes, SeqMonotonic, Zenon
    <3>4. ASSUME NEW i \in 1..L PROVE s[i] = body[i]
      <4>1. BodyStart + i \in 1..Len(b) /\ BodyStart + i <= Len(f)
        BY <1>2, <2>1, Sizes
      <4>2. QED
        BY <1>1, <1>3, <3>1, <3>2, <4>1 DEF L
    <3>5. s = body
      BY <1>2, <3>1, <3>2, <3>3, <3>4, SeqEqual, Zenon DEF L
    <3>6. QED
      BY <2>1, <3>5 DEF Body, s, m
  <2>3. TailMatches(b)
    <3> DEFINE m == BodyStart + L
               n == FrameLen(b)
               s == SubSeq(b, m + 1, n)
    <3>1. /\ m \in Nat /\ n \in Nat /\ m <= n /\ n <= Len(b)
          /\ n - m = Len(Tails) /\ n - Len(Tails) = m
      BY <1>2, <2>1, Sizes
    <3>2. n = Len(f) /\ m = BodyStart + Len(body)
      BY <2>1 DEF L
    <3> HIDE DEF m, n
    <3>3. /\ s \in Seq(Symbols) /\ Len(s) = n - m
          /\ \A i \in 1..(n - m) : s[i] = b[m + i]
      BY <3>1, Parts
    <3> HIDE DEF s
    <3>4. ASSUME NEW i \in 1..Len(Tails) PROVE s[i] = Tails[i]
      <4>1. m + i \in 1..Len(b) /\ m + i <= Len(f)
        <5>1. m + i <= n
          BY <3>1
        <5>2. m + i <= Len(b) /\ m + i >= 1 /\ m + i \in Nat
          BY <1>2, <3>1, <5>1
        <5>3. QED
          BY <1>2, <3>2, <5>1, <5>2
      <4>2. QED
        BY <1>1, <1>3, <3>1, <3>2, <3>3, <4>1
    <3>5. s = Tails
      BY <3>1, <3>3, <3>4, Sizes, SeqEqual, Zenon
    <3>6. QED
      BY <3>1, <3>5 DEF TailMatches, s, n
  <2>4. QED
    BY <1>2, <2>2, <2>3
<1> QED
  BY <1>4, <1>6, <1>7, <1>8, Zenon DEF Rejected, Damaged

-----------------------------------------------------------------------------
(* The invariant: the buffer holds no more than one frame, and the choice   *)
(* of the call is a most urgent one of what was delivered.                  *)
ParserInv ==
  /\ buffer \in Seq(Symbols) /\ Len(buffer) <= MaxFrame
  /\ headerSeen \in BOOLEAN /\ early \in BOOLEAN
  /\ headerSeen => HasHeader(buffer)
  /\ offered \in SUBSET PhysTracks
  /\ dropped \in Seq(Symbols)
  /\ MostUrgentOf(choice, offered, early)

(* It holds at first. *)
LEMMA ParserInvInit == Init => ParserInv
<1> SUFFICES ASSUME Init PROVE ParserInv
  OBVIOUS
<1>1. <<>> \in Seq(Symbols) /\ Len(<<>>) = 0
  OBVIOUS
<1>2. MostUrgentOf(<<>>, {}, early)
  BY DEF MostUrgentOf
<1> QED
  <2>1. /\ buffer = <<>> /\ headerSeen = FALSE /\ early \in BOOLEAN
        /\ choice = <<>> /\ offered = {} /\ dropped = <<>>
    BY DEF Init
  <2>2. Len(buffer) <= MaxFrame
    BY <1>1, <2>1, Sizes
  <2>3. MostUrgentOf(choice, offered, early)
    BY <1>2, <2>1
  <2>4. QED
    BY <1>1, <2>1, <2>2, <2>3 DEF ParserInv

(* Dropping n bytes leaves the rest; the header has to be seen again. *)
LEMMA ParserInvDrop ==
  ASSUME ParserInv, NEW n \in Nat, 1 <= n, n <= Len(buffer), Drop(n)
  PROVE  /\ buffer' \in Seq(Symbols) /\ Len(buffer') = Len(buffer) - n
         /\ Len(buffer') <= MaxFrame
         /\ dropped' \in Seq(Symbols) /\ Len(dropped') = n
         /\ headerSeen' = FALSE
<1>1. /\ buffer \in Seq(Symbols) /\ Len(buffer) \in Nat
      /\ Len(buffer) <= MaxFrame
  BY LenProperties DEF ParserInv
<1>2. /\ buffer' \in Seq(Symbols) /\ Len(buffer') = Len(buffer) - n
  BY <1>1, Parts DEF Drop
<1>3. dropped' \in Seq(Symbols) /\ Len(dropped') = n
  <2>1. 0 \in Nat /\ 0 <= n /\ 0 + 1 = 1 /\ n - 0 = n
    OBVIOUS
  <2>2. /\ SubSeq(buffer, 0 + 1, n) \in Seq(Symbols)
        /\ Len(SubSeq(buffer, 0 + 1, n)) = n - 0
    BY <1>1, <2>1, Parts
  <2>3. QED
    BY <2>1, <2>2, Zenon DEF Drop
<1> QED
  BY <1>1, <1>2, <1>3, Sizes DEF Drop

(* What is not rejected is not empty. *)
LEMMA RejectedHasAByte ==
  ASSUME NEW b \in Seq(Symbols), Rejected(b)
  PROVE  1 <= Len(b)
<1>1. Len(b) \in Nat
  BY LenProperties
<1>2. CASE ~StartsLikeHeader(b)
  BY <1>1, <1>2 DEF StartsLikeHeader
<1>3. CASE Damaged(b)
  BY <1>1, <1>3, Sizes DEF Damaged, HasLength
<1> QED
  BY <1>2, <1>3 DEF Rejected

(* A call adds its byte: there is always room for it. *)
LEMMA ParserInvFeed ==
  ASSUME ParserInv, NEW x \in Symbols, Feed(x)
  PROVE  /\ ParserInv' /\ Len(buffer') = Len(buffer) + 1
<1>0. buffer \in Seq(Symbols) /\ Len(buffer) \in Nat
  BY LenProperties DEF ParserInv
<1>1. Len(buffer) < MaxFrame
  BY <1>0, WaitingHasRoom DEF Feed, Settled
<1>2. buffer' = Append(buffer, x) /\ headerSeen' = headerSeen
  <2>1. ~(Len(buffer) >= MaxFrame)
    BY <1>0, <1>1, Sizes
  <2>2. headerSeen \in BOOLEAN
    BY DEF ParserInv
  <2>3. QED
    BY <1>1, <2>1, <2>2, Zenon DEF Feed
<1>3. /\ buffer' \in Seq(Symbols) /\ Len(buffer') = Len(buffer) + 1
      /\ \A i \in 1..Len(buffer) : buffer'[i] = buffer[i]
  BY <1>0, <1>2
<1>4. HasHeader(buffer) => HasHeader(buffer')
  BY <1>0, <1>3, Sizes DEF HasHeader, StartsLikeHeader
<1>5. MostUrgentOf(choice', offered', early')
  BY DEF Feed, MostUrgentOf
<1>6. Len(buffer') <= MaxFrame
  BY <1>0, <1>1, <1>3, Sizes
<1>7. /\ headerSeen' \in BOOLEAN /\ early' \in BOOLEAN
      /\ (headerSeen' => HasHeader(buffer'))
      /\ offered' \in SUBSET PhysTracks /\ dropped' \in Seq(Symbols)
  BY <1>2, <1>4 DEF ParserInv, Feed
<1> QED
  BY <1>3, <1>5, <1>6, <1>7 DEF ParserInv

(* A frame that is accepted is a good one, and the better of its most      *)
(* urgent target and the call's is the most urgent of both.                *)
LEMMA ParserInvAccept ==
  ASSUME ParserInv, AcceptFrame
  PROVE  /\ ParserInv' /\ dropped' \in GoodFrames
<1> DEFINE tracks == TracksIn(Body(buffer))
           best == Choose(tracks, early)
           Q == OfferedBy(tracks, Len(tracks))
<1>0. /\ buffer \in Seq(Symbols) /\ early \in BOOLEAN
      /\ offered \in SUBSET PhysTracks
      /\ MostUrgentOf(choice, offered, early)
      /\ Accepted(buffer) /\ Drop(FrameLen(buffer)) /\ early' = early
  BY Zenon DEF ParserInv, AcceptFrame
<1>1. /\ FrameLen(buffer) \in Nat /\ FrameLen(buffer) <= Len(buffer)
      /\ tracks \in Seq(PhysTracks)
  BY <1>0, AcceptedBody
<1>2. 1 <= FrameLen(buffer)
  <2>1. HasLength(buffer) /\ ~BadLength(buffer)
    BY <1>0 DEF Accepted, Damaged
  <2>2. QED
    BY <1>0, <2>1, GoodLength, Sizes
<1>3. /\ buffer' \in Seq(Symbols) /\ Len(buffer') <= MaxFrame
      /\ dropped' \in Seq(Symbols) /\ headerSeen' = FALSE
  BY <1>0, <1>1, <1>2, ParserInvDrop
<1>4. dropped' \in GoodFrames
  BY <1>0, AcceptedIsGood, Zenon DEF Drop
<1>5. /\ choice' = IF best = <<>> THEN choice
                   ELSE Better(choice, best[1], early)
      /\ offered' = offered \cup Q
  BY Zenon DEF AcceptFrame, OfferedBy
<1>6. MostUrgentOf(best, Q, early)
  BY <1>0, <1>1, ChosenIsMostUrgent
<1>7. Q \in SUBSET PhysTracks
  <2>1. \A i \in 1..Len(tracks) : tracks[i] \in PhysTracks
    BY <1>1, ElementOfSeq
  <2>2. QED
    BY <2>1 DEF OfferedBy
<1> HIDE DEF tracks, best, Q
<1>8. MostUrgentOf(choice', offered', early')
  <2>1. CASE best = <<>> /\ Q = {}
    <3>1. choice' = choice /\ offered' = offered
      BY <1>5, <2>1
    <3>2. QED
      BY <1>0, <3>1
  <2>2. ASSUME NEW t \in Q, best = <<t>>, \A u \in Q : AsUrgent(t, u, early)
        PROVE  MostUrgentOf(choice', offered', early')
    <3>1. best # <<>> /\ best[1] = t
      BY <2>2
    <3>2. MostUrgentOf(Better(choice, t, early), offered \cup Q, early)
      BY <1>0, <1>7, <2>2, BetterOfBoth
    <3>3. QED
      BY <1>0, <1>5, <3>1, <3>2
  <2>3. QED
    BY <1>6, <2>1, <2>2 DEF MostUrgentOf
<1>9. offered' \in SUBSET PhysTracks
  BY <1>0, <1>5, <1>7
<1> QED
  BY <1>0, <1>3, <1>4, <1>8, <1>9, Zenon DEF ParserInv

(* Every step of the parser keeps the invariant. *)
LEMMA ParserInvNext == ParserInv /\ [Next]_vars => ParserInv'
<1> SUFFICES ASSUME ParserInv, [Next]_vars PROVE ParserInv'
  OBVIOUS
<1>1. ASSUME NEW x \in Symbols, Feed(x) PROVE ParserInv'
  BY <1>1, ParserInvFeed
<1>2. CASE SeeHeader
  <2>1. HasHeader(buffer)
    <3>1. NewHeader(buffer) = 1
      BY <1>2, Zenon DEF SeeHeader
    <3>2. QED
      BY <3>1 DEF NewHeader
  <2>2. /\ UNCHANGED <<buffer, early, choice, offered, dropped>>
        /\ headerSeen' = TRUE
    BY <1>2 DEF SeeHeader
  <2>3. QED
    BY <2>1, <2>2 DEF ParserInv, HasHeader, StartsLikeHeader, MostUrgentOf
<1>3. CASE Resync
  <2>1. buffer \in Seq(Symbols) /\ Rejected(buffer) /\ Drop(1)
    BY <1>3 DEF Resync, ParserInv
  <2>2. /\ buffer' \in Seq(Symbols) /\ Len(buffer') <= MaxFrame
        /\ dropped' \in Seq(Symbols) /\ headerSeen' = FALSE
    <3>1. 1 \in Nat /\ 1 <= 1 /\ 1 <= Len(buffer)
      BY <2>1, RejectedHasAByte
    <3>2. QED
      BY <2>1, <3>1, ParserInvDrop, Zenon
  <2>3. UNCHANGED <<early, choice, offered>>
    BY <1>3 DEF Resync
  <2>4. QED
    BY <2>2, <2>3 DEF ParserInv, MostUrgentOf
<1>4. CASE AcceptFrame
  BY <1>4, ParserInvAccept
<1>5. CASE ParserReset
  <2>1. /\ buffer' = <<>> /\ headerSeen' = FALSE /\ choice' = <<>>
        /\ offered' = {} /\ dropped' = <<>> /\ early' = early
    BY <1>5 DEF ParserReset
  <2>2. <<>> \in Seq(Symbols) /\ Len(<<>>) = 0
    OBVIOUS
  <2>3. MostUrgentOf(<<>>, {}, early)
    BY DEF MostUrgentOf
  <2>4. QED
    <3>1. /\ buffer' \in Seq(Symbols) /\ Len(buffer') <= MaxFrame
          /\ dropped' \in Seq(Symbols)
      BY <2>1, <2>2, Sizes
    <3>2. MostUrgentOf(choice', offered', early')
      BY <2>1, <2>3
    <3>3. offered' \in SUBSET PhysTracks /\ early' \in BOOLEAN
      BY <2>1 DEF ParserInv
    <3>4. QED
      BY <2>1, <3>1, <3>2, <3>3 DEF ParserInv
<1>6. CASE SetSensitivity
  <2>1. /\ early' = ~early /\ offered' = {t \in offered : choice = <<t>>}
        /\ UNCHANGED <<buffer, headerSeen, choice, dropped>>
    BY <1>6 DEF SetSensitivity
  <2>2. early' \in BOOLEAN /\ offered' \in SUBSET PhysTracks
    BY <2>1 DEF ParserInv
  <2>3. MostUrgentOf(choice', offered', early')
    <3>1. CASE choice = <<>> /\ offered = {}
      BY <2>1, <3>1 DEF MostUrgentOf
    <3>2. ASSUME NEW t \in offered, choice = <<t>>
          PROVE  MostUrgentOf(choice', offered', early')
      <4>1. offered' = {t} /\ choice' = <<t>>
        BY <2>1, <3>2
      <4>2. t \in Track
        BY DEF ParserInv, PhysTracks
      <4>3. AsUrgent(t, t, early')
        BY <2>2, <4>2, AsUrgentAsItself
      <4>4. QED
        BY <4>1, <4>3 DEF MostUrgentOf
    <3>3. QED
      BY <3>1, <3>2 DEF ParserInv, MostUrgentOf
  <2>4. headerSeen' => HasHeader(buffer')
    BY <2>1 DEF ParserInv, HasHeader, StartsLikeHeader
  <2>5. QED
    BY <2>1, <2>2, <2>3, <2>4 DEF ParserInv
<1>7. CASE UNCHANGED vars
  BY <1>7 DEF vars, ParserInv, HasHeader, StartsLikeHeader, MostUrgentOf
<1> QED
  BY <1>1, <1>2, <1>3, <1>4, <1>5, <1>6, <1>7, Zenon DEF Next

(* The invariant always holds. *)
LEMMA ParserInvariant == Spec => []ParserInv
<1>1. Init => ParserInv
  BY ParserInvInit
<1>2. ParserInv /\ [Next]_vars => ParserInv'
  BY ParserInvNext
<1> QED
  BY <1>1, <1>2, PTL DEF Spec

(* Every variable keeps its type, the buffer never fills up while it waits, *)
(* and a header is only remembered while it is in front of the buffer.      *)
THEOREM ParserTypes == Spec => []TypeOK
<1>1. ParserInv => TypeOK
  <2> SUFFICES ASSUME ParserInv PROVE TypeOK
    OBVIOUS
  <2>1. Settled => Len(buffer) < MaxFrame
    BY WaitingHasRoom DEF ParserInv, Settled
  <2>2. choice \in {<<>>} \cup {<<t>> : t \in offered}
    BY DEF ParserInv, MostUrgentOf
  <2>3. offered \subseteq Track
    BY DEF ParserInv, PhysTracks
  <2>4. QED
    BY <2>1, <2>2, <2>3 DEF ParserInv, TypeOK
<1> QED
  BY <1>1, ParserInvariant, PTL

(* Only a good frame refreshes the link or reaches the policy. *)
THEOREM AcceptedFramesAreGood == Spec => []OnlyGoodFrames
<1>1. ParserInv => OnlyGoodFrames
  BY AcceptedIsGood DEF ParserInv, OnlyGoodFrames
<1> QED
  BY <1>1, ParserInvariant, PTL

(* The target handed to the policy is a most urgent one of all that the     *)
(* call delivered, in whatever order and in however many frames they came.  *)
THEOREM ChoiceIsMostUrgent == Spec => []MostUrgentChosen
<1>1. ParserInv => MostUrgentChosen
  <2> SUFFICES ASSUME ParserInv PROVE MostUrgentChosen
    OBVIOUS
  <2>1. CASE choice = <<>> /\ offered = {}
    BY <2>1 DEF MostUrgentChosen
  <2>2. ASSUME NEW t \in offered, choice = <<t>>,
               \A u \in offered : AsUrgent(t, u, early)
        PROVE  MostUrgentChosen
    <3>1. choice # <<>> /\ choice[1] = t
      BY <2>2
    <3>2. QED
      BY <2>2, <3>1, Zenon DEF MostUrgentChosen, AsUrgent
  <2>3. QED
    BY <2>1, <2>2 DEF ParserInv, MostUrgentOf
<1> QED
  BY <1>1, ParserInvariant, PTL

(* Whatever is damaged before it, no byte that may still begin a good frame *)
(* is given up while the UART stays open.                                   *)
THEOREM GoodFramesArrive == Spec => NoFrameLost
<1> DEFINE Kept == Len(buffer') < Len(buffer) /\ ~ParserReset =>
       \/ dropped' \in GoodFrames
       \/ /\ Len(dropped') = 1
          /\ \A f \in GoodFrames : ~IsPrefix(buffer, f) /\ ~IsPrefix(f, buffer)
<1>1. ParserInv /\ [Next]_vars => [Kept]_vars
  <2> SUFFICES ASSUME ParserInv, Next, Len(buffer') < Len(buffer), ~ParserReset
               PROVE  Kept
    OBVIOUS
  <2>0. Len(buffer) \in Nat /\ buffer \in Seq(Symbols)
    BY LenProperties DEF ParserInv
  <2>1. ASSUME NEW x \in Symbols, Feed(x) PROVE FALSE
    <3>1. Len(buffer') = Len(buffer) + 1
      BY <2>1, ParserInvFeed
    <3>2. QED
      BY <2>0, <3>1
  <2>2. CASE SeeHeader \/ SetSensitivity
    BY <2>0, <2>2 DEF SeeHeader, SetSensitivity
  <2>3. CASE Resync
    <3>1. Rejected(buffer) /\ Drop(1) /\ 1 <= Len(buffer)
      BY <2>0, <2>3, RejectedHasAByte DEF Resync
    <3>2. Len(dropped') = 1
      <4>1. 1 \in Nat /\ 1 <= 1
        OBVIOUS
      <4>2. QED
        BY <3>1, <4>1, ParserInvDrop, Zenon
    <3>3. \A f \in GoodFrames : ~IsPrefix(buffer, f) /\ ~IsPrefix(f, buffer)
      BY <2>0, <3>1, BeginningIsKept
    <3>4. QED
      BY <3>2, <3>3
  <2>4. CASE AcceptFrame
    BY <2>4, ParserInvAccept
  <2>5. QED
    BY <2>1, <2>2, <2>3, <2>4, Zenon DEF Next
<1> QED
  BY <1>1, ParserInvariant, PTL DEF Spec, NoFrameLost
=============================================================================
