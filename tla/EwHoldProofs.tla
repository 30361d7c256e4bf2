---------------------------- MODULE EwHoldProofs ----------------------------
(* Proofs about EwHold, for every clock range and every value of the limits *)
(* that HoldAssumption allows.                                              *)
EXTENDS EwHold, TLAPS

-----------------------------------------------------------------------------
(* The wrapping clock. *)

(* An age is a value of the clock. *)
LEMMA AgeInClock ==
  ASSUME NEW t \in Clock, NEW u \in Clock
  PROVE  Age(t, u) \in Clock
BY HoldAssumption DEF Age, Clock

(* What has just happened is of age 0. *)
LEMMA AgeOfNow == ASSUME NEW t \in Clock PROVE Age(t, t) = 0
BY HoldAssumption DEF Age, Clock

(* Time stays in the clock's range. *)
LEMMA LaterInClock ==
  ASSUME NEW t \in Clock, NEW dt \in 1..MaxGap
  PROVE  Later(t, dt) \in Clock
BY HoldAssumption DEF Later, Clock

(* Waiting adds to an age that does not reach the clock's range. *)
LEMMA LaterAge ==
  ASSUME NEW t \in Clock, NEW u \in Clock, NEW dt \in 1..MaxGap,
         Age(t, u) + dt < ClockMod
  PROVE  Age(Later(t, dt), u) = Age(t, u) + dt
BY HoldAssumption DEF Later, Age, Clock

(* A true age grows with the waiting until it saturates above ClearMs. *)
LEMMA OlderIsAge ==
  ASSUME NEW a \in Ages, NEW dt \in 1..MaxGap
  PROVE  /\ Older(a, dt) \in Ages
         /\ a < ClearMs => Older(a, dt) = a + dt
BY HoldAssumption DEF Older, Ages

-----------------------------------------------------------------------------
(* What each phase of ew_hold_update changes. *)

(* Noting bytes and frames leaves the latch alone. *)
LEMMA NoteFacts ==
  ASSUME NEW h \in Hold, NEW t \in Clock, NEW b \in BOOLEAN, NEW f \in BOOLEAN
  PROVE  LET n == Note(h, t, b, f) IN
         /\ n \in Hold
         /\ n.latched = h.latched /\ n.latchedDec = h.latchedDec
         /\ n.lastAlert = h.lastAlert /\ n.latestDec = h.latestDec
         /\ n.haveObs = h.haveObs
         /\ f => n.lastFrame = t
         /\ ~f => n.lastFrame = h.lastFrame
<1> DEFINE gap == f /\ h.everFrame /\ Age(t, h.lastFrame) > StaleMs
           lb == IF b \/ f THEN t ELSE h.lastByte
           eb == h.everByte \/ b \/ f
           lf == IF f THEN t ELSE h.lastFrame
           ef == h.everFrame \/ f
           pd == IF gap THEN None ELSE h.pending
           ht == IF gap THEN 0 ELSE h.hits
<1>1. /\ lb \in Clock /\ lf \in Clock
      /\ pd \in Levels /\ ht \in 0..MaxHits
  BY HoldAssumption DEF Hold, Levels, None
<1>2. eb \in BOOLEAN /\ ef \in BOOLEAN
  OBVIOUS
<1>3. Note(h, t, b, f) =
        [h EXCEPT !.lastByte = lb, !.everByte = eb, !.lastFrame = lf,
                  !.everFrame = ef, !.pending = pd, !.hits = ht]
  BY Zenon DEF Note, Hold
<1> HIDE DEF gap, lb, eb, lf, ef, pd, ht
<1>4. QED
  BY <1>1, <1>2, <1>3 DEF Hold, lf

(* So does classifying the link. *)
LEMMA RelinkFacts ==
  ASSUME NEW h \in Hold, NEW t \in Clock
  PROVE  LET n == Relink(h, t) IN
         /\ n \in Hold
         /\ n.latched = h.latched /\ n.latchedDec = h.latchedDec
         /\ n.lastAlert = h.lastAlert /\ n.latestDec = h.latestDec
         /\ n.haveObs = h.haveObs /\ n.lastFrame = h.lastFrame
         /\ n.pending = h.pending /\ n.hits = h.hits
<1>1. LinkOf(h, t) \in Links
  BY DEF LinkOf, Links
<1>2. QED
  BY <1>1 DEF Relink, Hold

(* Latching makes a decision the owner of level, measurement and time. *)
LEMMA LatchFacts ==
  ASSUME NEW h \in Hold, NEW d \in Decision, NEW t \in Clock
  PROVE  LET n == Latch(h, d, t) IN
         /\ n \in Hold
         /\ n.latched = d.level /\ n.latchedDec = d /\ n.lastAlert = t
         /\ n.latestDec = h.latestDec /\ n.haveObs = h.haveObs
         /\ n.lastFrame = h.lastFrame /\ n.everFrame = h.everFrame
         /\ n.pending = h.pending /\ n.hits = h.hits
BY DEF Latch, Hold, Decision

(* Counting a confirmation leaves the latch alone. *)
LEMMA CountFacts ==
  ASSUME NEW h \in Hold, NEW l \in Threats
  PROVE  LET n == Count(h, l) IN
         /\ n \in Hold
         /\ n.latched = h.latched /\ n.latchedDec = h.latchedDec
         /\ n.lastAlert = h.lastAlert /\ n.latestDec = h.latestDec
         /\ n.haveObs = h.haveObs /\ n.lastFrame = h.lastFrame
         /\ n.everFrame = h.everFrame /\ n.pending = l
<1> DEFINE k == CASE l # h.pending -> 1
                  [] l = h.pending /\ h.hits < MaxHits -> h.hits + 1
                  [] OTHER -> h.hits
<1>1. k \in 0..MaxHits
  BY HoldAssumption DEF Hold
<1>2. Count(h, l) = [h EXCEPT !.pending = l, !.hits = k]
  BY DEF Count, Hold
<1>3. l \in Levels
  BY DEF Threats, Levels
<1> HIDE DEF k
<1>4. QED
  BY <1>1, <1>2, <1>3 DEF Hold

(* Decisions of a frame, and the placeholders, which have no level. *)
LEMMA DecisionFacts ==
  /\ \A l \in Levels : Instant(l) \in Decision /\ Instant(l).level = l
  /\ \A w \in Reasons : EmptyDecision(w) \in Decision
                        /\ EmptyDecision(w).level = None
BY DEF Instant, EmptyDecision, Decision, Levels, Reasons, None

SameLatch(n, h) ==
  /\ n.latched = h.latched
  /\ n.latchedDec = h.latchedDec
  /\ n.lastAlert = h.lastAlert

Latched(n, d, at) ==
  /\ n.latched = d.level
  /\ n.latchedDec = d
  /\ n.lastAlert = at

(* A frame leaves a stronger latch alone, or owns the latch; it takes over  *)
(* from a stronger one only when the hold is over.                          *)
LEMMA ObserveFacts ==
  ASSUME NEW h \in Hold, NEW t \in Clock, NEW l \in Levels
  PROVE  LET n == Observe(h, t, Instant(l)) IN
         /\ n \in Hold
         /\ n.latestDec = Instant(l)
         /\ n.lastFrame = h.lastFrame
         /\ n.everFrame = h.everFrame
         /\ \/ SameLatch(n, h) /\ (h.latched # None => l < h.latched)
            \/ /\ l # None
               /\ Latched(n, Instant(l), t)
               /\ h.latched # None /\ l < h.latched => HoldOver(h, t)
<1> DEFINE d == Instant(l)
           g == [h EXCEPT !.latestDec = d, !.haveObs = TRUE]
           c == Count(g, l)
           n == Observe(h, t, d)
<1>d. d \in Decision /\ d.level = l
  BY DecisionFacts
<1>g. /\ g \in Hold /\ SameLatch(g, h) /\ g.latestDec = d
      /\ g.lastFrame = h.lastFrame /\ g.everFrame = h.everFrame
  BY <1>d DEF Hold, SameLatch
<1>n. n = CASE l = None -> [g EXCEPT !.pending = None, !.hits = 0]
            [] l # None /\ Supports(g, l) ->
                 [Latch(g, d, t) EXCEPT !.pending = l, !.hits = ConfirmFrames]
            [] l # None /\ ~Supports(g, l) ->
                 IF Confirmed(c) /\ (c.latched = None \/ HoldOver(c, t))
                   THEN Latch(c, d, t)
                   ELSE c
  BY <1>d DEF Observe
<1>l. h.latched \in Nat /\ l \in Nat
  BY DEF Hold, Levels
<1> HIDE DEF d, g, n, c
<1>1. CASE l = None
  <2>1. n = [g EXCEPT !.pending = None, !.hits = 0]
    BY <1>1, <1>n
  <2>2. n \in Hold /\ SameLatch(n, h) /\ n.latestDec = d
        /\ n.lastFrame = h.lastFrame /\ n.everFrame = h.everFrame
    <3>1. None \in Levels /\ 0 \in 0..MaxHits
      BY HoldAssumption DEF None, Levels
    <3>2. QED
      BY <2>1, <1>g, <3>1 DEF Hold, SameLatch
  <2>3. h.latched # None => l < h.latched
    BY <1>1, <1>l DEF None
  <2>4. QED
    BY <2>2, <2>3 DEF n, d
<1>2. CASE l # None /\ Supports(g, l)
  <2>1. n = [Latch(g, d, t) EXCEPT !.pending = l, !.hits = ConfirmFrames]
    BY <1>2, <1>n
  <2>2. n \in Hold /\ Latched(n, d, t) /\ n.latestDec = d
        /\ n.lastFrame = h.lastFrame /\ n.everFrame = h.everFrame
    <3>1. ConfirmFrames \in 0..MaxHits
      BY HoldAssumption
    <3>2. /\ Latch(g, d, t) \in Hold /\ Latched(Latch(g, d, t), d, t)
          /\ Latch(g, d, t).latestDec = d
          /\ Latch(g, d, t).lastFrame = h.lastFrame
          /\ Latch(g, d, t).everFrame = h.everFrame
      BY <1>g, <1>d, LatchFacts DEF Latched
    <3>3. QED
      BY <2>1, <3>1, <3>2 DEF Hold, Latched
  <2>3. ~(h.latched # None /\ l < h.latched)
    BY <1>2, <1>g, <1>l DEF Supports, SameLatch
  <2>4. QED
    BY <1>2, <2>2, <2>3 DEF n, d
<1>3. CASE l # None /\ ~Supports(g, l)
  <2>1. l \in Threats
    BY <1>3 DEF Levels, Threats, None
  <2>2. /\ c \in Hold /\ SameLatch(c, h) /\ c.latestDec = d
        /\ c.lastFrame = h.lastFrame /\ c.everFrame = h.everFrame
    BY <2>1, <1>g, CountFacts DEF c, SameLatch
  <2>3. h.latched # None => l < h.latched
    BY <1>3, <1>g, <1>l DEF Supports, SameLatch
  <2>4. CASE Confirmed(c) /\ (c.latched = None \/ HoldOver(c, t))
    <3>1. n = Latch(c, d, t)
      BY <1>3, <1>n, <2>4
    <3>2. n \in Hold /\ Latched(n, d, t) /\ n.latestDec = d
          /\ n.lastFrame = h.lastFrame /\ n.everFrame = h.everFrame
      BY <3>1, <2>2, <1>d, LatchFacts DEF Latched
    <3>3. h.latched # None => HoldOver(h, t)
      BY <2>2, <2>4 DEF SameLatch, HoldOver
    <3>4. QED
      BY <1>3, <3>2, <3>3 DEF n, d
  <2>5. CASE ~(Confirmed(c) /\ (c.latched = None \/ HoldOver(c, t)))
    <3>1. n = c
      BY <1>3, <1>n, <2>5
    <3>2. QED
      BY <3>1, <2>2, <2>3 DEF n, d
  <2>6. QED
    BY <2>4, <2>5
<1>4. QED
  BY <1>1, <1>2, <1>3

(* A latch steps down only when it is over, to the last frame's decision. *)
LEMMA StepDownFacts ==
  ASSUME NEW h \in Hold, NEW t \in Clock
  PROVE  LET n == StepDown(h, t) IN
         /\ n \in Hold
         /\ n.latestDec = h.latestDec
         /\ n.lastFrame = h.lastFrame
         /\ n.everFrame = h.everFrame
         /\ \/ SameLatch(n, h)
            \/ /\ h.latched # None /\ HoldOver(h, t)
               /\ h.latestDec.level # None
               /\ h.latestDec.level < h.latched
               /\ Age(t, h.lastFrame) < ClearMs
               /\ Latched(n, h.latestDec, h.lastFrame)
<1>1. CASE MayStepDown(h, t)
  <2>1. StepDown(h, t) = Latch(h, h.latestDec, h.lastFrame)
    BY <1>1 DEF StepDown
  <2>2. h.latestDec \in Decision /\ h.lastFrame \in Clock
    BY DEF Hold
  <2>3. QED
    BY <1>1, <2>1, <2>2, LatchFacts DEF MayStepDown, Latched
<1>2. CASE ~MayStepDown(h, t)
  BY <1>2 DEF StepDown, SameLatch
<1>3. QED
  BY <1>1, <1>2

(* A latch expires when it is over, and is then empty. *)
LEMMA ExpireFacts ==
  ASSUME NEW h \in Hold, NEW t \in Clock
  PROVE  LET n == Expire(h, t) IN
         /\ n \in Hold
         /\ n.latestDec = h.latestDec
         /\ n.lastFrame = h.lastFrame
         /\ n.everFrame = h.everFrame
         /\ \/ SameLatch(n, h) /\ (h.latched # None => ~HoldOver(h, t))
            \/ h.latched # None /\ HoldOver(h, t) /\ n.latched = None
<1>1. CASE Expires(h, t)
  <2>1. Expire(h, t) = [h EXCEPT !.latched = None,
                          !.latchedDec = EmptyDecision("alert_timeout"),
                          !.pending = None, !.hits = 0]
    BY <1>1 DEF Expire
  <2>2. EmptyDecision("alert_timeout") \in Decision
    BY DecisionFacts DEF Reasons
  <2>3. None \in Levels /\ 0 \in 0..MaxHits
    BY HoldAssumption DEF None, Levels
  <2>4. QED
    BY <1>1, <2>1, <2>2, <2>3 DEF Expires, Hold
<1>2. CASE ~Expires(h, t)
  BY <1>2 DEF Expire, Expires, SameLatch
<1>3. QED
  BY <1>1, <1>2

(* A frame: what the whole of ew_hold_update does to the latch. *)
LEMMA FrameFacts ==
  ASSUME NEW h \in Hold, NEW t \in Clock, NEW l \in Levels
  PROVE  LET n == FrameUpdate(h, t, Instant(l)) IN
         /\ n \in Hold
         /\ n.latestDec = Instant(l)
         /\ n.lastFrame = t
         /\ \/ SameLatch(n, h) /\ (h.latched # None => l < h.latched)
            \/ /\ l # None
               /\ Latched(n, Instant(l), t)
               /\ h.latched # None /\ l < h.latched => HoldOver(h, t)
            \/ h.latched # None /\ HoldOver(h, t) /\ n.latched = None
<1> DEFINE a == Note(h, t, TRUE, TRUE)
           b == Relink(a, t)
           o == Observe(b, t, Instant(l))
           n == FrameUpdate(h, t, Instant(l))
<1>1. a \in Hold /\ SameLatch(a, h) /\ a.lastFrame = t
  BY NoteFacts DEF SameLatch
<1>2. b \in Hold /\ SameLatch(b, h) /\ b.lastFrame = t
  BY <1>1, RelinkFacts DEF SameLatch
<1>3. HoldOver(b, t) <=> HoldOver(h, t)
  BY <1>2 DEF HoldOver, SameLatch
<1>4. Instant(l).level = l
  BY DecisionFacts
<1>5. n = IF l = None THEN Expire(o, t) ELSE o
  BY <1>4 DEF FrameUpdate
<1> HIDE DEF a, b, n
<1>6. /\ o \in Hold /\ o.latestDec = Instant(l) /\ o.lastFrame = t
      /\ \/ SameLatch(o, h) /\ (h.latched # None => l < h.latched)
         \/ /\ l # None
            /\ Latched(o, Instant(l), t)
            /\ h.latched # None /\ l < h.latched => HoldOver(h, t)
  BY <1>2, <1>3, ObserveFacts DEF SameLatch
<1> HIDE DEF o
<1>7. CASE l = None
  <2>1. n = Expire(o, t) /\ SameLatch(o, h)
        /\ (h.latched # None => l < h.latched)
    BY <1>5, <1>6, <1>7
  <2>2. HoldOver(o, t) <=> HoldOver(h, t)
    BY <2>1 DEF HoldOver, SameLatch
  <2>3. QED
    BY <1>6, <2>1, <2>2, ExpireFacts DEF n, SameLatch
<1>8. CASE l # None
  BY <1>5, <1>6, <1>8 DEF n
<1>9. QED
  BY <1>7, <1>8

(* A poll leaves a latch that is still held alone, hands an old one to the  *)
(* weaker level of the last frame, or releases it.                          *)
LEMMA PollFacts ==
  ASSUME NEW h \in Hold, NEW t \in Clock, NEW b \in BOOLEAN
  PROVE  LET n == PollUpdate(h, t, b) IN
         /\ n \in Hold
         /\ n.latestDec = h.latestDec
         /\ n.lastFrame = h.lastFrame
         /\ \/ SameLatch(n, h) /\ (h.latched # None => ~HoldOver(h, t))
            \/ /\ h.latched # None /\ HoldOver(h, t)
               /\ h.latestDec.level # None
               /\ h.latestDec.level < h.latched
               /\ Age(t, h.lastFrame) < ClearMs
               /\ Latched(n, h.latestDec, h.lastFrame)
            \/ h.latched # None /\ HoldOver(h, t) /\ n.latched = None
<1> DEFINE a == Note(h, t, b, FALSE)
           c == Relink(a, t)
           e == StepDown(c, t)
           n == PollUpdate(h, t, b)
<1>1. /\ a \in Hold /\ SameLatch(a, h) /\ a.lastFrame = h.lastFrame
      /\ a.latestDec = h.latestDec
  BY NoteFacts DEF SameLatch
<1>2. /\ c \in Hold /\ SameLatch(c, h) /\ c.lastFrame = h.lastFrame
      /\ c.latestDec = h.latestDec
  BY <1>1, RelinkFacts DEF SameLatch
<1>3. n = Expire(e, t)
  BY DEF PollUpdate
<1> HIDE DEF a, c, n
<1>4. /\ e \in Hold /\ e.latestDec = h.latestDec
      /\ e.lastFrame = h.lastFrame
      /\ \/ SameLatch(e, h)
         \/ /\ h.latched # None /\ HoldOver(h, t)
            /\ h.latestDec.level # None
            /\ h.latestDec.level < h.latched
            /\ Age(t, h.lastFrame) < ClearMs
            /\ Latched(e, h.latestDec, h.lastFrame)
  BY <1>2, StepDownFacts DEF SameLatch, HoldOver
<1> HIDE DEF e
<1>5. /\ n \in Hold /\ n.latestDec = h.latestDec
      /\ n.lastFrame = h.lastFrame
      /\ \/ SameLatch(n, e) /\ (e.latched # None => ~HoldOver(e, t))
         \/ e.latched # None /\ HoldOver(e, t) /\ n.latched = None
  BY <1>3, <1>4, ExpireFacts
<1>6. CASE SameLatch(e, h)
  BY <1>5, <1>6 DEF n, SameLatch, HoldOver
<1>7. CASE ~SameLatch(e, h)
  <2>1. /\ h.latched # None /\ HoldOver(h, t)
        /\ h.latestDec.level # None
        /\ h.latestDec.level < h.latched
        /\ Age(t, h.lastFrame) < ClearMs
        /\ Latched(e, h.latestDec, h.lastFrame)
    BY <1>4, <1>7
  <2>2. SameLatch(n, e) => Latched(n, h.latestDec, h.lastFrame)
    BY <2>1 DEF SameLatch, Latched
  <2>3. QED
    BY <1>5, <2>1, <2>2 DEF n
<1>8. QED
  BY <1>6, <1>7

(* What is reported is the latched decision while there is one. *)
LEMMA ReportFacts ==
  ASSUME NEW h \in Hold
  PROVE  /\ Report(h) \in Decision
         /\ h.latched # None /\ h.latchedDec = Instant(h.latched)
              => Report(h) = h.latchedDec
<1> DEFINE shown0 ==
        CASE h.latched # None -> h.latchedDec
          [] h.latched = None /\ h.haveObs /\ h.latestDec.level = None ->
               h.latestDec
          [] h.latched = None /\ h.haveObs /\ h.latestDec.level # None ->
               EmptyDecision(IF h.hits # 0 THEN "confirming"
                             ELSE "alert_timeout")
          [] OTHER -> EmptyDecision("idle")
<1>1. \A w \in {"confirming", "alert_timeout", "idle", "no_frame", "no_uart"} :
        EmptyDecision(w) \in Decision
  BY DecisionFacts DEF Reasons
<1>2. shown0 \in Decision
  <2>1. h.latchedDec \in Decision /\ h.latestDec \in Decision
    BY DEF Hold
  <2>2. QED
    BY <1>1, <2>1
<1>3. Report(h) = IF h.latched = None /\ h.link # "ok"
        THEN EmptyDecision(IF h.link = "noise" THEN "no_frame" ELSE "no_uart")
        ELSE [shown0 EXCEPT !.level = h.latched]
  BY DEF Report
<1>4. h.latched # None => shown0 = h.latchedDec
  OBVIOUS
<1> HIDE DEF shown0
<1>5. h.latched \in Levels
  BY DEF Hold
<1>6. [shown0 EXCEPT !.level = h.latched] \in Decision
  BY <1>2, <1>5 DEF Decision
<1>7. Report(h) \in Decision
  BY <1>1, <1>3, <1>6
<1>8. ASSUME h.latched # None, h.latchedDec = Instant(h.latched)
      PROVE  Report(h) = h.latchedDec
  <2>1. Report(h) = [h.latchedDec EXCEPT !.level = h.latched]
    BY <1>3, <1>4, <1>8
  <2>2. h.latchedDec \in Decision /\ h.latchedDec.level = h.latched
    BY <1>5, <1>8, DecisionFacts
  <2>3. QED
    BY <2>1, <2>2 DEF Decision
<1>9. QED
  BY <1>7, <1>8

-----------------------------------------------------------------------------
(* The reset latch is well typed. *)
LEMMA InitTypes == Init => TypeOK
<1> SUFFICES ASSUME Init PROVE TypeOK
  OBVIOUS
<1>1. EmptyDecision("idle") \in Decision /\ EmptyDecision("no_uart") \in Decision
  BY DecisionFacts DEF Reasons
<1>2. hold \in Hold
  BY <1>1, HoldAssumption DEF Init, HoldReset, Hold, Levels, None, Clock, Links
<1>3. sinceLevel \in [Threats -> Ages] /\ sinceFrame \in Ages /\ sinceByte \in Ages
  BY HoldAssumption DEF Init, Ages
<1>4. streak \in [level: Levels, count: 0..MaxHits]
  <2>1. None \in Levels /\ 0 \in 0..MaxHits
    BY HoldAssumption DEF None, Levels
  <2>2. QED
    BY <2>1 DEF Init
<1>5. QED
  BY <1>1, <1>2, <1>3, <1>4 DEF Init, TypeOK

(* Every reachable state is well typed. *)
THEOREM TypeCorrect == Spec => []TypeOK
<1>1. Init => TypeOK
  BY InitTypes
<1>2. TypeOK /\ [Next]_vars => TypeOK'
  <2> SUFFICES ASSUME TypeOK, [Next]_vars
               PROVE  TypeOK'
    OBVIOUS
  <2>wake. ASSUME NEW dt \in 1..MaxGap, Wake(dt)
           PROVE  TypeOK'
    <3>1. Later(now, dt) \in Clock
      BY LaterInClock DEF TypeOK
    <3>2. \A a \in Ages : Older(a, dt) \in Ages
      BY OlderIsAge
    <3>3. QED
      BY <2>wake, <3>1, <3>2 DEF Wake, TypeOK
  <2>noise. CASE ReadNoise
    BY <2>noise, HoldAssumption DEF ReadNoise, TypeOK, Ages
  <2>frame. ASSUME NEW l \in Levels, ReadFrame(l)
            PROVE  TypeOK'
    <3>1. hold' \in Hold
      BY <2>frame, FrameFacts DEF ReadFrame, TypeOK
    <3>2. shown' \in Decision
      BY <2>frame, <3>1, ReportFacts DEF ReadFrame
    <3>3. 0 \in Ages
      BY HoldAssumption DEF Ages
    <3>4. streak' \in [level: Levels, count: 0..MaxHits]
      <4>1. CASE streak.level = l /\ sinceFrame <= StaleMs
        <5>1. (IF streak.count < MaxHits THEN streak.count + 1
               ELSE streak.count) \in 0..MaxHits
          BY HoldAssumption DEF TypeOK
        <5>2. streak' = [streak EXCEPT !.count =
                 IF streak.count < MaxHits THEN streak.count + 1
                 ELSE streak.count]
          BY <2>frame, <4>1 DEF ReadFrame, Extend, TypeOK
        <5>3. QED
          BY <5>1, <5>2 DEF TypeOK
      <4>2. CASE ~(streak.level = l /\ sinceFrame <= StaleMs)
        <5>1. 1 \in 0..MaxHits
          BY HoldAssumption
        <5>2. QED
          BY <2>frame, <4>2, <5>1 DEF ReadFrame, Extend
      <4>3. QED
        BY <4>1, <4>2
    <3>5. QED
      BY <2>frame, <3>1, <3>2, <3>3, <3>4 DEF ReadFrame, TypeOK
  <2>poll. CASE Poll
    <3>1. hold' \in Hold
      BY <2>poll, PollFacts DEF Poll, TypeOK
    <3>2. shown' \in Decision
      BY <2>poll, <3>1, ReportFacts DEF Poll
    <3>3. streak' \in [level: Levels, count: 0..MaxHits]
      BY <2>poll, HoldAssumption DEF Poll, TypeOK, Levels, None
    <3>4. QED
      BY <2>poll, <3>1, <3>2, <3>3 DEF Poll, TypeOK
  <2>idle. CASE UNCHANGED vars
    BY <2>idle DEF vars, history, TypeOK
  <2> QED
    BY <2>wake, <2>noise, <2>frame, <2>poll, <2>idle DEF Next
<1>3. QED
  BY <1>1, <1>2, PTL DEF Spec

-----------------------------------------------------------------------------
(* The inductive invariant: while a level is latched, both clock ages are   *)
(* true ages, too short to wrap; the last frame is not older than the       *)
(* latch; and the decision kept with the latch, the last decision and what  *)
(* is shown agree with the levels.                                          *)
LatchIsFresh ==
  hold.latched # None =>
    /\ Age(now, hold.lastAlert) = sinceLevel[hold.latched]
    /\ Age(now, hold.lastFrame) = sinceFrame
    /\ sinceFrame <= sinceLevel[hold.latched]
    /\ sinceLevel[hold.latched] < ClearMs + MaxGap
    /\ phase = "sleep" => sinceLevel[hold.latched] < ClearMs

LatestIsLastFrame ==
  hold.latestDec.level # None =>
    /\ hold.latestDec = Instant(hold.latestDec.level)
    /\ sinceLevel[hold.latestDec.level] = sinceFrame

IInv ==
  /\ TypeOK
  /\ LatchIsFresh
  /\ LatestIsLastFrame
  /\ EscalatesAtOnce
  /\ AlarmOwnsItsMeasurement

(* For a fresh latch the code's test of its age is the true one. *)
LEMMA FreshLatch ==
  ASSUME TypeOK, LatchIsFresh, hold.latched # None
  PROVE  /\ hold.latched \in Threats
         /\ HoldOver(hold, now) <=> sinceLevel[hold.latched] >= ClearMs
  BY DEF TypeOK, LatchIsFresh, Hold, Levels, Threats, None, HoldOver

(* IInv is inductive: every phase of ew_hold_update, and waiting, keeps it. *)
THEOREM InvariantHolds == Spec => []IInv
<1>1. Init => IInv
  <2> SUFFICES ASSUME Init PROVE IInv
    OBVIOUS
  <2>1. TypeOK
    BY InitTypes
  <2>2. hold.latched = None /\ hold.latestDec.level = None
    BY DEF Init, HoldReset, EmptyDecision
  <2>3. QED
    BY <2>1, <2>2 DEF IInv, LatchIsFresh, LatestIsLastFrame, EscalatesAtOnce,
                      AlarmOwnsItsMeasurement
<1>2. IInv /\ TypeOK' /\ [Next]_vars => IInv'
  <2> SUFFICES ASSUME IInv, TypeOK', [Next]_vars
               PROVE  IInv'
    OBVIOUS
  <2>a. TypeOK /\ LatchIsFresh /\ LatestIsLastFrame /\ EscalatesAtOnce
        /\ AlarmOwnsItsMeasurement
    BY DEF IInv
  <2>t. /\ now \in Clock /\ hold \in Hold /\ hadBytes \in BOOLEAN
        /\ hold.latched \in Levels /\ hold.latestDec \in Decision
        /\ hold.latestDec.level \in Levels
        /\ sinceLevel \in [Threats -> Ages] /\ sinceFrame \in Ages
    BY <2>a DEF TypeOK, Hold, Decision
  <2>wake. ASSUME NEW dt \in 1..MaxGap, Wake(dt)
           PROVE  IInv'
    <3>1. LatchIsFresh'
      <4> SUFFICES ASSUME hold.latched # None
                   PROVE  LatchIsFresh'
        BY <2>wake DEF Wake, LatchIsFresh
      <4>1. hold.latched \in Threats
        BY <2>a, FreshLatch
      <4> DEFINE age == sinceLevel[hold.latched]
      <4>2. /\ age \in Ages /\ age < ClearMs
            /\ Age(now, hold.lastAlert) = age
            /\ Age(now, hold.lastFrame) = sinceFrame
            /\ sinceFrame <= age
        BY <2>wake, <2>a, <2>t, <4>1 DEF Wake, LatchIsFresh
      <4>3. sinceFrame < ClearMs
        BY <2>t, <4>2, HoldAssumption DEF Ages
      <4>4. /\ sinceLevel'[hold.latched] = age + dt
            /\ sinceFrame' = sinceFrame + dt
        BY <2>wake, <2>t, <4>1, <4>2, <4>3, OlderIsAge DEF Wake
      <4>5. hold.lastAlert \in Clock /\ hold.lastFrame \in Clock
        BY <2>t DEF Hold
      <4>6. age + dt < ClearMs + MaxGap /\ age + dt < ClockMod
            /\ sinceFrame + dt < ClockMod /\ sinceFrame + dt <= age + dt
        BY <2>t, <4>2, <4>3, HoldAssumption DEF Ages
      <4>7. /\ Age(now', hold.lastAlert) = age + dt
            /\ Age(now', hold.lastFrame) = sinceFrame + dt
        BY <2>wake, <2>t, <4>2, <4>5, <4>6, LaterAge DEF Wake
      <4>8. hold' = hold /\ phase' = "read"
        BY <2>wake DEF Wake
      <4> HIDE DEF age
      <4>9. QED
        BY <4>4, <4>6, <4>7, <4>8 DEF LatchIsFresh
    <3>2. LatestIsLastFrame'
      <4> SUFFICES ASSUME hold.latestDec.level # None
                   PROVE  LatestIsLastFrame'
        BY <2>wake DEF Wake, LatestIsLastFrame
      <4>1. hold.latestDec.level \in Threats
        BY <2>t DEF Levels, Threats, None
      <4>2. QED
        BY <2>wake, <2>a, <4>1 DEF Wake, LatestIsLastFrame
    <3>3. EscalatesAtOnce' /\ AlarmOwnsItsMeasurement'
      BY <2>wake, <2>a DEF Wake, EscalatesAtOnce, AlarmOwnsItsMeasurement
    <3>4. QED
      BY <3>1, <3>2, <3>3 DEF IInv
  <2>noise. CASE ReadNoise
    BY <2>noise, <2>a DEF ReadNoise, IInv, LatchIsFresh, LatestIsLastFrame,
                      EscalatesAtOnce, AlarmOwnsItsMeasurement
  <2>frame. ASSUME NEW l \in Levels, ReadFrame(l)
            PROVE  IInv'
    <3>1. /\ hold' \in Hold /\ hold'.latestDec = Instant(l)
          /\ hold'.lastFrame = now
          /\ \/ SameLatch(hold', hold) /\ (hold.latched # None => l < hold.latched)
             \/ l # None /\ Latched(hold', Instant(l), now)
             \/ hold'.latched = None
      BY <2>frame, <2>t, FrameFacts DEF ReadFrame
    <3>2. /\ sinceFrame' = 0 /\ now' = now /\ phase' = "read"
          /\ \A k \in Threats : sinceLevel'[k] = IF k <= l THEN 0 ELSE sinceLevel[k]
          /\ phase = "read"
      BY <2>frame DEF ReadFrame
    <3>3. Instant(l) \in Decision /\ Instant(l).level = l
      BY DecisionFacts
    <3>4. Age(now, now) = 0
      BY <2>t, AgeOfNow
    <3>5. LatestIsLastFrame'
      <4>1. l # None => l \in Threats /\ l <= l
        BY DEF Levels, Threats, None
      <4>2. QED
        BY <3>1, <3>2, <3>3, <4>1 DEF LatestIsLastFrame
    <3>6. CASE hold'.latched = None
      BY <3>5, <3>6 DEF IInv, LatchIsFresh, EscalatesAtOnce,
                        AlarmOwnsItsMeasurement
    <3>7. CASE hold'.latched # None /\ SameLatch(hold', hold)
               /\ (hold.latched # None => l < hold.latched)
      <4>1. hold.latched # None /\ hold.latched = hold'.latched /\ l < hold.latched
            /\ hold.latched \in Threats
        BY <2>a, <3>7, FreshLatch DEF SameLatch
      <4>2. sinceLevel'[hold.latched] = sinceLevel[hold.latched]
        BY <3>2, <4>1 DEF Threats, Levels
      <4>3. LatchIsFresh'
        <5>1. /\ Age(now, hold.lastAlert) = sinceLevel[hold.latched]
              /\ sinceLevel[hold.latched] < ClearMs + MaxGap
              /\ sinceLevel[hold.latched] \in Ages
          BY <2>a, <2>t, <4>1 DEF LatchIsFresh
        <5>2. hold'.lastAlert = hold.lastAlert
          BY <3>7 DEF SameLatch
        <5>3. 0 <= sinceLevel[hold.latched]
          BY <5>1, HoldAssumption DEF Ages
        <5>4. QED
          BY <3>1, <3>2, <3>4, <4>1, <4>2, <5>1, <5>2, <5>3 DEF LatchIsFresh
      <4>4. EscalatesAtOnce'
        BY <3>1, <3>3, <4>1 DEF EscalatesAtOnce, Levels, Threats
      <4>5. AlarmOwnsItsMeasurement'
        <5>1. hold'.latchedDec = Instant(hold'.latched)
          BY <2>a, <3>7, <4>1 DEF AlarmOwnsItsMeasurement, SameLatch
        <5>2. shown' = Report(hold')
          BY <2>frame DEF ReadFrame
        <5>3. QED
          BY <3>1, <3>7, <5>1, <5>2, ReportFacts DEF AlarmOwnsItsMeasurement
      <4>6. QED
        BY <3>5, <4>3, <4>4, <4>5 DEF IInv
    <3>8. CASE l # None /\ Latched(hold', Instant(l), now)
      <4>1. hold'.latched = l /\ hold'.latchedDec = Instant(l)
            /\ hold'.lastAlert = now /\ l \in Threats
        BY <3>3, <3>8 DEF Latched, Levels, Threats, None
      <4>2. sinceLevel'[l] = 0
        BY <3>2, <4>1 DEF Threats
      <4>3. LatchIsFresh'
        BY <3>1, <3>2, <3>4, <4>1, <4>2, HoldAssumption DEF LatchIsFresh
      <4>4. EscalatesAtOnce'
        BY <3>1, <3>3, <4>1 DEF EscalatesAtOnce, Levels
      <4>5. AlarmOwnsItsMeasurement'
        <5>1. shown' = Report(hold')
          BY <2>frame DEF ReadFrame
        <5>2. QED
          BY <3>1, <3>8, <4>1, <5>1, ReportFacts DEF AlarmOwnsItsMeasurement
      <4>6. QED
        BY <3>5, <4>3, <4>4, <4>5 DEF IInv
    <3>9. QED
      BY <3>1, <3>6, <3>7, <3>8
  <2>poll. CASE Poll
    <3>1. /\ hold' \in Hold /\ hold'.latestDec = hold.latestDec
          /\ hold'.lastFrame = hold.lastFrame
          /\ \/ SameLatch(hold', hold)
                /\ (hold.latched # None => ~HoldOver(hold, now))
             \/ /\ hold.latched # None /\ HoldOver(hold, now)
                /\ hold.latestDec.level # None
                /\ hold.latestDec.level < hold.latched
                /\ Age(now, hold.lastFrame) < ClearMs
                /\ Latched(hold', hold.latestDec, hold.lastFrame)
             \/ hold'.latched = None
      BY <2>poll, <2>t, PollFacts DEF Poll
    <3>2. /\ now' = now /\ phase' = "sleep" /\ sinceLevel' = sinceLevel
          /\ sinceFrame' = sinceFrame /\ shown' = Report(hold')
      BY <2>poll DEF Poll
    <3>3. LatestIsLastFrame'
      BY <2>a, <3>1, <3>2 DEF LatestIsLastFrame
    <3>4. CASE hold'.latched = None
      BY <3>3, <3>4 DEF IInv, LatchIsFresh, EscalatesAtOnce,
                        AlarmOwnsItsMeasurement
    <3>5. CASE hold'.latched # None /\ SameLatch(hold', hold)
               /\ (hold.latched # None => ~HoldOver(hold, now))
      <4>1. hold'.latched = hold.latched /\ hold.latched # None
            /\ hold'.lastAlert = hold.lastAlert
            /\ hold'.latchedDec = hold.latchedDec
        BY <3>5 DEF SameLatch
      <4>2. sinceLevel[hold.latched] < ClearMs
        <5>1. ~(sinceLevel[hold.latched] >= ClearMs)
          BY <2>a, <3>5, <4>1, FreshLatch
        <5>2. sinceLevel[hold.latched] \in Ages
          BY <2>a, <2>t, <4>1, FreshLatch
        <5>3. QED
          BY <5>1, <5>2, HoldAssumption DEF Ages
      <4>3. LatchIsFresh' /\ EscalatesAtOnce'
        BY <2>a, <3>1, <3>2, <4>1, <4>2 DEF LatchIsFresh, EscalatesAtOnce
      <4>4. AlarmOwnsItsMeasurement'
        BY <2>a, <3>1, <3>2, <4>1, ReportFacts DEF AlarmOwnsItsMeasurement
      <4>5. QED
        BY <3>3, <4>3, <4>4 DEF IInv
    <3>6. CASE /\ hold.latched # None /\ HoldOver(hold, now)
               /\ hold.latestDec.level # None
               /\ hold.latestDec.level < hold.latched
               /\ Age(now, hold.lastFrame) < ClearMs
               /\ Latched(hold', hold.latestDec, hold.lastFrame)
      <4> DEFINE k == hold.latestDec.level
      <4>1. /\ hold'.latched = k /\ hold'.latchedDec = Instant(k)
            /\ hold'.lastAlert = hold.lastFrame /\ k # None
        BY <2>a, <3>6 DEF Latched, LatestIsLastFrame
      <4>2. /\ sinceLevel[k] = sinceFrame /\ Age(now, hold.lastFrame) = sinceFrame
            /\ sinceFrame < ClearMs
        BY <2>a, <3>6 DEF LatestIsLastFrame, LatchIsFresh
      <4>3. sinceFrame < ClearMs + MaxGap /\ sinceFrame <= sinceFrame
        BY <2>t, <4>2, HoldAssumption DEF Ages
      <4>4. LatchIsFresh'
        BY <3>1, <3>2, <4>1, <4>2, <4>3 DEF LatchIsFresh
      <4>5. EscalatesAtOnce'
        BY <2>t, <3>1, <4>1 DEF EscalatesAtOnce, Levels
      <4>6. AlarmOwnsItsMeasurement'
        BY <3>1, <3>2, <4>1, ReportFacts DEF AlarmOwnsItsMeasurement
      <4>7. QED
        BY <3>3, <4>4, <4>5, <4>6 DEF IInv
    <3>7. QED
      BY <3>1, <3>4, <3>5, <3>6
  <2>idle. CASE UNCHANGED vars
    BY <2>idle, <2>a DEF vars, history, IInv, LatchIsFresh, LatestIsLastFrame,
                      EscalatesAtOnce, AlarmOwnsItsMeasurement, TypeOK
  <2> QED
    BY <2>wake, <2>noise, <2>frame, <2>poll, <2>idle DEF Next
<1>3. QED
  BY <1>1, <1>2, TypeCorrect, PTL DEF Spec

(* A latched level was supported less than ClearMs ago, in true time, after *)
(* every poll: no poll, weaker frame or clock wrap keeps an alarm alive     *)
(* beyond its evidence.                                                     *)
THEOREM NoAlarmOutlivesEvidence == Spec => []NoOverhold
<1>1. IInv => NoOverhold
  BY DEF IInv, LatchIsFresh, NoOverhold
<1>2. QED
  BY <1>1, InvariantHolds, PTL

(* The latch's age on the wrapping clock is its true age. *)
THEOREM LatchAgeNeverWraps == Spec => []LatchAgeIsTrue
<1>1. IInv => LatchAgeIsTrue
  BY DEF IInv, LatchIsFresh, LatchAgeIsTrue
<1>2. QED
  BY <1>1, InvariantHolds, PTL

(* A shown alarm carries the measurement that owns its level, and a more    *)
(* urgent frame is never withheld while an alarm is latched.                *)
THEOREM AlarmIsItsMostUrgentFrame ==
  Spec => [](AlarmOwnsItsMeasurement /\ EscalatesAtOnce)
<1>1. IInv => AlarmOwnsItsMeasurement /\ EscalatesAtOnce
  BY DEF IInv
<1>2. QED
  BY <1>1, InvariantHolds, PTL

(* No step lowers or releases an alarm whose level was seen within ClearMs. *)
THEOREM ReleaseWaits == Spec => NoEarlyRelease
<1>1. IInv /\ [Next]_vars
        => [hold'.latched < hold.latched =>
              sinceLevel[hold.latched] >= ClearMs]_vars
  <2> SUFFICES ASSUME IInv, [Next]_vars, hold'.latched < hold.latched
               PROVE  sinceLevel[hold.latched] >= ClearMs
    OBVIOUS
  <2>t. /\ now \in Clock /\ hold \in Hold /\ hadBytes \in BOOLEAN
        /\ hold.latched \in Levels
    BY DEF IInv, TypeOK, Hold
  <2>1. SUFFICES hold.latched # None => HoldOver(hold, now)
    <3>1. hold.latched # None
      <4>1. CASE \E dt \in 1..MaxGap : Wake(dt)
        BY <4>1, <2>t DEF Wake, Levels
      <4>2. CASE ReadNoise
        BY <4>2, <2>t DEF ReadNoise, Levels
      <4>3. ASSUME NEW l \in Levels, ReadFrame(l)
            PROVE  hold.latched # None
        <5>1. hold'.latched \in Levels
          BY <4>3, <2>t, FrameFacts DEF ReadFrame, Hold
        <5>2. QED
          BY <5>1, <2>t DEF Levels, None
      <4>4. CASE Poll
        <5>1. hold'.latched \in Levels
          BY <4>4, <2>t, PollFacts DEF Poll, Hold
        <5>2. QED
          BY <5>1, <2>t DEF Levels, None
      <4>5. CASE UNCHANGED vars
        BY <4>5, <2>t DEF vars, Levels
      <4>6. QED
        BY <4>1, <4>2, <4>3, <4>4, <4>5 DEF Next
    <3>2. QED
      BY <3>1, FreshLatch DEF IInv
  <2>2. CASE \E dt \in 1..MaxGap : Wake(dt)
    BY <2>2, <2>t DEF Wake, Levels
  <2>3. CASE ReadNoise
    BY <2>3, <2>t DEF ReadNoise, Levels
  <2>4. ASSUME NEW l \in Levels, ReadFrame(l)
        PROVE  hold.latched # None => HoldOver(hold, now)
    <3>1. \/ SameLatch(hold', hold)
          \/ /\ l # None /\ Latched(hold', Instant(l), now)
             /\ (hold.latched # None /\ l < hold.latched => HoldOver(hold, now))
          \/ HoldOver(hold, now)
      BY <2>4, <2>t, FrameFacts DEF ReadFrame
    <3>2. Instant(l).level = l
      BY DecisionFacts
    <3>3. QED
      BY <3>1, <3>2, <2>t DEF SameLatch, Latched, Levels
  <2>5. CASE Poll
    <3>1. SameLatch(hold', hold) \/ HoldOver(hold, now)
      BY <2>5, <2>t, PollFacts DEF Poll
    <3>2. QED
      BY <3>1, <2>t DEF SameLatch, Levels
  <2>6. CASE UNCHANGED vars
    BY <2>6, <2>t DEF vars, Levels
  <2>7. QED
    BY <2>2, <2>3, <2>4, <2>5, <2>6 DEF Next
<1>2. QED
  BY <1>1, InvariantHolds, PTL DEF Spec, NoEarlyRelease

-----------------------------------------------------------------------------
(* What ew_hold_update does to the confirmation, the timestamps and the     *)
(* link.                                                                    *)

Gap(h, t) == h.everFrame /\ Age(t, h.lastFrame) > StaleMs

SameCount(n, h) == n.pending = h.pending /\ n.hits = h.hits

SameStamps(n, h) ==
  /\ n.everFrame = h.everFrame /\ n.lastFrame = h.lastFrame
  /\ n.everByte = h.everByte /\ n.lastByte = h.lastByte

(* The confirmations after one more frame of level l, none for None. *)
Counting(h, t, l) ==
  IF h.pending = l /\ ~Gap(h, t)
    THEN IF h.hits < MaxHits THEN h.hits + 1 ELSE h.hits
    ELSE 1

(* A frame stamps both ages; a stale gap before it forgets the count. *)
LEMMA NoteFrame ==
  ASSUME NEW h \in Hold, NEW t \in Clock
  PROVE  LET n == Note(h, t, TRUE, TRUE) IN
         /\ n.everFrame /\ n.everByte
         /\ n.lastFrame = t /\ n.lastByte = t
         /\ n.pending = IF Gap(h, t) THEN None ELSE h.pending
         /\ n.hits = IF Gap(h, t) THEN 0 ELSE h.hits
BY DEF Note, Hold, Gap

(* An iteration without a frame stamps at most the bytes. *)
LEMMA NotePoll ==
  ASSUME NEW h \in Hold, NEW t \in Clock, NEW b \in BOOLEAN
  PROVE  LET n == Note(h, t, b, FALSE) IN
         /\ SameCount(n, h)
         /\ n.everFrame = h.everFrame /\ n.lastFrame = h.lastFrame
         /\ n.everByte <=> (h.everByte \/ b)
         /\ n.lastByte = (IF b THEN t ELSE h.lastByte)
BY DEF Note, Hold, SameCount

(* Classifying the link changes nothing else. *)
LEMMA RelinkRest ==
  ASSUME NEW h \in Hold, NEW t \in Clock
  PROVE  LET n == Relink(h, t) IN
         SameCount(n, h) /\ SameStamps(n, h) /\ n.link = LinkOf(h, t)
BY DEF Relink, Hold, SameCount, SameStamps

(* A frame that shows no threat forgets the count; one that supports the    *)
(* latch confirms its level; any other is counted, and latches when it is   *)
(* confirmed and no stronger level is held.                                 *)
Observed(n, h, t, l) ==
  /\ l = None => n.pending = None
  /\ l # None /\ Supports(h, l) =>
       n.pending = l /\ n.hits = ConfirmFrames /\ n.latched = l
  /\ l # None /\ ~Supports(h, l) =>
       /\ n.pending = l
       /\ n.hits = IF h.pending # l THEN 1
                   ELSE IF h.hits < MaxHits THEN h.hits + 1 ELSE h.hits
       /\ n.latched =
            IF n.hits >= ConfirmFrames /\ (h.latched = None \/ HoldOver(h, t))
              THEN l ELSE h.latched

LEMMA ObserveCounts ==
  ASSUME NEW h \in Hold, NEW t \in Clock, NEW l \in Levels
  PROVE  LET n == Observe(h, t, Instant(l)) IN
         SameStamps(n, h) /\ Observed(n, h, t, l)
<1> DEFINE d == Instant(l)
           g == [h EXCEPT !.latestDec = d, !.haveObs = TRUE]
           c == Count(g, l)
           n == Observe(h, t, d)
           k == IF h.pending # l THEN 1
                ELSE IF h.hits < MaxHits THEN h.hits + 1 ELSE h.hits
<1>d. d \in Decision /\ d.level = l
  BY DecisionFacts
<1>g. /\ g \in Hold /\ SameLatch(g, h) /\ SameCount(g, h) /\ SameStamps(g, h)
  BY <1>d DEF Hold, SameLatch, SameCount, SameStamps
<1>n. n = CASE l = None -> [g EXCEPT !.pending = None, !.hits = 0]
            [] l # None /\ Supports(g, l) ->
                 [Latch(g, d, t) EXCEPT !.pending = l, !.hits = ConfirmFrames]
            [] l # None /\ ~Supports(g, l) ->
                 IF Confirmed(c) /\ (c.latched = None \/ HoldOver(c, t))
                   THEN Latch(c, d, t)
                   ELSE c
  BY <1>d DEF Observe
<1>s. /\ Supports(g, l) <=> Supports(h, l)
      /\ HoldOver(g, t) <=> HoldOver(h, t)
  BY <1>g DEF Supports, SameLatch, HoldOver
<1> HIDE DEF d, g, n
<1>1. CASE l = None
  <2>1. n = [g EXCEPT !.pending = None, !.hits = 0]
    BY <1>1, <1>n
  <2>2. QED
    BY <1>1, <2>1, <1>g DEF Hold, SameStamps, Observed, n, d
<1>2. CASE l # None /\ Supports(g, l)
  <2>1. n = [Latch(g, d, t) EXCEPT !.pending = l, !.hits = ConfirmFrames]
    BY <1>2, <1>n
  <2>2. n.pending = l /\ n.hits = ConfirmFrames /\ n.latched = l
        /\ SameStamps(n, h)
    BY <2>1, <1>g, <1>d DEF Latch, Hold, SameStamps
  <2>3. QED
    BY <1>2, <1>s, <2>2 DEF Observed, n, d
<1>3. CASE l # None /\ ~Supports(g, l)
  <2>1. c.pending = l /\ c.hits = k /\ SameStamps(c, h) /\ SameLatch(c, h)
        /\ c \in Hold
    <3>1. l \in Threats
      BY <1>3 DEF Levels, Threats, None
    <3>2. c = [g EXCEPT !.pending = l, !.hits = k]
      BY <1>g DEF Count, Hold, SameCount, c
    <3>3. c \in Hold
      BY <3>1, <1>g, CountFacts DEF c
    <3>4. QED
      BY <3>2, <3>3, <1>g DEF Hold, SameStamps, SameLatch
  <2> HIDE DEF c, k
  <2>2. HoldOver(c, t) <=> HoldOver(h, t)
    BY <2>1 DEF HoldOver, SameLatch
  <2>3. CASE Confirmed(c) /\ (c.latched = None \/ HoldOver(c, t))
    <3>1. n = Latch(c, d, t)
      BY <1>3, <1>n, <2>3
    <3>2. n.pending = l /\ n.hits = k /\ SameStamps(n, h) /\ n.latched = l
      BY <3>1, <2>1, <1>d DEF Latch, Hold, SameStamps
    <3>3. k >= ConfirmFrames /\ (h.latched = None \/ HoldOver(h, t))
      BY <2>1, <2>2, <2>3 DEF Confirmed, SameLatch
    <3>4. QED
      BY <1>3, <1>s, <3>2, <3>3 DEF Observed, n, d, k
  <2>4. CASE ~(Confirmed(c) /\ (c.latched = None \/ HoldOver(c, t)))
    <3>1. n = c
      BY <1>3, <1>n, <2>4
    <3>3. ~(k >= ConfirmFrames /\ (h.latched = None \/ HoldOver(h, t)))
      BY <2>1, <2>2, <2>4 DEF Confirmed, SameLatch
    <3>4. QED
      BY <1>3, <1>s, <2>1, <3>1, <3>3 DEF Observed, n, d, k, SameLatch
  <2>5. QED
    BY <2>3, <2>4
<1>4. QED
  BY <1>1, <1>2, <1>3

(* A release forgets the confirmation, and nothing else of these. *)
LEMMA ExpireCounts ==
  ASSUME NEW h \in Hold, NEW t \in Clock
  PROVE  LET n == Expire(h, t) IN
         /\ SameStamps(n, h) /\ n.link = h.link
         /\ Expires(h, t) => n.latched = None /\ n.pending = None
         /\ ~Expires(h, t) => n = h
<1>1. CASE Expires(h, t)
  BY <1>1 DEF Expire, Hold, SameStamps
<1>2. CASE ~Expires(h, t)
  BY <1>2 DEF Expire, SameStamps
<1>3. QED
  BY <1>1, <1>2

(* Stepping down changes none of them, and takes the last decision's level  *)
(* for the latch, which is then not over.                                   *)
LEMMA StepDownCounts ==
  ASSUME NEW h \in Hold, NEW t \in Clock
  PROVE  LET n == StepDown(h, t) IN
         /\ SameStamps(n, h) /\ n.link = h.link /\ SameCount(n, h)
         /\ ~MayStepDown(h, t) => n = h
         /\ MayStepDown(h, t) => /\ n.latched = h.latestDec.level
                                 /\ ~Expires(n, t)
<1>1. CASE MayStepDown(h, t)
  <2>1. StepDown(h, t) = [h EXCEPT !.latched = h.latestDec.level,
                                   !.latchedDec = h.latestDec,
                                   !.lastAlert = h.lastFrame]
    BY <1>1 DEF StepDown, Latch
  <2>2. Age(t, h.lastFrame) < ClearMs /\ Age(t, h.lastFrame) \in Clock
    BY <1>1, AgeInClock DEF MayStepDown, Hold
  <2>3. QED
    BY <1>1, <2>1, <2>2, HoldAssumption
       DEF Hold, SameStamps, SameCount, Expires, HoldOver, Clock
<1>2. CASE ~MayStepDown(h, t)
  BY <1>2 DEF StepDown, SameStamps, SameCount
<1>3. QED
  BY <1>1, <1>2

(* The whole of ew_hold_update for a frame.                                 *)
LEMMA FrameCounts ==
  ASSUME NEW h \in Hold, NEW t \in Clock, NEW l \in Levels
  PROVE  LET n == FrameUpdate(h, t, Instant(l)) IN
         /\ n.everFrame /\ n.everByte
         /\ n.lastFrame = t /\ n.lastByte = t
         /\ l = None => n.pending = None
         /\ l # None /\ Supports(h, l) =>
              n.pending = l /\ n.hits = ConfirmFrames /\ n.latched = l
         /\ l # None /\ ~Supports(h, l) =>
              /\ n.pending = l
              /\ n.hits = Counting(h, t, l)
              /\ n.latched =
                   IF /\ Counting(h, t, l) >= ConfirmFrames
                      /\ h.latched = None \/ HoldOver(h, t)
                     THEN l ELSE h.latched
<1> DEFINE a == Note(h, t, TRUE, TRUE)
           b == Relink(a, t)
           o == Observe(b, t, Instant(l))
           n == FrameUpdate(h, t, Instant(l))
<1>1. /\ a \in Hold /\ SameLatch(a, h)
      /\ a.everFrame /\ a.everByte /\ a.lastFrame = t /\ a.lastByte = t
      /\ a.pending = IF Gap(h, t) THEN None ELSE h.pending
      /\ a.hits = IF Gap(h, t) THEN 0 ELSE h.hits
  BY NoteFacts, NoteFrame DEF SameLatch
<1> HIDE DEF a
<1>2. /\ b \in Hold /\ SameLatch(b, h)
      /\ b.everFrame /\ b.everByte /\ b.lastFrame = t /\ b.lastByte = t
      /\ b.pending = IF Gap(h, t) THEN None ELSE h.pending
      /\ b.hits = IF Gap(h, t) THEN 0 ELSE h.hits
  BY <1>1, RelinkFacts, RelinkRest DEF SameLatch, SameStamps, SameCount
<1>3. /\ HoldOver(b, t) <=> HoldOver(h, t)
      /\ Supports(b, l) <=> Supports(h, l)
  BY <1>2 DEF HoldOver, SameLatch, Supports
<1>4. Instant(l).level = l
  BY DecisionFacts
<1>5. n = IF l = None THEN Expire(o, t) ELSE o
  BY <1>4 DEF FrameUpdate, a
<1> HIDE DEF b, n
<1>6. o \in Hold /\ SameStamps(o, b) /\ Observed(o, b, t, l)
  BY <1>2, ObserveFacts, ObserveCounts
<1> HIDE DEF o
<1>7. CASE l = None
  <2>1. SameStamps(n, o) /\ (n.pending = o.pending \/ n.pending = None)
    BY <1>5, <1>6, <1>7, ExpireCounts
  <2>2. o.pending = None
    BY <1>6, <1>7 DEF Observed
  <2>3. QED
    BY <1>2, <1>6, <1>7, <2>1, <2>2 DEF n, SameStamps
<1>8. CASE l # None
  <2>1. n = o
    BY <1>5, <1>8
  <2>2. Supports(h, l) => n.pending = l /\ n.hits = ConfirmFrames /\ n.latched = l
    BY <1>3, <1>6, <1>8, <2>1 DEF Observed
  <2>3. ASSUME ~Supports(h, l)
        PROVE  /\ n.pending = l
               /\ n.hits = Counting(h, t, l)
               /\ n.latched =
                    IF /\ Counting(h, t, l) >= ConfirmFrames
                       /\ h.latched = None \/ HoldOver(h, t)
                      THEN l ELSE h.latched
    <3>1. /\ o.pending = l
          /\ o.hits = IF b.pending # l THEN 1
                      ELSE IF b.hits < MaxHits THEN b.hits + 1 ELSE b.hits
          /\ o.latched =
               IF o.hits >= ConfirmFrames /\ (h.latched = None \/ HoldOver(h, t))
                 THEN l ELSE h.latched
      BY <1>2, <1>3, <1>6, <1>8, <2>3 DEF Observed, SameLatch
    <3>2. o.hits = Counting(h, t, l)
      BY <1>2, <1>8, <3>1 DEF Counting
    <3>3. QED
      BY <2>1, <3>1, <3>2
  <2>4. QED
    BY <1>2, <1>6, <1>8, <2>1, <2>2, <2>3 DEF n, SameStamps
<1>9. QED
  BY <1>7, <1>8

(* The whole of ew_hold_update for a poll. *)
LEMMA PollCounts ==
  ASSUME NEW h \in Hold, NEW t \in Clock, NEW b \in BOOLEAN
  PROVE  LET n == PollUpdate(h, t, b) IN
         /\ n.everFrame = h.everFrame /\ n.lastFrame = h.lastFrame
         /\ n.everByte <=> (h.everByte \/ b)
         /\ n.lastByte = IF b THEN t ELSE h.lastByte
         /\ n.link = LinkOf(n, t)
         /\ \/ SameCount(n, h)
            \/ h.latched # None /\ n.latched = None
         /\ h.latched # None /\ n.latched = None => n.pending = None
         /\ MayStepDown(h, t) => n.latched = h.latestDec.level
<1> DEFINE a == Note(h, t, b, FALSE)
           c == Relink(a, t)
           e == StepDown(c, t)
           n == PollUpdate(h, t, b)
<1>1. /\ a \in Hold /\ SameLatch(a, h) /\ SameCount(a, h)
      /\ a.everFrame = h.everFrame /\ a.lastFrame = h.lastFrame
      /\ a.everByte <=> (h.everByte \/ b)
      /\ a.lastByte = (IF b THEN t ELSE h.lastByte)
      /\ a.latestDec = h.latestDec
  <2>1. a \in Hold /\ SameLatch(a, h) /\ a.latestDec = h.latestDec
    BY NoteFacts DEF SameLatch
  <2>2. /\ SameCount(a, h)
        /\ a.everFrame = h.everFrame /\ a.lastFrame = h.lastFrame
        /\ a.everByte <=> (h.everByte \/ b)
        /\ a.lastByte = (IF b THEN t ELSE h.lastByte)
    BY NotePoll
  <2>3. QED
    BY <2>1, <2>2
<1>2. /\ c \in Hold /\ SameLatch(c, h) /\ SameCount(c, h)
      /\ SameStamps(c, a) /\ c.latestDec = h.latestDec
      /\ c.link = LinkOf(a, t)
  BY <1>1, RelinkFacts, RelinkRest DEF SameLatch, SameCount
<1>3. n = Expire(e, t)
  BY DEF PollUpdate
<1>4. MayStepDown(c, t) <=> MayStepDown(h, t)
  BY <1>1, <1>2 DEF MayStepDown, SameLatch, SameCount, SameStamps, Confirmed,
                    HoldOver
<1> HIDE DEF a, c, n
<1>5. /\ e \in Hold /\ SameStamps(e, c) /\ e.link = c.link /\ SameCount(e, c)
      /\ ~MayStepDown(h, t) => e = c
      /\ MayStepDown(h, t) => e.latched = c.latestDec.level /\ ~Expires(e, t)
  BY <1>2, <1>4, StepDownFacts, StepDownCounts
<1> HIDE DEF e
<1>6. /\ SameStamps(n, e) /\ n.link = e.link
      /\ Expires(e, t) => n.latched = None /\ n.pending = None
      /\ ~Expires(e, t) => n = e
  BY <1>3, <1>5, ExpireCounts
<1>7. SameStamps(n, a)
  BY <1>2, <1>5, <1>6 DEF SameStamps
<1>8. n.link = LinkOf(n, t)
  BY <1>2, <1>5, <1>6, <1>7 DEF LinkOf, SameStamps
<1>9. /\ \/ SameCount(n, h)
         \/ h.latched # None /\ n.latched = None
      /\ h.latched # None /\ n.latched = None => n.pending = None
  <2>1. h.latched # None <=> e.latched # None
    <3>1. CASE MayStepDown(h, t)
      <4>1. c.latestDec.level = h.pending /\ h.pending # None /\ h.latched # None
        BY <1>2, <3>1 DEF MayStepDown
      <4>2. QED
        BY <1>5, <3>1, <4>1
    <3>2. CASE ~MayStepDown(h, t)
      BY <1>2, <1>5, <3>2 DEF SameLatch
    <3>3. QED
      BY <3>1, <3>2
  <2>2. SameCount(e, h)
    BY <1>2, <1>5 DEF SameCount
  <2>3. QED
    BY <1>6, <2>1, <2>2 DEF SameCount, Expires
<1>10. MayStepDown(h, t) => n.latched = h.latestDec.level
  BY <1>2, <1>5, <1>6
<1>11. QED
  BY <1>1, <1>7, <1>8, <1>9, <1>10 DEF n, SameStamps

-----------------------------------------------------------------------------
(* The clock's age of the last frame is the true one until the history or   *)
(* the clock saturates.                                                     *)
FrameAgeIsTrue ==
  IF hold.everFrame
    THEN sinceFrame < Horizon /\ sinceFrame < ClockMod =>
           Age(now, hold.lastFrame) = sinceFrame
    ELSE sinceFrame = Horizon

(* A run of frames is what the worker is counting, at its true length or    *)
(* already confirmed, and shows in its last decision.                       *)
StreakIsCounted ==
  streak.level # None =>
    /\ hold.pending = streak.level
    /\ hold.hits >= streak.count \/ hold.hits >= ConfirmFrames
    /\ hold.latestDec.level = streak.level
    /\ hold.everFrame

(* A confirmed run that ended less than ClearMs ago is latched.             *)
StreakIsHeld ==
  streak.level # None /\ streak.count >= ConfirmFrames /\ sinceFrame < ClearMs
    => hold.latched >= streak.level

StreakInv == FrameAgeIsTrue /\ StreakIsCounted /\ StreakIsHeld

(* A true age that is still below both limits after a wait was the clock's  *)
(* age before it, and is the clock's age after it.                          *)
LEMMA AgeSurvivesWait ==
  ASSUME NEW t \in Clock, NEW u \in Clock, NEW dt \in 1..MaxGap, NEW a \in Ages,
         a < Horizon /\ a < ClockMod => Age(t, u) = a,
         Older(a, dt) < Horizon, Older(a, dt) < ClockMod
  PROVE  /\ Older(a, dt) = a + dt
         /\ Age(Later(t, dt), u) = Older(a, dt)
<1>1. a \in Nat /\ dt \in Nat \ {0} /\ Horizon \in Nat /\ ClockMod \in Nat
  BY HoldAssumption DEF Ages
<1>2. Older(a, dt) = a + dt /\ a < Horizon /\ a < ClockMod /\ a + dt < ClockMod
  BY <1>1 DEF Older
<1>3. QED
  BY <1>2, LaterAge

(* Waiting never makes an age younger. *)
LEMMA OlderGrows ==
  ASSUME NEW a \in Ages, NEW dt \in 1..MaxGap
  PROVE  a <= Older(a, dt) /\ Older(a, dt) <= a + dt
BY HoldAssumption DEF Ages, Older

LEMMA SaturatedStays ==
  ASSUME NEW dt \in 1..MaxGap
  PROVE  Older(Horizon, dt) = Horizon
BY HoldAssumption DEF Older

(* A frame keeps the run counted and, once confirmed, held. *)
LEMMA FrameKeepsStreak ==
  ASSUME IInv, StreakInv, TypeOK', NEW l \in Levels, ReadFrame(l)
  PROVE  StreakInv'
<1> DEFINE n == FrameUpdate(hold, now, Instant(l))
<1>t. /\ now \in Clock /\ hold \in Hold /\ hold.latched \in Levels
      /\ hold.pending \in Levels /\ hold.hits \in 0..MaxHits
      /\ hold.lastFrame \in Clock /\ hold.everFrame \in BOOLEAN
      /\ sinceFrame \in Ages /\ streak \in [level: Levels, count: 0..MaxHits]
      /\ streak.level \in Levels /\ streak.count \in 0..MaxHits
  BY DEF IInv, TypeOK, Hold
<1>f. /\ n.everFrame /\ n.lastFrame = now
      /\ l = None => n.pending = None
      /\ l # None /\ Supports(hold, l) =>
           n.pending = l /\ n.hits = ConfirmFrames /\ n.latched = l
      /\ l # None /\ ~Supports(hold, l) =>
           /\ n.pending = l
           /\ n.hits = Counting(hold, now, l)
           /\ n.latched =
                IF /\ Counting(hold, now, l) >= ConfirmFrames
                   /\ hold.latched = None \/ HoldOver(hold, now)
                  THEN l ELSE hold.latched
  BY <1>t, FrameCounts
<1>n. n \in Hold /\ n.latestDec = Instant(l) /\ n.latestDec.level = l
  <2>1. n \in Hold /\ n.latestDec = Instant(l)
    BY <1>t, FrameFacts
  <2>2. QED
    BY <2>1, DecisionFacts
<1>s. /\ hold' = n /\ sinceFrame' = 0 /\ now' = now
      /\ streak' = Extend(streak, l)
  BY DEF ReadFrame
<1> HIDE DEF n
<1>1. FrameAgeIsTrue'
  <2>1. Age(now, now) = 0
    BY <1>t, AgeOfNow
  <2>2. QED
    BY <1>f, <1>s, <2>1 DEF FrameAgeIsTrue
<1>2. streak'.level = l /\ streak'.count \in 0..MaxHits
      /\ streak' = IF streak.level = l /\ sinceFrame <= StaleMs
           THEN [streak EXCEPT
                   !.count = IF streak.count < MaxHits THEN streak.count + 1
                             ELSE streak.count]
           ELSE [level |-> l, count |-> 1]
  BY <1>s, <1>t, HoldAssumption DEF Extend
<1>3. CASE l = None
  <2>1. streak'.level = None
    BY <1>2, <1>3
  <2>2. QED
    BY <1>1, <2>1 DEF StreakInv, StreakIsCounted, StreakIsHeld
<1>4. CASE l # None /\ Supports(hold, l)
  <2>1. StreakIsCounted'
    BY <1>2, <1>4, <1>f, <1>n, <1>s, HoldAssumption DEF StreakIsCounted
  <2>2. StreakIsHeld'
    BY <1>2, <1>4, <1>f, <1>s DEF StreakIsHeld, Levels
  <2>3. QED
    BY <1>1, <2>1, <2>2 DEF StreakInv
<1>5. CASE l # None /\ ~Supports(hold, l)
  <2>1. /\ streak'.count <= Counting(hold, now, l)
        \/ Counting(hold, now, l) >= ConfirmFrames
    <3>1. CASE streak.level = l /\ sinceFrame <= StaleMs
      <4>1. /\ hold.pending = l /\ hold.everFrame
            /\ hold.hits >= streak.count \/ hold.hits >= ConfirmFrames
        BY <1>5, <3>1 DEF StreakInv, StreakIsCounted
      <4>2. ~Gap(hold, now)
        <5>1. sinceFrame < Horizon /\ sinceFrame < ClockMod
          BY <1>t, <3>1, HoldAssumption DEF Ages
        <5>2. Age(now, hold.lastFrame) = sinceFrame
          BY <4>1, <5>1 DEF StreakInv, FrameAgeIsTrue
        <5>3. QED
          BY <1>t, <3>1, <5>2, HoldAssumption DEF Gap, Ages
      <4>3. Counting(hold, now, l) =
              IF hold.hits < MaxHits THEN hold.hits + 1 ELSE hold.hits
        BY <4>1, <4>2 DEF Counting
      <4>4. streak'.count =
              IF streak.count < MaxHits THEN streak.count + 1 ELSE streak.count
        BY <1>2, <1>t, <3>1
      <4>5. QED
        BY <1>t, <4>1, <4>3, <4>4, HoldAssumption
    <3>2. CASE ~(streak.level = l /\ sinceFrame <= StaleMs)
      <4>1. streak'.count = 1
        BY <1>2, <3>2
      <4>2. Counting(hold, now, l) >= 1
        BY <1>t, HoldAssumption DEF Counting
      <4>3. QED
        BY <4>1, <4>2
    <3>3. QED
      BY <3>1, <3>2
  <2>2. StreakIsCounted'
    BY <1>2, <1>5, <1>f, <1>n, <1>s, <2>1 DEF StreakIsCounted
  <2>3. StreakIsHeld'
    <3>1. SUFFICES ASSUME streak'.count >= ConfirmFrames
                   PROVE  hold'.latched >= l
      BY <1>2 DEF StreakIsHeld
    <3>2. Counting(hold, now, l) >= ConfirmFrames
      <4>1. Counting(hold, now, l) \in Nat
        BY <1>t, HoldAssumption DEF Counting
      <4>2. QED
        BY <1>2, <2>1, <3>1, <4>1, HoldAssumption
    <3>3. hold.latched = None \/ l < hold.latched
      BY <1>5, <1>t DEF Supports, Levels
    <3>4. QED
      BY <1>5, <1>f, <1>s, <1>t, <3>2, <3>3 DEF Levels
  <2>4. QED
    BY <1>1, <2>2, <2>3 DEF StreakInv
<1>6. QED
  BY <1>3, <1>4, <1>5

(* A poll keeps the run counted, unless it releases an alarm and the run    *)
(* with it; a confirmed run that is not over takes the alarm over instead.  *)
LEMMA PollKeepsStreak ==
  ASSUME IInv, StreakInv, TypeOK', Poll
  PROVE  StreakInv'
<1> DEFINE n == PollUpdate(hold, now, hadBytes)
<1>t. /\ now \in Clock /\ hold \in Hold /\ hold.latched \in Levels
      /\ hold.hits \in 0..MaxHits /\ hadBytes \in BOOLEAN
      /\ sinceFrame \in Ages
      /\ streak.level \in Levels /\ streak.count \in 0..MaxHits
  BY DEF IInv, TypeOK, Hold
<1>f. /\ n.everFrame = hold.everFrame /\ n.lastFrame = hold.lastFrame
      /\ \/ SameCount(n, hold)
         \/ hold.latched # None /\ n.latched = None
      /\ MayStepDown(hold, now) => n.latched = hold.latestDec.level
  BY <1>t, PollCounts
<1>n. /\ n \in Hold /\ n.latestDec = hold.latestDec
      /\ \/ SameLatch(n, hold)
         \/ hold.latched # None /\ HoldOver(hold, now)
  BY <1>t, PollFacts
<1>s. /\ hold' = n /\ sinceFrame' = sinceFrame /\ now' = now
      /\ streak' = IF hold.latched # None /\ hold'.latched = None /\ ~RunSurvives
                     THEN [level |-> None, count |-> 0] ELSE streak
  BY DEF Poll
<1> HIDE DEF n
<1>1. FrameAgeIsTrue'
  BY <1>f, <1>s DEF StreakInv, FrameAgeIsTrue
<1>2. ASSUME streak.level # None, streak.count >= ConfirmFrames,
             sinceFrame < ClearMs
      PROVE  hold'.latched >= streak.level
  <2>1. /\ hold.latched >= streak.level
        /\ hold.pending = streak.level
        /\ hold.hits >= streak.count \/ hold.hits >= ConfirmFrames
        /\ hold.latestDec.level = streak.level
    BY <1>2 DEF StreakInv, StreakIsCounted, StreakIsHeld
  <2>2. CASE SameLatch(n, hold)
    BY <1>s, <2>1, <2>2 DEF SameLatch
  <2>3. CASE hold.latched # None /\ HoldOver(hold, now)
    <3>1. sinceLevel[hold.latched] >= ClearMs
          /\ Age(now, hold.lastFrame) = sinceFrame
      BY <2>3, FreshLatch DEF IInv, LatchIsFresh
    <3>2. sinceLevel[streak.level] = sinceFrame
      BY <1>2, <2>1 DEF IInv, LatestIsLastFrame
    <3>3. hold.latched # streak.level
      BY <1>2, <1>t, <3>1, <3>2, HoldAssumption DEF Ages
    <3>4. Confirmed(hold)
      BY <1>2, <1>t, <2>1, HoldAssumption DEF Confirmed
    <3>5. MayStepDown(hold, now)
      BY <1>2, <1>t, <2>1, <2>3, <3>1, <3>3, <3>4 DEF MayStepDown, Levels
    <3>6. QED
      BY <1>f, <1>s, <1>t, <2>1, <3>5 DEF Levels
  <2>4. QED
    BY <1>n, <2>2, <2>3
<1>3. CASE streak'.level = None
  BY <1>1, <1>3 DEF StreakInv, StreakIsCounted, StreakIsHeld
<1>4. CASE streak'.level # None
  <2>1. streak' = streak
        /\ ~(hold.latched # None /\ hold'.latched = None /\ ~RunSurvives)
    BY <1>s, <1>4
  <2>2. SameCount(n, hold)
    <3>1. SUFFICES ASSUME hold.latched # None, n.latched = None
                   PROVE  FALSE
      BY <1>f
    <3>2. streak.count >= ConfirmFrames /\ sinceFrame < ClearMs
      BY <1>s, <2>1, <3>1 DEF RunSurvives
    <3>3. QED
      BY <1>2, <1>4, <1>s, <1>t, <2>1, <3>1, <3>2 DEF Levels, None
  <2>3. StreakIsCounted'
    BY <1>4, <1>f, <1>n, <1>s, <2>1, <2>2
       DEF StreakInv, StreakIsCounted, SameCount
  <2>4. StreakIsHeld'
    BY <1>2, <1>s, <2>1 DEF StreakIsHeld
  <2>5. QED
    BY <1>1, <2>3, <2>4 DEF StreakInv
<1>5. QED
  BY <1>3, <1>4

(* The invariant of the run of frames holds, with no bound on silence. *)
THEOREM StreakInvariant == Spec => []StreakInv
<1>1. Init => StreakInv
  BY DEF Init, HoldReset, StreakInv, FrameAgeIsTrue, StreakIsCounted,
         StreakIsHeld
<1>2. IInv /\ IInv' /\ StreakInv /\ [Next]_vars => StreakInv'
  <2> SUFFICES ASSUME IInv, IInv', StreakInv, [Next]_vars
               PROVE  StreakInv'
    OBVIOUS
  <2>t. /\ now \in Clock /\ hold \in Hold /\ sinceFrame \in Ages
        /\ hold.lastFrame \in Clock /\ TypeOK'
    BY DEF IInv, TypeOK, Hold
  <2>wake. ASSUME NEW dt \in 1..MaxGap, Wake(dt)
           PROVE  StreakInv'
    <3>1. /\ now' = Later(now, dt) /\ sinceFrame' = Older(sinceFrame, dt)
          /\ hold' = hold /\ streak' = streak
      BY <2>wake DEF Wake
    <3>2. CASE hold.everFrame
      <4>1. sinceFrame < Horizon /\ sinceFrame < ClockMod =>
              Age(now, hold.lastFrame) = sinceFrame
        BY <3>2 DEF StreakInv, FrameAgeIsTrue
      <4>2. FrameAgeIsTrue'
        BY <2>t, <3>1, <3>2, <4>1, AgeSurvivesWait DEF FrameAgeIsTrue
      <4>3. StreakIsCounted'
        BY <3>1 DEF StreakInv, StreakIsCounted
      <4>4. sinceFrame' < ClearMs => sinceFrame < ClearMs
        BY <2>t, <3>1, OlderGrows, OlderIsAge, HoldAssumption DEF Ages
      <4>5. StreakIsHeld'
        BY <3>1, <4>4 DEF StreakInv, StreakIsHeld
      <4>6. QED
        BY <4>2, <4>3, <4>5 DEF StreakInv
    <3>3. CASE ~hold.everFrame
      <4>1. sinceFrame' = Horizon
        BY <3>1, <3>3, SaturatedStays DEF StreakInv, FrameAgeIsTrue
      <4>2. streak'.level = None
        BY <3>1, <3>3 DEF StreakInv, StreakIsCounted
      <4>3. QED
        BY <3>1, <3>3, <4>1, <4>2
           DEF StreakInv, FrameAgeIsTrue, StreakIsCounted, StreakIsHeld
    <3>4. QED
      BY <3>2, <3>3
  <2>noise. CASE ReadNoise
    BY <2>noise DEF ReadNoise, StreakInv, FrameAgeIsTrue, StreakIsCounted,
                StreakIsHeld
  <2>frame. ASSUME NEW l \in Levels, ReadFrame(l)
            PROVE  StreakInv'
    BY <2>t, <2>frame, FrameKeepsStreak
  <2>poll. CASE Poll
    BY <2>t, <2>poll, PollKeepsStreak
  <2>idle. CASE UNCHANGED vars
    BY <2>idle DEF vars, history, StreakInv, FrameAgeIsTrue, StreakIsCounted,
                StreakIsHeld
  <2> QED
    BY <2>wake, <2>noise, <2>frame, <2>poll, <2>idle DEF Next
<1>3. QED
  BY <1>1, <1>2, InvariantHolds, PTL DEF Spec

(* A confirmed threat whose last frame is less than ClearMs old is shown at *)
(* its level or a higher one, whatever frames, noise and polls came before. *)
THEOREM ThreatIsShown == Spec => []ConfirmedThreatShown
<1>1. IInv /\ StreakInv => ConfirmedThreatShown
  <2> SUFFICES ASSUME IInv, StreakInv, streak.level # None,
                      streak.count >= ConfirmFrames, sinceFrame < ClearMs
               PROVE  shown.level >= streak.level
    BY DEF ConfirmedThreatShown
  <2>1. hold.latched >= streak.level
    BY DEF StreakInv, StreakIsHeld
  <2>2. hold.latched # None
    BY <2>1 DEF IInv, TypeOK, Levels, None
  <2>3. shown = Instant(hold.latched)
    BY <2>2 DEF IInv, AlarmOwnsItsMeasurement
  <2>4. QED
    BY <2>1, <2>3 DEF Instant
<1>2. QED
  BY <1>1, InvariantHolds, StreakInvariant, PTL

-----------------------------------------------------------------------------
(* Silences and waits too short to wrap the clock or saturate the history. *)
SilenceBelowClock ==
  MaxSilence < Horizon /\ MaxSilence + MaxGap < ClockMod

(* The bytes of this iteration reach the hold only with its poll. *)
BytesNoted == phase = "sleep" \/ ~hadBytes

ByteAgeIsTrue ==
  /\ ~BytesNoted => sinceByte = 0
  /\ BytesNoted /\ hold.everByte =>
       (sinceByte < Horizon /\ sinceByte < ClockMod =>
          Age(now, hold.lastByte) = sinceByte)
  /\ BytesNoted /\ ~hold.everByte => sinceByte = Horizon

(* After a poll the silences are within the bound and the link is current. *)
PolledInBound ==
  phase = "sleep" =>
    /\ hold.everFrame => sinceFrame <= MaxSilence
    /\ hold.everByte => sinceByte <= MaxSilence
    /\ hold.link = LinkOf(hold, now)

LinkInv == ByteAgeIsTrue /\ PolledInBound

(* Ages after a poll are exact. *)
LEMMA LinkInvariant ==
  ASSUME SilenceBelowClock
  PROVE  Spec => []LinkInv
<1>1. Init => LinkInv
  <2> SUFFICES ASSUME Init PROVE LinkInv
    OBVIOUS
  <2>1. /\ ~hold.everFrame /\ ~hold.everByte /\ hold.link = "dead"
        /\ sinceByte = Horizon /\ BytesNoted
    BY DEF Init, HoldReset, BytesNoted
  <2>2. LinkOf(hold, now) = "dead"
    BY <2>1 DEF LinkOf
  <2>3. QED
    BY <2>1, <2>2 DEF LinkInv, ByteAgeIsTrue, PolledInBound
<1>2. IInv /\ LinkInv /\ [Next]_vars => LinkInv'
  <2> SUFFICES ASSUME IInv, LinkInv, [Next]_vars
               PROVE  LinkInv'
    OBVIOUS
  <2>t. /\ now \in Clock /\ hold \in Hold /\ sinceByte \in Ages
        /\ hold.lastByte \in Clock /\ hold.everByte \in BOOLEAN
        /\ hadBytes \in BOOLEAN
    BY DEF IInv, TypeOK, Hold
  <2>wake. ASSUME NEW dt \in 1..MaxGap, Wake(dt)
           PROVE  LinkInv'
    <3>1. /\ now' = Later(now, dt) /\ sinceByte' = Older(sinceByte, dt)
          /\ hold' = hold /\ phase = "sleep" /\ phase' = "read" /\ BytesNoted'
          /\ BytesNoted
      BY <2>wake DEF Wake, BytesNoted
    <3>2. CASE hold.everByte
      <4>1. sinceByte < Horizon /\ sinceByte < ClockMod =>
              Age(now, hold.lastByte) = sinceByte
        BY <3>1, <3>2 DEF LinkInv, ByteAgeIsTrue
      <4>2. QED
        BY <2>t, <3>1, <3>2, <4>1, AgeSurvivesWait
           DEF LinkInv, ByteAgeIsTrue, PolledInBound
    <3>3. CASE ~hold.everByte
      BY <3>1, <3>3, SaturatedStays DEF LinkInv, ByteAgeIsTrue, PolledInBound
    <3>4. QED
      BY <3>2, <3>3
  <2>noise. CASE ReadNoise
    BY <2>noise DEF ReadNoise, LinkInv, ByteAgeIsTrue, PolledInBound, BytesNoted
  <2>frame. ASSUME NEW l \in Levels, ReadFrame(l)
            PROVE  LinkInv'
    BY <2>frame DEF ReadFrame, LinkInv, ByteAgeIsTrue, PolledInBound, BytesNoted
  <2>poll. CASE Poll
    <3> DEFINE n == PollUpdate(hold, now, hadBytes)
    <3>1. /\ n.everFrame = hold.everFrame
          /\ n.everByte <=> (hold.everByte \/ hadBytes)
          /\ n.lastByte = IF hadBytes THEN now ELSE hold.lastByte
          /\ n.link = LinkOf(n, now)
      BY <2>t, PollCounts
    <3>2. /\ hold' = n /\ sinceFrame' = sinceFrame /\ sinceByte' = sinceByte
          /\ now' = now /\ phase = "read" /\ phase' = "sleep"
          /\ WithinBound /\ hadBytes' = hadBytes
      BY <2>poll DEF Poll
    <3> HIDE DEF n
    <3>3. BytesNoted' /\ (BytesNoted <=> ~hadBytes)
      BY <3>2 DEF BytesNoted
    <3>4. CASE hadBytes
      <4>1. sinceByte = 0 /\ Age(now, now) = 0
        BY <2>t, <3>3, <3>4, AgeOfNow DEF LinkInv, ByteAgeIsTrue
      <4>2. ByteAgeIsTrue'
        BY <3>1, <3>2, <3>3, <3>4, <4>1 DEF ByteAgeIsTrue
      <4>3. PolledInBound'
        BY <3>1, <3>2, <4>1, HoldAssumption DEF PolledInBound, WithinBound, LinkOf
      <4>4. QED
        BY <4>2, <4>3 DEF LinkInv
    <3>5. CASE ~hadBytes
      <4>1. ByteAgeIsTrue'
        BY <3>1, <3>2, <3>3, <3>5 DEF LinkInv, ByteAgeIsTrue
      <4>2. PolledInBound'
        BY <3>1, <3>2, <3>5 DEF PolledInBound, WithinBound, LinkOf
      <4>3. QED
        BY <4>1, <4>2 DEF LinkInv
    <3>6. QED
      BY <2>t, <3>4, <3>5
  <2>idle. CASE UNCHANGED vars
    BY <2>idle DEF vars, history, LinkInv, ByteAgeIsTrue, PolledInBound,
                BytesNoted, LinkOf
  <2> QED
    BY <2>wake, <2>noise, <2>frame, <2>poll, <2>idle DEF Next
<1>3. QED
  BY <1>1, <1>2, InvariantHolds, PTL DEF Spec

(* The link that is reported is the true one. *)
THEOREM LinkStaysTrue ==
  ASSUME SilenceBelowClock
  PROVE  Spec => []LinkIsTrue
<1>1. IInv /\ StreakInv /\ LinkInv => LinkIsTrue
  <2> SUFFICES ASSUME IInv, StreakInv, LinkInv, phase = "sleep"
               PROVE  /\ hold.link = "ok" <=>
                           hold.everFrame /\ sinceFrame <= StaleMs
                      /\ hold.link = "noise" =>
                           sinceByte <= StaleMs /\ sinceFrame > StaleMs
                      /\ hold.link = "dead" => sinceByte > StaleMs
    BY DEF LinkIsTrue
  <2>1. /\ sinceFrame \in Ages /\ sinceByte \in Ages
        /\ hold.everFrame \in BOOLEAN /\ hold.everByte \in BOOLEAN
    BY DEF IInv, TypeOK, Hold
  <2>2. hold.everFrame =>
          sinceFrame <= MaxSilence /\ Age(now, hold.lastFrame) = sinceFrame
    BY <2>1, HoldAssumption
       DEF StreakInv, FrameAgeIsTrue, LinkInv, PolledInBound,
           SilenceBelowClock, Ages
  <2>3. hold.everByte =>
          sinceByte <= MaxSilence /\ Age(now, hold.lastByte) = sinceByte
    BY <2>1, HoldAssumption
       DEF LinkInv, ByteAgeIsTrue, BytesNoted, PolledInBound,
           SilenceBelowClock, Ages
  <2>4. /\ ~hold.everFrame => sinceFrame > StaleMs
        /\ ~hold.everByte => sinceByte > StaleMs
    BY HoldAssumption
       DEF StreakInv, FrameAgeIsTrue, LinkInv, ByteAgeIsTrue, BytesNoted
  <2>5. hold.link = LinkOf(hold, now)
    BY DEF LinkInv, PolledInBound
  <2> DEFINE fresh == hold.everFrame /\ sinceFrame <= StaleMs
             heard == hold.everByte /\ sinceByte <= StaleMs
  <2>6. LinkOf(hold, now) =
          CASE fresh -> "ok"
            [] heard /\ ~fresh -> "noise"
            [] OTHER -> "dead"
    BY <2>2, <2>3 DEF LinkOf, Recent
  <2>7. CASE fresh
    BY <2>5, <2>6, <2>7
  <2>8. CASE heard /\ ~fresh
    <3>1. hold.link = "noise"
      BY <2>5, <2>6, <2>8
    <3>2. sinceFrame > StaleMs
      BY <2>1, <2>4, <2>8, HoldAssumption DEF Ages
    <3>3. QED
      BY <2>8, <3>1, <3>2
  <2>9. CASE ~heard /\ ~fresh
    <3>1. hold.link = "dead"
      BY <2>5, <2>6, <2>9
    <3>2. sinceByte > StaleMs
      BY <2>1, <2>4, <2>9, HoldAssumption DEF Ages
    <3>3. QED
      BY <2>9, <3>1, <3>2
  <2>10. QED
    BY <2>7, <2>8, <2>9
<1>2. QED
  BY <1>1, InvariantHolds, StreakInvariant, LinkInvariant, PTL

(* A silence longer than StaleMs is seen by the clock, and what is counted  *)
(* while nothing is latched is the run of frames at most.                   *)
GapSeen ==
  hold.everFrame /\ sinceFrame > StaleMs => Gap(hold, now)

CountedIsStreak ==
  hold.latched = None /\ hold.pending # None =>
    /\ hold.pending = streak.level
    /\ hold.hits <= streak.count
    /\ hold.everFrame

CountInv == GapSeen /\ CountedIsStreak

(* The run after a frame is at least what the worker then counts. *)
LEMMA CountIsBounded ==
  ASSUME TypeOK, CountInv, NEW l \in Threats, hold.latched = None
  PROVE  /\ Extend(streak, l).level = l
         /\ Counting(hold, now, l) <= Extend(streak, l).count
<1>t. /\ hold.hits \in 0..MaxHits /\ hold.everFrame \in BOOLEAN
      /\ sinceFrame \in Ages /\ streak \in [level: Levels, count: 0..MaxHits]
      /\ streak.level \in Levels /\ streak.count \in 0..MaxHits
      /\ l # None /\ l \in Levels
  BY DEF TypeOK, Hold, Threats, Levels, None
<1>1. CASE hold.pending = l /\ ~Gap(hold, now)
  <2>1. streak.level = l /\ hold.hits <= streak.count /\ hold.everFrame
    BY <1>1, <1>t DEF CountInv, CountedIsStreak
  <2>2. sinceFrame <= StaleMs
    BY <1>1, <1>t, <2>1, HoldAssumption DEF CountInv, GapSeen, Ages
  <2>3. Extend(streak, l) =
          [streak EXCEPT !.count = IF streak.count < MaxHits
                                     THEN streak.count + 1 ELSE streak.count]
    BY <2>1, <2>2, <1>t DEF Extend
  <2>4. QED
    BY <1>1, <1>t, <2>1, <2>3, HoldAssumption DEF Counting
<1>2. CASE ~(hold.pending = l /\ ~Gap(hold, now))
  <2>1. Counting(hold, now, l) = 1
    BY <1>2 DEF Counting
  <2>2. Extend(streak, l).level = l /\ Extend(streak, l).count >= 1
    BY <1>t, HoldAssumption DEF Extend
  <2>3. QED
    BY <2>1, <2>2
<1>3. QED
  BY <1>1, <1>2

LEMMA CountInvariant ==
  ASSUME SilenceBelowClock
  PROVE  Spec => []CountInv
<1>1. Init => CountInv
  BY DEF Init, HoldReset, CountInv, GapSeen, CountedIsStreak
<1>2. IInv /\ StreakInv /\ LinkInv /\ CountInv /\ [Next]_vars => CountInv'
  <2> SUFFICES ASSUME IInv, StreakInv, LinkInv, CountInv, [Next]_vars
               PROVE  CountInv'
    OBVIOUS
  <2>t. /\ now \in Clock /\ hold \in Hold /\ sinceFrame \in Ages
        /\ hold.lastFrame \in Clock /\ hadBytes \in BOOLEAN
        /\ hold.latched \in Levels
    BY DEF IInv, TypeOK, Hold
  <2>wake. ASSUME NEW dt \in 1..MaxGap, Wake(dt)
           PROVE  CountInv'
    <3>1. /\ now' = Later(now, dt) /\ sinceFrame' = Older(sinceFrame, dt)
          /\ hold' = hold /\ streak' = streak /\ phase = "sleep"
      BY <2>wake DEF Wake
    <3>2. ASSUME hold.everFrame, sinceFrame' > StaleMs
          PROVE  Gap(hold, now')
      <4>1. sinceFrame <= MaxSilence /\ Age(now, hold.lastFrame) = sinceFrame
        BY <2>t, <3>1, <3>2, HoldAssumption
           DEF StreakInv, FrameAgeIsTrue, LinkInv, PolledInBound,
               SilenceBelowClock, Ages
      <4>2. sinceFrame + dt < ClockMod
        BY <2>t, <4>1, HoldAssumption DEF SilenceBelowClock, Ages
      <4>3. Age(now', hold.lastFrame) = sinceFrame + dt
        BY <2>t, <3>1, <4>1, <4>2, LaterAge
      <4>4. sinceFrame' <= sinceFrame + dt /\ sinceFrame' \in Ages
        BY <2>t, <3>1, OlderGrows, OlderIsAge
      <4>5. sinceFrame + dt > StaleMs
        BY <2>t, <3>2, <4>4, HoldAssumption DEF Ages
      <4>6. QED
        BY <3>2, <4>3, <4>5 DEF Gap
    <3>3. QED
      BY <3>1, <3>2 DEF CountInv, GapSeen, CountedIsStreak, Gap
  <2>noise. CASE ReadNoise
    BY <2>noise DEF ReadNoise, CountInv, GapSeen, CountedIsStreak, Gap
  <2>frame. ASSUME NEW l \in Levels, ReadFrame(l)
            PROVE  CountInv'
    <3>1. /\ hold' = FrameUpdate(hold, now, Instant(l)) /\ sinceFrame' = 0
          /\ streak' = Extend(streak, l)
      BY <2>frame DEF ReadFrame
    <3>2. GapSeen'
      BY <3>1, HoldAssumption DEF GapSeen
    <3>3. ASSUME hold'.latched = None, hold'.pending # None
          PROVE  /\ hold'.pending = streak'.level
                 /\ hold'.hits <= streak'.count
                 /\ hold'.everFrame
      <4>1. /\ hold'.everFrame /\ l # None
            /\ Supports(hold, l) => hold'.latched = l
            /\ ~Supports(hold, l) =>
                 /\ hold'.pending = l
                 /\ hold'.hits = Counting(hold, now, l)
                 /\ hold'.latched = l \/ hold'.latched = hold.latched
        BY <2>t, <3>1, <3>3, FrameCounts
      <4>2. /\ hold.latched = None /\ hold'.pending = l
            /\ hold'.hits = Counting(hold, now, l)
        BY <3>3, <4>1
      <4>3. l \in Threats
        BY <4>1 DEF Threats, Levels, None
      <4>4. QED
        BY <3>1, <4>1, <4>2, <4>3, CountIsBounded DEF IInv
    <3>4. QED
      BY <3>2, <3>3 DEF CountInv, CountedIsStreak
  <2>poll. CASE Poll
    <3>1. /\ hold' = PollUpdate(hold, now, hadBytes) /\ sinceFrame' = sinceFrame
          /\ now' = now
          /\ streak' = IF hold.latched # None /\ hold'.latched = None
                          /\ ~RunSurvives
                         THEN [level |-> None, count |-> 0] ELSE streak
      BY <2>poll DEF Poll
    <3>2. /\ hold'.everFrame = hold.everFrame
          /\ hold'.lastFrame = hold.lastFrame
          /\ \/ SameCount(hold', hold)
             \/ hold.latched # None /\ hold'.latched = None
          /\ hold.latched # None /\ hold'.latched = None =>
               hold'.pending = None
      BY <2>t, <3>1, PollCounts
    <3>3. SameLatch(hold', hold) \/ hold.latched # None
      BY <2>t, <3>1, PollFacts
    <3>4. GapSeen'
      BY <3>1, <3>2 DEF CountInv, GapSeen, Gap
    <3>5. CASE hold.latched = None
      BY <3>1, <3>2, <3>3, <3>4, <3>5
         DEF CountInv, CountedIsStreak, SameLatch, SameCount
    <3>6. CASE hold.latched # None
      BY <3>2, <3>4, <3>6 DEF CountInv, CountedIsStreak
    <3>7. QED
      BY <3>5, <3>6
  <2>idle. CASE UNCHANGED vars
    BY <2>idle DEF vars, history, CountInv, GapSeen, CountedIsStreak, Gap
  <2> QED
    BY <2>wake, <2>noise, <2>frame, <2>poll, <2>idle DEF Next
<1>3. QED
  BY <1>1, <1>2, InvariantHolds, StreakInvariant, LinkInvariant, PTL DEF Spec

(* An alarm appears out of silence only after ConfirmFrames equal frames in *)
(* a row without a stale gap, in true time.                                 *)
THEOREM AlarmIsConfirmed ==
  ASSUME SilenceBelowClock
  PROVE  Spec => ConfirmedBeforeAlarm
<1>1. IInv /\ CountInv /\ [Next]_vars
        => [hold.latched = None /\ hold'.latched # None =>
              /\ streak'.level = hold'.latched
              /\ streak'.count >= ConfirmFrames]_vars
  <2> SUFFICES ASSUME IInv, CountInv, [Next]_vars,
                      hold.latched = None, hold'.latched # None
               PROVE  streak'.level = hold'.latched
                      /\ streak'.count >= ConfirmFrames
    OBVIOUS
  <2>t. /\ now \in Clock /\ hold \in Hold /\ hadBytes \in BOOLEAN
        /\ hold.hits \in 0..MaxHits
        /\ streak \in [level: Levels, count: 0..MaxHits]
    BY DEF IInv, TypeOK, Hold
  (* Neither waiting, noise nor a poll latches a level out of silence.     *)
  <2>1. PICK l \in Levels : ReadFrame(l)
    <3>1. ~Poll
      <4>1. Poll => SameLatch(hold', hold)
        BY <2>t, PollFacts DEF Poll
      <4>2. QED
        BY <4>1 DEF SameLatch
    <3>2. ~ReadNoise /\ ~\E dt \in 1..MaxGap : Wake(dt)
      BY DEF ReadNoise, Wake
    <3>3. ~UNCHANGED vars
      BY DEF vars
    <3>4. QED
      BY <3>1, <3>2, <3>3 DEF Next
  <2>2. /\ hold' = FrameUpdate(hold, now, Instant(l))
        /\ streak' = Extend(streak, l)
    BY <2>1 DEF ReadFrame
  <2>3. l \in Threats
    <3>1. l = None => SameLatch(hold', hold) \/ hold'.latched = None
      BY <2>t, <2>2, FrameFacts
    <3>2. QED
      BY <3>1 DEF SameLatch, Threats, Levels, None
  <2>4. ~Supports(hold, l)
    BY <2>3 DEF Supports, Threats, None
  <2>5. hold'.latched =
          IF Counting(hold, now, l) >= ConfirmFrames THEN l ELSE None
    <3>1. l # None
      BY <2>3 DEF Threats, None
    <3>2. QED
      BY <2>t, <2>2, <2>4, <3>1, FrameCounts
  <2>6. hold'.latched = l /\ Counting(hold, now, l) >= ConfirmFrames
    BY <2>5
  <2>7. /\ Extend(streak, l).level = l
        /\ Counting(hold, now, l) <= Extend(streak, l).count
    BY <2>3, CountIsBounded DEF IInv
  <2>8. /\ Counting(hold, now, l) \in Nat /\ Extend(streak, l).count \in Nat
    BY <2>t, HoldAssumption DEF Counting, Extend
  <2>9. QED
    BY <2>2, <2>6, <2>7, <2>8, HoldAssumption
<1>2. QED
  BY <1>1, InvariantHolds, CountInvariant, PTL DEF Spec, ConfirmedBeforeAlarm
=============================================================================
