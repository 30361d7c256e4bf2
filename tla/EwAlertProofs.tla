---------------------------- MODULE EwAlertProofs ----------------------------
(***************************************************************************)
(* Proofs about EwAlert, for every number of levels, every ring and tick   *)
(* size: the event ring accounts for every change of the snapshot, the     *)
(* manual tone is the external alert, and an undisturbed frame shows what  *)
(* is heard.                                                               *)
(***************************************************************************)
EXTENDS EwAlert, TLAPS

(* A thread between the check of a command and its execution has one. *)
CheckedCommand == upc \in {"actuate", "command"} => command \in Levels

(* The identities that are handed out bound those in use. *)
IdsInOrder ==
  /\ snap.id <= nextId
  /\ taken.last <= snap.id
  /\ \A i \in 1..Len(ring) : ring[i].id <= snap.id

(* The floor is the level of the decision that is on its way or published. *)
FloorIsDecided ==
  /\ IF wpc = "publish" THEN floor = wdec.level ELSE floor = snap.level
  /\ ~running => wpc = "off"

(* Nothing of this frame has touched the page since its last render. *)
DrawnAsRendered ==
  upc = "draw" /\ ready /\ ~painted => screen = Shown(rendered)

IInv ==
  /\ TypeOK
  /\ CheckedCommand
  /\ IdsInOrder
  /\ RingTracksSnapshot
  /\ ManualMatchesExternal
  /\ FloorIsDecided
  /\ DrawnAsRendered

-----------------------------------------------------------------------------
(* What the steps that move events do to the ring. *)

LEMMA PushedRing ==
  ASSUME IInv, NEW e \in Event, Push(e)
  PROVE  /\ ring' \in Seq(Event)
         /\ dropped' \in Nat
         /\ \E k \in {0, 1} :
              /\ k <= Len(ring)
              /\ dropped' = dropped + k
              /\ Len(ring') = Len(ring) + 1 - k
              /\ Len(ring') <= EventCap
              /\ \A i \in 1..Len(ring) - k : ring'[i] = ring[i + k]
              /\ ring'[Len(ring')] = e
<1>0. ring \in Seq(Event) /\ Len(ring) <= EventCap /\ dropped \in Nat
  BY DEF IInv, TypeOK
<1>1. CASE Len(ring) < EventCap
  <2>1. ring' = Append(ring, e) /\ dropped' = dropped
    BY <1>1 DEF Push
  <2>2. Len(ring') = Len(ring) + 1 /\ \A i \in 1..Len(ring) : ring'[i] = ring[i]
    BY <1>0, <2>1
  <2> QED
    BY <1>0, <1>1, <2>1, <2>2, AlertAssumption
<1>2. CASE Len(ring) = EventCap
  <2>1. ring' = Append(Tail(ring), e) /\ dropped' = dropped + 1
    BY <1>2 DEF Push
  <2>2. ring # <<>> /\ Tail(ring) \in Seq(Event) /\ Len(Tail(ring)) = Len(ring) - 1
    BY <1>0, <1>2, AlertAssumption
  <2>3. \A i \in 1..Len(ring) - 1 : Tail(ring)[i] = ring[i + 1]
    BY <1>0, <2>2
  <2>4. /\ Len(ring') = Len(ring) /\ ring' \in Seq(Event)
        /\ ring'[Len(ring)] = e
        /\ \A i \in 1..Len(ring) - 1 : ring'[i] = Tail(ring)[i]
    BY <1>0, <2>1, <2>2
  <2> QED
    BY <1>0, <1>2, <2>1, <2>2, <2>3, <2>4, AlertAssumption
<1> QED
  BY <1>0, <1>1, <1>2, AlertAssumption

LEMMA TakenRing ==
  ASSUME IInv, ring # <<>>, ring' = Tail(ring)
  PROVE  /\ ring' \in Seq(Event)
         /\ Len(ring') = Len(ring) - 1
         /\ \A i \in 1..Len(ring') : ring'[i] = ring[i + 1]
         /\ Head(ring) = ring[1] /\ Head(ring) \in Event
BY DEF IInv, TypeOK

-----------------------------------------------------------------------------
(* The initial states, and the three kinds of step. *)

LEMMA InitSound == Init => IInv
<1> SUFFICES ASSUME Init PROVE IInv
  OBVIOUS
<1> USE AlertAssumption
<1>1. TypeOK
  <2> USE DEF Init, None
  <2>1. /\ running \in BOOLEAN /\ wpc \in {"off", "decide", "publish"}
        /\ upc \in UiSteps /\ ready \in BOOLEAN /\ painted \in BOOLEAN
    BY DEF UiSteps
  <2>2. /\ wdec \in Decision /\ snap \in [level: Levels, link: Links, id: Ids]
        /\ ext \in [active: BOOLEAN, level: Levels]
        /\ taken \in [count: Nat, last: Ids]
    BY DEF Decision, Levels, Ids
  <2>3. ring \in Seq(Event) /\ Len(ring) <= EventCap
    OBVIOUS
  <2>4. /\ nextId \in Ids /\ current \in Ids /\ left \in 0..TickEvents
        /\ floor \in Levels /\ manual \in Levels /\ screen \in Levels
        /\ rendered \in Levels /\ dropped \in Nat /\ changes \in Nat
    BY DEF Ids, Levels
  <2>5. command \in Request /\ slot \in Request /\ shell \in Request
    BY DEF Request
  <2> QED
    BY <2>1, <2>2, <2>3, <2>4, <2>5 DEF TypeOK
<1>2. RingTracksSnapshot
  BY DEF Init, RingTracksSnapshot
<1>3. IdsInOrder
  BY DEF Init, IdsInOrder
<1>4. CheckedCommand /\ DrawnAsRendered
  BY DEF Init, CheckedCommand, DrawnAsRendered
<1>5. ManualMatchesExternal /\ FloorIsDecided
  BY DEF Init, ManualMatchesExternal, FloorIsDecided
<1> QED
  BY <1>1, <1>2, <1>3, <1>4, <1>5 DEF IInv

LEMMA MaxOfTwo ==
  ASSUME NEW a \in Nat, NEW b \in Nat
  PROVE  Max({a, b}) = IF a >= b THEN a ELSE b
BY DEF Max

-----------------------------------------------------------------------------
(* Every step keeps the types, the ring's account and the frame's picture. *)

LEMMA DecisionSound ==
  ASSUME IInv, NEW d \in Decision, Decide(d)
  PROVE  IInv'
<1> USE DEF Decide, radar, ui
<1>1. TypeOK'
  BY DEF IInv, TypeOK, Decision
<1>2. RingTracksSnapshot' /\ IdsInOrder'
  BY DEF IInv, RingTracksSnapshot, IdsInOrder, Last
<1>3. CheckedCommand' /\ ManualMatchesExternal' /\ FloorIsDecided'
  BY DEF IInv, CheckedCommand, ManualMatchesExternal, FloorIsDecided
<1>4. DrawnAsRendered'
  BY DEF IInv, DrawnAsRendered, Shown
<1> QED
  BY <1>1, <1>2, <1>3, <1>4 DEF IInv

LEMMA PublicationSound ==
  ASSUME IInv, PublishSnapshot
  PROVE  IInv'
<1> USE AlertAssumption DEF PublishSnapshot, ui
<1>1. CASE ~IsChange(wdec)
  <2>1. UNCHANGED <<running, wdec, floor, ui, slot, shell, nextId, snap, ring,
                    dropped, changes>> /\ wpc = "publish" /\ wpc' = "decide"
    BY <1>1
  <2>2. floor' = snap'.level
    BY <1>1, <2>1 DEF IInv, FloorIsDecided, IsChange
  <2>3. TypeOK'
    BY <2>1 DEF IInv, TypeOK
  <2>4. RingTracksSnapshot' /\ IdsInOrder'
    BY <2>1 DEF IInv, RingTracksSnapshot, IdsInOrder, Last
  <2>5. CheckedCommand' /\ ManualMatchesExternal' /\ FloorIsDecided'
    BY <2>1, <2>2 DEF IInv, CheckedCommand, ManualMatchesExternal,
       FloorIsDecided
  <2>6. DrawnAsRendered'
    BY <2>1 DEF IInv, DrawnAsRendered, Shown
  <2> QED
    BY <2>3, <2>4, <2>5, <2>6 DEF IInv
<1>2. CASE IsChange(wdec)
  <2> DEFINE e == [id |-> nextId', level |-> wdec.level]
  <2>1. /\ nextId < MaxId /\ nextId' = nextId + 1
        /\ snap' = [level |-> wdec.level, link |-> wdec.link, id |-> nextId']
        /\ Push(e) /\ changes' = changes + 1
        /\ wpc = "publish" /\ wpc' = "decide"
        /\ UNCHANGED <<running, wdec, floor, ui, slot, shell>>
    BY <1>2
  <2>2. e \in Event /\ nextId' \in Ids /\ wdec \in Decision
    BY <2>1 DEF IInv, TypeOK, Event, Ids, Decision
  <2>3. PICK k \in {0, 1} :
          /\ k <= Len(ring)
          /\ dropped' = dropped + k
          /\ Len(ring') = Len(ring) + 1 - k
          /\ Len(ring') <= EventCap
          /\ \A i \in 1..Len(ring) - k : ring'[i] = ring[i + k]
          /\ ring'[Len(ring')] = e
    BY <2>1, <2>2, PushedRing
  <2>4. ring' \in Seq(Event) /\ dropped' \in Nat
    BY <2>1, <2>2, PushedRing
  <2> HIDE DEF e
  <2>5. TypeOK'
    <3>1. snap' \in [level: Levels, link: Links, id: Ids]
      BY <2>1, <2>2 DEF Decision
    <3>2. changes' \in Nat
      BY <2>1 DEF IInv, TypeOK
    <3> QED
      BY <2>1, <2>2, <2>3, <2>4, <3>1, <3>2 DEF IInv, TypeOK
  <2>6. e.id = nextId + 1 /\ snap'.id = nextId + 1 /\ e.level = snap'.level
    BY <2>1 DEF e
  <2>7. /\ Len(ring) \in Nat /\ nextId \in Nat /\ snap.id \in Nat
        /\ snap.id <= nextId /\ taken.last <= snap.id /\ taken.last \in Nat
        /\ taken' = taken
        /\ \A i \in 1..Len(ring) : ring[i].id <= snap.id /\ ring[i].id \in Nat
    <3>1. ring \in Seq(Event) /\ Ids \subseteq Nat /\ nextId \in Ids
          /\ snap.id \in Ids /\ taken.last \in Ids
      BY AlertAssumption DEF IInv, TypeOK, Ids
    <3>2. \A i \in 1..Len(ring) : ring[i] \in Event
      BY <3>1
    <3>3. \A i \in 1..Len(ring) : ring[i].id \in Nat
      BY <3>1, <3>2 DEF Event
    <3> QED
      <4>1. /\ snap.id <= nextId /\ taken.last <= snap.id
            /\ \A i \in 1..Len(ring) : ring[i].id <= snap.id
        BY DEF IInv, IdsInOrder
      <4>2. taken' = taken
        BY <2>1 DEF ui
      <4> QED
        <5>1. Len(ring) \in Nat
          BY <3>1
        <5>2. nextId \in Nat /\ snap.id \in Nat /\ taken.last \in Nat
          BY <3>1
        <5> QED
          BY ONLY <3>3, <4>1, <4>2, <5>1, <5>2
  <2>8. \A i \in 1..Len(ring) - k : ring'[i].id <= snap.id /\ ring'[i].id \in Nat
    <3> TAKE i \in 1..Len(ring) - k
    <3>1. i + k \in 1..Len(ring)
      BY <2>3, <2>7
    <3>2. ring'[i] = ring[i + k]
      BY <2>3
    <3> QED
      BY <3>1, <3>2, <2>7
  <2>9. IdsInOrder'
    <3>1. ASSUME NEW i \in 1..Len(ring') PROVE ring'[i].id <= snap'.id
      <4>1. i \in 1..Len(ring) - k \/ i = Len(ring')
        BY <2>3, <2>7
      <4>2. CASE i \in 1..Len(ring) - k
        BY <4>2, <2>6, <2>7, <2>8
      <4>3. CASE i = Len(ring')
        BY <4>3, <2>3, <2>6, <2>7
      <4> QED
        BY <4>1, <4>2, <4>3
    <3>2. snap'.id <= nextId' /\ taken'.last <= snap'.id
      BY <2>1, <2>6, <2>7
    <3> QED
      BY <3>1, <3>2 DEF IdsInOrder
  <2>10. \A i \in 1..Len(ring') :
           ring'[i].id > IF i = 1 THEN taken'.last ELSE ring'[i - 1].id
    <3> SUFFICES ASSUME NEW i \in 1..Len(ring')
                 PROVE  ring'[i].id > IF i = 1 THEN taken.last ELSE ring'[i - 1].id
      BY <2>7
    <3>0. \A j \in 1..Len(ring) :
            ring[j].id > IF j = 1 THEN taken.last ELSE ring[j - 1].id
      BY DEF IInv, RingTracksSnapshot
    <3>1. CASE i = Len(ring')
      <4>1. i # 1 => ring'[i - 1].id <= snap.id /\ ring'[i - 1].id \in Nat
        BY <3>1, <2>3, <2>7, <2>8
      <4>2. ring'[i].id = nextId + 1
        BY <3>1, <2>3, <2>6
      <4> HIDE DEF e
      <4> QED
        BY ONLY <4>1, <4>2, <2>7
    <3>2. CASE i # Len(ring')
      <4>1. i \in 1..Len(ring) - k /\ i + k \in 1..Len(ring)
        BY <3>2, <2>3, <2>7
      <4>2. ring'[i] = ring[i + k]
        BY <4>1, <2>3
      <4>3. CASE i = 1 /\ k = 0
        BY <4>1, <4>2, <4>3, <3>0
      <4>4. CASE i = 1 /\ k = 1
        <5>1. ring[1].id > taken.last /\ ring[2].id > ring[1].id
          BY <4>1, <4>4, <3>0, <2>7
        <5> QED
          BY <4>1, <4>2, <4>4, <5>1, <2>7
      <4>5. CASE i # 1
        <5>1. i - 1 \in 1..Len(ring) - k
          BY <4>1, <4>5, <2>7
        <5>2. ring'[i - 1] = ring[i + k - 1]
          BY <5>1, <2>3, <2>7
        <5>3. i + k # 1
          BY <4>5, <2>7
        <5> QED
          BY <4>1, <4>2, <4>5, <5>2, <5>3, <3>0
      <4> QED
        BY <2>3, <4>3, <4>4, <4>5
    <3> QED
      BY <3>1, <3>2
  <2>11. RingTracksSnapshot'
    <3>1. changes' = taken'.count + Len(ring') + dropped'
      <4>1. changes = taken.count + Len(ring) + dropped
        BY DEF IInv, RingTracksSnapshot
      <4>2. dropped \in Nat /\ changes \in Nat /\ taken.count \in Nat
        BY DEF IInv, TypeOK
      <4> QED
        <5>1. changes' = changes + 1 /\ taken'.count = taken.count
          BY <2>1, <2>7
        <5>2. Len(ring') = Len(ring) + 1 - k /\ dropped' = dropped + k
          BY <2>3
        <5>3. Len(ring) \in Nat /\ k \in {0, 1}
          BY <2>7
        <5> QED
          BY ONLY <4>1, <4>2, <5>1, <5>2, <5>3
    <3>2. Last(ring') = e
      BY <2>3 DEF Last
    <3> QED
      BY <3>1, <3>2, <2>6, <2>10, <2>1 DEF RingTracksSnapshot
  <2>12. CheckedCommand' /\ ManualMatchesExternal'
    BY <2>1 DEF IInv, CheckedCommand, ManualMatchesExternal
  <2>13. FloorIsDecided'
    BY <2>1 DEF IInv, FloorIsDecided
  <2>14. DrawnAsRendered'
    BY <2>1 DEF IInv, DrawnAsRendered, Shown
  <2> QED
    BY <2>5, <2>9, <2>11, <2>12, <2>13, <2>14 DEF IInv
<1> QED
  BY <1>1, <1>2

(* An event that is taken leaves the ring, and may be rendered. *)
LEMMA EventSound ==
  ASSUME IInv, TakeEvent
  PROVE  IInv'
<1> USE AlertAssumption DEF TakeEvent
<1>0. /\ ring # <<>> /\ ring' = Tail(ring) /\ left > 0 /\ left' = left - 1
      /\ upc = "events"
      /\ taken' = [count |-> taken.count + 1, last |-> Head(ring).id]
      /\ screen' \in {screen, Shown(snap.level), None}
      /\ UNCHANGED <<running, wpc, wdec, snap, dropped, floor, changes, upc, ready,
                     current, command, ext, manual, rendered, painted, nextId,
                     slot, shell>>
  BY Zenon DEF RenderSafety, Paint, None
<1>1. /\ ring' \in Seq(Event) /\ Len(ring') = Len(ring) - 1
      /\ \A i \in 1..Len(ring') : ring'[i] = ring[i + 1]
      /\ Head(ring) = ring[1] /\ Head(ring) \in Event
  BY <1>0, TakenRing
<1>2. ring \in Seq(Event) /\ Len(ring) \in Nat \ {0}
  BY <1>0 DEF IInv, TypeOK
<1>3. screen' \in Levels
  BY <1>0 DEF IInv, TypeOK, Shown, Levels, None
<1>4. taken' \in [count: Nat, last: Ids]
  <2>1. taken.count \in Nat /\ Head(ring).id \in Ids
    BY <1>1 DEF IInv, TypeOK, Event
  <2> QED
    BY <1>0, <2>1
<1>5. TypeOK'
  <2>1. left' \in 0..TickEvents
    BY <1>0 DEF IInv, TypeOK
  <2> QED
    BY <1>0, <1>1, <1>2, <1>3, <1>4, <2>1 DEF IInv, TypeOK
<1>6. \A i \in 1..Len(ring) :
        ring[i].id > IF i = 1 THEN taken.last ELSE ring[i - 1].id
  BY DEF IInv, RingTracksSnapshot
<1>7. IdsInOrder'
  BY <1>0, <1>1, <1>2 DEF IInv, IdsInOrder
<1>8. \A i \in 1..Len(ring') :
        ring'[i].id > IF i = 1 THEN taken'.last ELSE ring'[i - 1].id
  <2> TAKE i \in 1..Len(ring')
  <2>1. i + 1 \in 1..Len(ring) /\ i + 1 # 1 /\ (i + 1) - 1 = i
    BY <1>1, <1>2
  <2>2. ring'[i] = ring[i + 1] /\ ring[i + 1].id > ring[i].id
    BY <1>1, <1>6, <2>1
  <2>3. CASE i = 1
    BY <1>0, <1>1, <2>2, <2>3
  <2>4. CASE i # 1
    <3>1. i - 1 \in 1..Len(ring') /\ (i - 1) + 1 = i
      BY <1>1, <1>2, <2>4
    <3> QED
      BY <1>1, <2>2, <2>4, <3>1
  <2> QED
    BY <2>3, <2>4
<1>9. RingTracksSnapshot'
  <2>1. changes' = taken'.count + Len(ring') + dropped'
    <3>1. changes = taken.count + Len(ring) + dropped
      BY DEF IInv, RingTracksSnapshot
    <3>2. dropped \in Nat /\ taken.count \in Nat
      BY DEF IInv, TypeOK
    <3> QED
      BY <1>0, <1>1, <1>2, <3>1, <3>2
  <2>2. ring' # <<>> => Last(ring') = Last(ring)
    <3>1. ring' # <<>> => Len(ring') \in 1..Len(ring') /\ Len(ring') + 1 = Len(ring)
      BY <1>1, <1>2
    <3> QED
      BY <1>1, <3>1 DEF Last
  <2>3. Last(ring).id = snap.id /\ Last(ring).level = snap.level
    BY <1>0 DEF IInv, RingTracksSnapshot
  <2> QED
    BY <1>0, <1>8, <2>1, <2>2, <2>3 DEF RingTracksSnapshot
<1>10. CheckedCommand' /\ ManualMatchesExternal' /\ FloorIsDecided'
  BY <1>0 DEF IInv, CheckedCommand, ManualMatchesExternal, FloorIsDecided
<1>11. DrawnAsRendered'
  BY <1>0 DEF DrawnAsRendered
<1> QED
  BY <1>5, <1>7, <1>9, <1>10, <1>11 DEF IInv

(* Steps of the worker's start and of the UI thread that touch neither the  *)
(* ring nor the identities keep what is said of them.                       *)
LEMMA RingUntouched ==
  ASSUME IInv, UNCHANGED <<snap, ring, dropped, changes, taken>>,
         nextId' \in Ids, nextId' >= nextId
  PROVE  RingTracksSnapshot' /\ IdsInOrder'
<1>1. snap.id \in Nat /\ nextId \in Nat /\ nextId' \in Nat
  BY AlertAssumption DEF IInv, TypeOK, Ids
<1> QED
  BY <1>1 DEF IInv, RingTracksSnapshot, IdsInOrder, Last

LEMMA StartSound ==
  ASSUME IInv, SafetyStart
  PROVE  IInv'
<1> USE DEF SafetyStart, ui
<1>1. TypeOK'
  BY DEF IInv, TypeOK
<1>2. RingTracksSnapshot' /\ IdsInOrder'
  BY RingUntouched, AlertAssumption DEF IInv, TypeOK, Ids
<1>3. CheckedCommand' /\ ManualMatchesExternal' /\ DrawnAsRendered'
  BY DEF IInv, CheckedCommand, ManualMatchesExternal, DrawnAsRendered, Shown
<1>4. FloorIsDecided'
  BY DEF IInv, FloorIsDecided
<1> QED
  BY <1>1, <1>2, <1>3, <1>4 DEF IInv

LEMMA ShownIsALevel ==
  ASSUME IInv
  PROVE  Shown(snap.level) \in Levels
BY DEF IInv, TypeOK, Shown

LEMMA UiSound ==
  ASSUME IInv, UiFrame
  PROVE  IInv'
<1> USE DEF radar
<1>1. CASE TickSnapshot
  <2> USE <1>1 DEF TickSnapshot, Step
  <2>1. TypeOK'
    BY AlertAssumption DEF IInv, TypeOK, UiSteps
  <2>2. RingTracksSnapshot' /\ IdsInOrder'
    BY RingUntouched, AlertAssumption DEF IInv, TypeOK, Ids
  <2>3. CheckedCommand' /\ ManualMatchesExternal' /\ FloorIsDecided'
    BY DEF IInv, CheckedCommand, ManualMatchesExternal, FloorIsDecided
  <2>4. DrawnAsRendered'
    BY DEF DrawnAsRendered
  <2> QED
    BY <2>1, <2>2, <2>3, <2>4 DEF IInv
<1>2. CASE EventsDone
  <2> USE <1>2 DEF EventsDone, Step
  <2>1. TypeOK'
    BY AlertAssumption DEF IInv, TypeOK, UiSteps, Ids
  <2>2. RingTracksSnapshot' /\ IdsInOrder'
    BY RingUntouched, AlertAssumption DEF IInv, TypeOK, Ids
  <2>3. CheckedCommand' /\ ManualMatchesExternal' /\ FloorIsDecided'
    BY DEF IInv, CheckedCommand, ManualMatchesExternal, FloorIsDecided
  <2>4. DrawnAsRendered'
    BY DEF DrawnAsRendered
  <2> QED
    BY <2>1, <2>2, <2>3, <2>4 DEF IInv
<1>3. CASE PollNothing
  <2> USE <1>3 DEF PollNothing, Step
  <2>1. TypeOK'
    BY AlertAssumption DEF IInv, TypeOK, UiSteps
  <2>2. RingTracksSnapshot' /\ IdsInOrder'
    BY RingUntouched, AlertAssumption DEF IInv, TypeOK, Ids
  <2>3. CheckedCommand' /\ ManualMatchesExternal' /\ FloorIsDecided'
    BY DEF IInv, CheckedCommand, ManualMatchesExternal, FloorIsDecided
  <2>4. DrawnAsRendered'
    BY DEF DrawnAsRendered
  <2> QED
    BY <2>1, <2>2, <2>3, <2>4 DEF IInv
<1>4. CASE PollRequest
  <2> USE <1>4 DEF PollRequest, Step, Permitted
  <2>1. TypeOK'
    BY AlertAssumption DEF IInv, TypeOK, UiSteps, Request
  <2>2. RingTracksSnapshot' /\ IdsInOrder'
    BY RingUntouched, AlertAssumption DEF IInv, TypeOK, Ids
  <2>3. CheckedCommand' /\ ManualMatchesExternal' /\ FloorIsDecided'
    BY DEF IInv, TypeOK, CheckedCommand, ManualMatchesExternal, FloorIsDecided,
       Request
  <2>4. DrawnAsRendered'
    BY DEF DrawnAsRendered
  <2> QED
    BY <2>1, <2>2, <2>3, <2>4 DEF IInv
<1>5. CASE Actuate
  <2> USE <1>5 DEF Actuate, Step, External, Paint
  <2>1. TypeOK'
    BY AlertAssumption DEF IInv, TypeOK, UiSteps, CheckedCommand, Request
  <2>2. RingTracksSnapshot' /\ IdsInOrder'
    BY RingUntouched, AlertAssumption DEF IInv, TypeOK, Ids
  <2>3. CheckedCommand' /\ ManualMatchesExternal' /\ FloorIsDecided'
    BY DEF IInv, CheckedCommand, ManualMatchesExternal, FloorIsDecided
  <2>4. DrawnAsRendered'
    BY DEF DrawnAsRendered
  <2> QED
    BY <2>1, <2>2, <2>3, <2>4 DEF IInv
<1>6. CASE TickRender
  <2> USE <1>6 DEF TickRender, Step, RenderSafety, Paint
  <2>0. Shown(snap.level) \in Levels
    BY ShownIsALevel
  <2>1. TypeOK'
    BY AlertAssumption, <2>0 DEF IInv, TypeOK, UiSteps
  <2>2. RingTracksSnapshot' /\ IdsInOrder'
    BY RingUntouched, AlertAssumption DEF IInv, TypeOK, Ids
  <2>3. CheckedCommand' /\ ManualMatchesExternal' /\ FloorIsDecided'
    BY DEF IInv, CheckedCommand, ManualMatchesExternal, FloorIsDecided
  <2>4. DrawnAsRendered'
    BY DEF DrawnAsRendered
  <2> QED
    BY <2>1, <2>2, <2>3, <2>4 DEF IInv
<1>7. CASE SerialNothing
  <2> USE <1>7 DEF SerialNothing, Step
  <2>1. TypeOK'
    BY AlertAssumption DEF IInv, TypeOK, UiSteps
  <2>2. RingTracksSnapshot' /\ IdsInOrder'
    BY RingUntouched, AlertAssumption DEF IInv, TypeOK, Ids
  <2>3. CheckedCommand' /\ ManualMatchesExternal' /\ FloorIsDecided'
    BY DEF IInv, CheckedCommand, ManualMatchesExternal, FloorIsDecided
  <2>4. DrawnAsRendered'
    BY DEF DrawnAsRendered
  <2> QED
    BY <2>1, <2>2, <2>3, <2>4 DEF IInv
<1>8. CASE \E l \in Levels : SerialAlert(l)
  <2> USE <1>8 DEF SerialAlert, Step, Permitted
  <2>1. TypeOK'
    BY AlertAssumption DEF IInv, TypeOK, UiSteps, Request, Ids
  <2>2. RingTracksSnapshot' /\ IdsInOrder'
    BY RingUntouched, AlertAssumption DEF IInv, TypeOK, Ids
  <2>3. CheckedCommand' /\ ManualMatchesExternal' /\ FloorIsDecided'
    BY DEF IInv, CheckedCommand, ManualMatchesExternal, FloorIsDecided
  <2>4. DrawnAsRendered'
    BY DEF DrawnAsRendered
  <2> QED
    BY <2>1, <2>2, <2>3, <2>4 DEF IInv
<1>9. CASE SerialActuate
  <2> USE <1>9 DEF SerialActuate, Step, External, Paint
  <2>0. command \in Levels /\ None \in Levels /\ Levels \subseteq Request
    BY AlertAssumption DEF IInv, CheckedCommand, Levels, None, Request
  <2>a. ASSUME ready PROVE TypeOK' /\ ManualMatchesExternal'
    <3>1. /\ ext' = [active |-> command # None, level |-> command]
          /\ screen' = command /\ manual' = command /\ slot' = slot
      BY <2>a
    <3>2. TypeOK' /\ ManualMatchesExternal'
      BY <2>0, <3>1 DEF IInv, TypeOK, UiSteps, Request, ManualMatchesExternal
    <3> QED
      BY <3>2
  <2>b. ASSUME ~ready PROVE TypeOK' /\ ManualMatchesExternal'
    <3>1. slot' \in {slot, command} /\ UNCHANGED <<ext, screen, manual>>
      BY <2>b
    <3>2. TypeOK'
      BY <2>0, <3>1 DEF IInv, TypeOK, UiSteps, Request
    <3>3. ManualMatchesExternal'
      BY <3>1 DEF IInv, ManualMatchesExternal
    <3> QED
      BY <3>2, <3>3
  <2>1. TypeOK'
    BY <2>a, <2>b
  <2>2. RingTracksSnapshot' /\ IdsInOrder'
    BY RingUntouched, AlertAssumption DEF IInv, TypeOK, Ids
  <2>3. CheckedCommand'
    BY DEF CheckedCommand
  <2>4. ManualMatchesExternal'
    BY <2>a, <2>b
  <2>5. FloorIsDecided'
    BY DEF IInv, FloorIsDecided
  <2>6. DrawnAsRendered'
    BY DEF DrawnAsRendered
  <2> QED
    BY <2>1, <2>2, <2>3, <2>4, <2>5, <2>6 DEF IInv
<1>10. CASE PageTick
  <2> USE <1>10 DEF PageTick, Step, RenderSafety, Paint
  <2>0. Shown(snap.level) \in Levels
    BY ShownIsALevel
  <2>1. TypeOK'
    BY AlertAssumption, <2>0 DEF IInv, TypeOK, UiSteps
  <2>2. RingTracksSnapshot' /\ IdsInOrder'
    BY RingUntouched, AlertAssumption DEF IInv, TypeOK, Ids
  <2>3. CheckedCommand' /\ ManualMatchesExternal' /\ FloorIsDecided'
    BY DEF IInv, CheckedCommand, ManualMatchesExternal, FloorIsDecided
  <2>4. DrawnAsRendered'
    BY DEF DrawnAsRendered, Shown
  <2> QED
    BY <2>1, <2>2, <2>3, <2>4 DEF IInv
<1>11. CASE Draw
  <2> USE <1>11 DEF Draw, FrameEnds, Step
  <2>0. None \in Levels
    BY AlertAssumption DEF Levels, None
  <2>1. TypeOK'
    BY <2>0 DEF IInv, TypeOK, UiSteps
  <2>2. RingTracksSnapshot' /\ IdsInOrder'
    BY RingUntouched, AlertAssumption DEF IInv, TypeOK, Ids
  <2>3. CheckedCommand' /\ ManualMatchesExternal' /\ FloorIsDecided'
    BY DEF IInv, CheckedCommand, ManualMatchesExternal, FloorIsDecided
  <2>4. DrawnAsRendered'
    BY DEF DrawnAsRendered
  <2> QED
    BY <2>1, <2>2, <2>3, <2>4 DEF IInv
<1>12. CASE SwitchPage
  <2> USE <1>12 DEF SwitchPage, FrameEnds, Step, Attach, Detach
  <2>0. None \in Levels
    BY AlertAssumption DEF Levels, None
  <2>1. TypeOK'
    BY <2>0 DEF IInv, TypeOK, UiSteps
  <2>2. RingTracksSnapshot' /\ IdsInOrder'
    BY RingUntouched, AlertAssumption DEF IInv, TypeOK, Ids
  <2>3. CheckedCommand' /\ ManualMatchesExternal' /\ FloorIsDecided'
    BY DEF IInv, CheckedCommand, ManualMatchesExternal, FloorIsDecided
  <2>4. DrawnAsRendered'
    BY DEF DrawnAsRendered
  <2> QED
    BY <2>1, <2>2, <2>3, <2>4 DEF IInv
<1>13. CASE TakeEvent
  BY <1>13, EventSound
<1> QED
  BY <1>1, <1>2, <1>3, <1>4, <1>5, <1>6, <1>7, <1>8, <1>9, <1>10, <1>11, <1>12,
     <1>13 DEF UiFrame

LEMMA OthersSound ==
  ASSUME IInv, Others
  PROVE  IInv'
<1> USE DEF radar, ui
<1>1. CASE \E l \in Levels : ShellAlert(l)
  <2> USE <1>1 DEF ShellAlert
  <2>1. TypeOK'
    BY AlertAssumption DEF IInv, TypeOK, Request, Ids
  <2>2. RingTracksSnapshot' /\ IdsInOrder'
    BY RingUntouched, AlertAssumption DEF IInv, TypeOK, Ids
  <2>3. CheckedCommand' /\ ManualMatchesExternal' /\ FloorIsDecided'
    BY DEF IInv, CheckedCommand, ManualMatchesExternal, FloorIsDecided
  <2>4. DrawnAsRendered'
    BY DEF IInv, DrawnAsRendered, Shown
  <2> QED
    BY <2>1, <2>2, <2>3, <2>4 DEF IInv
<1>2. CASE \E l \in Levels : AgentPublish(l)
  <2> USE <1>2 DEF AgentPublish
  <2>1. TypeOK'
    BY AlertAssumption DEF IInv, TypeOK, Request
  <2>2. RingTracksSnapshot' /\ IdsInOrder'
    BY RingUntouched, AlertAssumption DEF IInv, TypeOK, Ids
  <2>3. CheckedCommand' /\ ManualMatchesExternal' /\ FloorIsDecided'
    BY DEF IInv, CheckedCommand, ManualMatchesExternal, FloorIsDecided
  <2>4. DrawnAsRendered'
    BY DEF IInv, DrawnAsRendered, Shown
  <2> QED
    BY <2>1, <2>2, <2>3, <2>4 DEF IInv
<1>3. CASE ShellPublish
  <2> USE <1>3 DEF ShellPublish
  <2>1. TypeOK'
    BY AlertAssumption DEF IInv, TypeOK, Request
  <2>2. RingTracksSnapshot' /\ IdsInOrder'
    BY RingUntouched, AlertAssumption DEF IInv, TypeOK, Ids
  <2>3. CheckedCommand' /\ ManualMatchesExternal' /\ FloorIsDecided'
    BY DEF IInv, CheckedCommand, ManualMatchesExternal, FloorIsDecided
  <2>4. DrawnAsRendered'
    BY DEF IInv, DrawnAsRendered, Shown
  <2> QED
    BY <2>1, <2>2, <2>3, <2>4 DEF IInv
<1>4. CASE ScreenSelftest
  <2> USE <1>4 DEF ScreenSelftest, Paint
  <2>1. TypeOK'
    BY AlertAssumption DEF IInv, TypeOK, Levels, None
  <2>2. RingTracksSnapshot' /\ IdsInOrder'
    BY RingUntouched, AlertAssumption DEF IInv, TypeOK, Ids
  <2>3. CheckedCommand' /\ ManualMatchesExternal' /\ FloorIsDecided'
    BY DEF IInv, CheckedCommand, ManualMatchesExternal, FloorIsDecided
  <2>4. DrawnAsRendered'
    BY DEF DrawnAsRendered
  <2> QED
    BY <2>1, <2>2, <2>3, <2>4 DEF IInv
<1> QED
  BY <1>1, <1>2, <1>3, <1>4 DEF Others

LEMMA StepSound == IInv /\ [Next]_vars => IInv'
<1> SUFFICES ASSUME IInv, [Next]_vars PROVE IInv'
  OBVIOUS
<1>1. CASE SafetyStart
  BY <1>1, StartSound
<1>2. CASE \E d \in Decision : Decide(d)
  BY <1>2, DecisionSound
<1>3. CASE PublishSnapshot
  BY <1>3, PublicationSound
<1>4. CASE UiFrame
  BY <1>4, UiSound
<1>5. CASE Others
  BY <1>5, OthersSound
<1>6. CASE UNCHANGED vars
  BY <1>6 DEF vars, radar, ui, IInv, TypeOK, CheckedCommand, IdsInOrder,
     RingTracksSnapshot, ManualMatchesExternal, FloorIsDecided, DrawnAsRendered,
     Shown, Last
<1> QED
  BY <1>1, <1>2, <1>3, <1>4, <1>5, <1>6 DEF Next, Worker

LEMMA Invariant == Spec => []IInv
BY InitSound, StepSound, PTL DEF Spec

-----------------------------------------------------------------------------
(* The variables of alert_lcd.c and ew_safety.c keep their types: the ring  *)
(* never outgrows its array and an executed command is always a level.      *)
THEOREM AlertTypeCorrect == Spec => []TypeOK
<1>1. IInv => TypeOK
  BY DEF IInv
<1> QED
  BY <1>1, Invariant, PTL

(* For a ring of any size and any number of changes between two ticks, no   *)
(* change that ew_safety publishes is lost without being counted, none is   *)
(* taken twice or out of order, and what waits ends at the snapshot.        *)
THEOREM NoChangeUnaccounted == Spec => []RingTracksSnapshot
<1>1. IInv => RingTracksSnapshot
  BY DEF IInv
<1> QED
  BY <1>1, Invariant, PTL

(* Whatever commands a shell, the agent and the serial line queue, the tone *)
(* of alert_buzzer and the external alert of alert_lcd are the same alert.  *)
THEOREM ToneIsTheShownAlert == Spec => []ManualMatchesExternal
<1>1. IInv => ManualMatchesExternal
  BY DEF IInv
<1> QED
  BY <1>1, Invariant, PTL

(* A frame of the alert page that no other thread painted, drawn while the  *)
(* decision it rendered is the last one, shows the level the buzzer sounds. *)
THEOREM FrameShowsTheTone == Spec => []SeenIsHeard
<1>1. IInv => SeenIsHeard
  <2> SUFFICES ASSUME IInv, upc = "draw", ready, ~painted, wpc # "publish",
                      rendered = snap.level
               PROVE  screen = Max({floor, manual})
    BY DEF SeenIsHeard
  <2>1. screen = Shown(snap.level) /\ floor = snap.level /\ manual = ext.level
    BY DEF IInv, DrawnAsRendered, FloorIsDecided, ManualMatchesExternal
  <2>2. floor \in Nat /\ manual \in Nat
    BY DEF IInv, TypeOK, Levels
  <2>3. ~ext.active => manual = 0
    BY DEF IInv, ManualMatchesExternal, None
  <2> QED
    BY <2>1, <2>2, <2>3, MaxOfTwo DEF Shown
<1> QED
  BY <1>1, Invariant, PTL
=============================================================================
