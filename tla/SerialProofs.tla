---------------------------- MODULE SerialProofs ----------------------------
(***************************************************************************)
(* What travels over serial lines, proved for lines, pictures and payloads  *)
(* of any content: the queue of command lines is a queue, what the panel    *)
(* shows remotely is what was drawn, and what a modem sends is split as it  *)
(* was sent.                                                               *)
(*                                                                         *)
(* Where a definition computes over its data, the proof takes the least    *)
(* place at which it would go wrong, and shows that there is none.         *)
(***************************************************************************)
EXTENDS SerialQueue, Mirror, EspStream, SequenceTheorems, WellFoundedInduction,
        TLAPS

-----------------------------------------------------------------------------
(* The queue of command lines. *)

(* An empty ring is well typed.                                             *)
LEMMA QueueInitType == QueueInit => QueueTypeOK
  BY QueueAssumption DEF QueueInit, QueueTypeOK, Slots, Lines

(* The index after the last slot is the first.                              *)
LEMMA AfterIsASlot == \A s \in Slots : After(s) \in Slots
  BY QueueAssumption DEF Slots, After

(* Every step of the ring keeps the types of its variables.                 *)
LEMMA QueueNextType == QueueTypeOK /\ [QueueNext]_queueVars => QueueTypeOK'
  BY AfterIsASlot DEF QueueTypeOK, QueueNext, Pop, Drop, Push, queueVars, Lines

(* The waiting lines are a sequence, shorter than the ring has slots. *)
WaitingOK ==
  /\ Count \in Nat /\ Count < QMax
  /\ \A i \in 1 .. Count : SlotOf(i) \in Slots
  /\ Waiting \in Seq(Lines) /\ Len(Waiting) = Count
  /\ \A i \in 1 .. Count : Waiting[i] = lines[SlotOf(i)]

(* The lines read off the ring are such a sequence.                         *)
LEMMA WaitingIsASequence == QueueTypeOK => WaitingOK
<1> SUFFICES ASSUME QueueTypeOK PROVE WaitingOK
  OBVIOUS
<1>1. Count \in Nat /\ Count < QMax
  BY QueueAssumption DEF QueueTypeOK, Slots, Count
<1>2. \A i \in 1 .. Count : SlotOf(i) \in Slots
  BY QueueAssumption DEF QueueTypeOK, Slots, Count, SlotOf
<1>3. Waiting \in [1 .. Count -> Lines]
  BY <1>2 DEF QueueTypeOK, Waiting
<1>4. Waiting \in Seq(Lines) /\ Len(Waiting) = Count
  BY <1>1, <1>3
<1> QED BY <1>1, <1>2, <1>4 DEF Waiting, WaitingOK

(* A line is put behind those that wait, wherever the indices are.          *)
LEMMA PushAppends ==
  ASSUME QueueTypeOK, NEW c \in Commands, Push(c)
  PROVE  Count < QMax - 1 /\ Waiting' = Append(Waiting, c)
<1> WaitingOK /\ WaitingOK'
  <2>1. QueueTypeOK'
    BY QueueNextType DEF QueueNext
  <2>2. QueueTypeOK' => WaitingOK'
    BY WaitingIsASequence, PTL
  <2> QED BY <2>1, <2>2, WaitingIsASequence
<1>2. Count < QMax - 1 /\ Count' = Count + 1
  BY QueueAssumption DEF QueueTypeOK, Slots, Count, Push, Full, After
<1>3. \A i \in 1 .. Count : SlotOf(i) # tail /\ SlotOf(i)' = SlotOf(i)
  BY QueueAssumption DEF QueueTypeOK, Slots, Count, SlotOf, Push
<1>4. SlotOf(Count)' = tail
  BY QueueAssumption, AfterIsASlot DEF QueueTypeOK, Slots, Count, SlotOf, Push,
     Full, After
<1>5. \A i \in 1 .. Count + 1 :
        Waiting'[i] = IF i = Count + 1 THEN c ELSE Waiting[i]
  <2>1. \A i \in 1 .. Count : Waiting'[i] = Waiting[i]
    BY <1>2, <1>3 DEF WaitingOK, Push, QueueTypeOK
  <2>2. Waiting'[Count + 1] = c
    <3>1. Waiting'[Count'] = lines'[SlotOf(Count)']
      BY <1>2 DEF WaitingOK
    <3> QED
      BY <1>2, <1>4, <3>1 DEF Push, QueueTypeOK
  <2> QED BY <1>2, <2>1, <2>2 DEF WaitingOK
<1>6. Waiting' \in Seq(Lines) /\ Len(Waiting') = Count + 1
  BY <1>2 DEF WaitingOK
<1> QED
  BY <1>2, <1>5, <1>6 DEF WaitingOK, Lines

(* A line is taken from before the others.                                  *)
LEMMA PopTakes ==
  ASSUME QueueTypeOK, Pop
  PROVE  Waiting # <<>> /\ run' = Head(Waiting) /\ Waiting' = Tail(Waiting)
<1> WaitingOK /\ WaitingOK'
  <2>1. QueueTypeOK'
    BY QueueNextType DEF QueueNext
  <2>2. QueueTypeOK' => WaitingOK'
    BY WaitingIsASequence, PTL
  <2> QED BY <2>1, <2>2, WaitingIsASequence
<1>2. Count > 0 /\ Count' = Count - 1
  BY QueueAssumption DEF QueueTypeOK, Slots, Count, Pop, After
<1>3. SlotOf(1) = head
  BY QueueAssumption DEF QueueTypeOK, Slots, SlotOf
<1>4. \A i \in 1 .. Count - 1 : SlotOf(i)' = SlotOf(i + 1)
  BY QueueAssumption DEF QueueTypeOK, Slots, Count, SlotOf, Pop, After
<1>5. Waiting' \in Seq(Lines) /\ Len(Waiting') = Count - 1
  BY <1>2 DEF WaitingOK
<1>6. \A i \in 1 .. Count - 1 : Waiting'[i] = Waiting[i + 1]
  BY <1>2, <1>4 DEF WaitingOK, Pop
<1> QED
  BY <1>2, <1>3, <1>5, <1>6 DEF WaitingOK, Pop

(* Whatever the number of slots and however the indices have wrapped, a     *)
(* step of the ring is a step of the queue: lines come out in order, once,  *)
(* and a full ring drops only the newest.                                   *)
THEOREM RingIsAQueue == QueueSpec => ImplementsQueue
<1>1. QueueInit => Queue!Init
  BY QueueAssumption, QueueInitType, WaitingIsASequence DEF QueueInit,
     Queue!Init, Count, WaitingOK
<1>2. QueueTypeOK /\ [QueueNext]_queueVars => [Queue!Next]_<<Waiting, run>>
  <2> SUFFICES ASSUME QueueTypeOK, [QueueNext]_queueVars
               PROVE  [Queue!Next]_<<Waiting, run>>
    OBVIOUS
  <2>1. ASSUME NEW c \in Commands, Push(c) PROVE Queue!Put(c)
    BY <2>1, PushAppends, WaitingIsASequence, QueueAssumption DEF Queue!Put,
       Push, WaitingOK
  <2>2. ASSUME Pop PROVE Queue!Take
    BY <2>2, PopTakes DEF Queue!Take
  <2>3. ASSUME UNCHANGED queueVars PROVE UNCHANGED <<Waiting, run>>
    BY <2>3 DEF queueVars, Waiting, Count, SlotOf
  <2> QED BY <2>1, <2>2, <2>3 DEF QueueNext, Drop, Queue!Next
<1>3. QueueSpec => []QueueTypeOK
  BY QueueInitType, QueueNextType, PTL DEF QueueSpec
<1> QED
  BY <1>1, <1>2, <1>3, PTL DEF QueueSpec, ImplementsQueue, Queue!Spec

-----------------------------------------------------------------------------
(* Numbers. *)

(* The order of the naturals, as a relation.                                *)
Below == {p \in Nat \X Nat : p[1] < p[2]}

(* A set of numbers has a least one. *)
LEMMA LeastNumber ==
  ASSUME NEW S, S \subseteq Nat, S # {}
  PROVE  \E n \in S : \A m \in S : n <= m
<1>1. Below = OpToRel(<, Nat)
  BY DEF Below, OpToRel
<1>2. IsWellFoundedOn(Below, Nat)
  BY <1>1, NatLessThanWellFounded, Zenon
<1>3. PICK n \in S : \A m \in S : <<m, n>> \notin Below
  BY <1>2, WFMin
<1>4. ASSUME NEW m \in S PROVE n <= m
  <2>1. <<m, n>> \notin Below /\ m \in Nat /\ n \in Nat
    BY <1>3
  <2>2. m < n => <<m, n>> \in Below
    BY <2>1 DEF Below
  <2>3. QED
    BY <2>1, <2>2
<1> QED
  BY <1>4

(* So Min is what it says, and Max for numbers that have a bound. *)
LEMMA MinIsLeast ==
  ASSUME NEW S, S \subseteq Nat, S # {}
  PROVE  Min(S) \in S /\ \A m \in S : Min(S) <= m
<1>1. \E n \in S : \A m \in S : n <= m
  BY LeastNumber
<1> QED
  BY <1>1, Zenon DEF Min

(* Upside down, a bounded set has a greatest.                               *)
LEMMA MaxIsGreatest ==
  ASSUME NEW b \in Nat, NEW S, S \subseteq 0..b, S # {}
  PROVE  Max(S) \in S /\ \A m \in S : Max(S) >= m
<1> DEFINE T == {b - m : m \in S}
<1>1. T \subseteq Nat /\ T # {}
  <2>1. \A m \in S : m \in 0 .. b
    OBVIOUS
  <2>2. \A m \in 0 .. b : b - m \in Nat
    OBVIOUS
  <2>3. QED
    BY <2>1, <2>2
<1>2. PICK t \in T : \A u \in T : t <= u
  BY <1>1, LeastNumber
<1>3. PICK n \in S : t = b - n
  OBVIOUS
<1>4. \A m \in S : n >= m
  <2> SUFFICES ASSUME NEW m \in S PROVE n >= m
    OBVIOUS
  <2>1. b - n <= b - m
    BY <1>2, <1>3
  <2>2. QED
    BY <2>1
<1>5. \E x \in S : \A m \in S : x >= m
  BY <1>4
<1> QED
  BY <1>5, Zenon DEF Max

(* The lesser of two numbers.                                               *)
LEMMA MinOfTwo ==
  ASSUME NEW a \in Nat, NEW b \in Nat
  PROVE  /\ Min({a, b}) \in Nat /\ Min({a, b}) \in {a, b}
         /\ Min({a, b}) <= a /\ Min({a, b}) <= b
<1>1. {a, b} \subseteq Nat /\ {a, b} # {}
  OBVIOUS
<1>2. Min({a, b}) \in {a, b} /\ \A m \in {a, b} : Min({a, b}) <= m
  BY <1>1, MinIsLeast, Zenon
<1> QED
  BY <1>1, <1>2

(* A number below a modulus is its own remainder. *)
LEMMA SmallRemainder == \A a, b \in Nat : a < b => a % b = a
  BY SMT

-----------------------------------------------------------------------------
(* Packets. *)

(* The run at a pixel holds one pixel or more, all of its colour.           *)
LEMMA Runs ==
  ASSUME NEW p \in Seq(Pixels), NEW i \in 1..Len(p), NEW n \in Nat \ {0}
  PROVE  /\ RunLen(p, i, n) \in 1..n /\ i + RunLen(p, i, n) - 1 <= Len(p)
         /\ \A j \in i..(i + RunLen(p, i, n) - 1) : p[j] = p[i]
<1> DEFINE N == Len(p)
           top == Min({n, N - i + 1})
           S == {k \in 1..top : \A j \in i..(i + k - 1) : p[j] = p[i]}
<1>1. N \in Nat /\ i \in Nat /\ N - i + 1 \in Nat /\ N - i + 1 >= 1
  BY LenProperties
<1>2. top \in Nat /\ top >= 1 /\ top <= n /\ top <= N - i + 1
  BY <1>1, MinOfTwo
<1> HIDE DEF top, N
<1>3. S \subseteq 0..top /\ 1 \in S
  <2>1. 1 \in 1..top
    BY <1>2
  <2>2. \A j \in i..(i + 1 - 1) : j = i
    BY <1>1
  <2>3. QED
    BY <1>2, <2>1, <2>2
<1>4. Max(S) \in S
  BY <1>2, <1>3, MaxIsGreatest
<1>5. RunLen(p, i, n) = Max(S)
  BY Zenon DEF RunLen, top, N
<1> HIDE DEF S
<1>6. RunLen(p, i, n) \in S
  BY <1>4, <1>5
<1>7. /\ RunLen(p, i, n) \in 1..top
      /\ \A j \in i..(i + RunLen(p, i, n) - 1) : p[j] = p[i]
  BY <1>6 DEF S
<1> QED
  BY <1>1, <1>2, <1>7 DEF N

(* A literal that is no run holds one pixel or more, too.                   *)
LEMMA Literals ==
  ASSUME NEW p \in Seq(Pixels), NEW i \in 1..Len(p)
  PROVE  /\ LiteralAt(p, i) \in 1..MaxCount
         /\ i + LiteralAt(p, i) - 1 <= Len(p)
<1> DEFINE N == Len(p)
           longest == Min({MaxCount, N - i + 1})
           ends == {k \in RunAt(p, i)..longest :
                      k < longest => RunLen(p, i + k, 3) = 3}
<1>0. MaxCount \in Nat \ {0}
  BY MirrorAssumption
<1>1. N \in Nat /\ i \in Nat /\ N - i + 1 \in Nat /\ N - i + 1 >= 1
  BY LenProperties
<1>2. /\ longest \in Nat /\ longest <= MaxCount /\ longest <= N - i + 1
      /\ longest \in {MaxCount, N - i + 1}
  BY <1>0, <1>1, MinOfTwo
<1> HIDE DEF longest, N
<1>3. RunAt(p, i) \in 1..MaxCount /\ i + RunAt(p, i) - 1 <= N
  BY <1>0, Runs DEF RunAt, N
<1>4. longest \in ends /\ ends \subseteq Nat
  BY <1>0, <1>1, <1>2, <1>3
<1>5. Min(ends) \in ends
  BY <1>4, MinIsLeast
<1>6. LiteralAt(p, i) = Min(ends)
  BY Zenon DEF LiteralAt, longest, N
<1>7. LiteralAt(p, i) \in RunAt(p, i)..longest
  BY <1>5, <1>6
<1> QED
  BY <1>0, <1>1, <1>2, <1>3, <1>7 DEF N

(* So every packet uses a pixel or more, and none that is not there.        *)
LEMMA UsedPixels ==
  ASSUME NEW p \in Seq(Pixels), NEW i \in 1..Len(p)
  PROVE  /\ Used(p, i) \in Nat /\ Used(p, i) >= 1
         /\ i + Used(p, i) - 1 <= Len(p)
<1>1. MaxCount \in Nat \ {0}
  BY MirrorAssumption
<1>2. RunAt(p, i) \in 1..MaxCount /\ i + RunAt(p, i) - 1 <= Len(p)
  BY <1>1, Runs DEF RunAt
<1>3. LiteralAt(p, i) \in 1..MaxCount /\ i + LiteralAt(p, i) - 1 <= Len(p)
  BY Literals
<1> QED
  BY <1>1, <1>2, <1>3 DEF Used

(* What the panel decodes from a packet are the pixels it was made of.      *)
LEMMA PacketDecodes ==
  ASSUME NEW p \in Seq(Pixels), NEW i \in 1..Len(p)
  PROVE  /\ Decode(Packet(p, i)) = SubSeq(p, i, i + Used(p, i) - 1)
         /\ Size(Packet(p, i)) \in Nat /\ Size(Packet(p, i)) >= 1
<1> DEFINE r == RunAt(p, i)
           l == LiteralAt(p, i)
<1>1. MaxCount \in Nat \ {0} /\ Len(p) \in Nat /\ i \in Nat
  BY MirrorAssumption, LenProperties
<1>2. /\ r \in 1..MaxCount /\ i + r - 1 <= Len(p)
      /\ \A j \in i..(i + r - 1) : p[j] = p[i]
  BY <1>1, Runs DEF RunAt
<1>3. l \in 1..MaxCount /\ i + l - 1 <= Len(p)
  BY Literals
<1>4. ASSUME NEW k \in 1..MaxCount, i + k - 1 <= Len(p)
      PROVE  /\ SubSeq(p, i, i + k - 1) \in Seq(Pixels)
             /\ Len(SubSeq(p, i, i + k - 1)) = k
             /\ \A j \in 1..k : SubSeq(p, i, i + k - 1)[j] = p[i + j - 1]
  <2> DEFINE e == i + k - 1
  <2>1. i \in Int /\ e \in Int /\ i <= e /\ e - i + 1 = k
    BY <1>1, <1>4
  <2>2. \A j \in i..e : p[j] \in Pixels
    <3>1. \A j \in i..e : j \in 1..Len(p)
      BY <1>1, <1>4
    <3>2. QED
      BY <3>1, ElementOfSeq
  <2> HIDE DEF e
  <2>3. /\ SubSeq(p, i, e) \in Seq(Pixels)
        /\ Len(SubSeq(p, i, e)) = IF i <= e THEN e - i + 1 ELSE 0
        /\ \A j \in 1..(e - i + 1) : SubSeq(p, i, e)[j] = p[i + j - 1]
    BY <2>1, <2>2, SubSeqProperties
  <2>4. QED
    BY <2>1, <2>3 DEF e
<1> HIDE DEF r, l
<1>5. CASE r >= 3
  <2> DEFINE packet == [byte |-> MaxCount + r - 1, pixels |-> <<p[i]>>]
             s == SubSeq(p, i, i + r - 1)
  <2>1. Packet(p, i) = packet /\ Used(p, i) = r
    BY <1>5 DEF Packet, Used, r
  <2>2. (MaxCount + r - 1) % (2 * MaxCount) = MaxCount + r - 1
    <3>1. /\ MaxCount + r - 1 \in Nat /\ 2 * MaxCount \in Nat
          /\ MaxCount + r - 1 < 2 * MaxCount
      BY <1>1, <1>2
    <3>2. QED
      BY <3>1, SmallRemainder, Zenon
  <2>3. Decode(packet) = [k \in 1..r |-> p[i]]
    <3>1. MaxCount + r - 1 >= MaxCount /\ MaxCount + r - 1 - MaxCount + 1 = r
      BY <1>1, <1>2
    <3>2. packet.byte = MaxCount + r - 1 /\ packet.pixels[1] = p[i]
      OBVIOUS
    <3> HIDE DEF packet
    <3> DEFINE b == MaxCount + r - 1
    <3>3. packet.byte % (2 * MaxCount) = b
      BY <2>2, <3>2, Zenon
    <3>4. b >= MaxCount /\ b - MaxCount + 1 = r
      BY <1>1, <1>2
    <3> HIDE DEF b
    <3>5. Decode(packet) = [k \in 1..(b - MaxCount + 1) |-> packet.pixels[1]]
      BY <3>3, <3>4, Zenon DEF Decode
    <3>6. QED
      BY <3>2, <3>4, <3>5, Zenon
  <2>4. /\ s \in Seq(Pixels) /\ Len(s) = r
        /\ \A j \in 1..r : s[j] = p[i + j - 1]
    BY <1>2, <1>4
  <2>5. [k \in 1..r |-> p[i]] \in Seq(Pixels) /\ Len([k \in 1..r |-> p[i]]) = r
    <3>1. r \in Nat /\ p[i] \in Pixels
      BY <1>1, <1>2, ElementOfSeq
    <3>2. QED
      BY <3>1
  <2> HIDE DEF s
  <2>6. \A j \in 1..r : s[j] = p[i]
    <3>1. \A j \in 1..r : i + j - 1 \in i..(i + r - 1)
      BY <1>1, <1>2
    <3>2. QED
      BY <1>2, <2>4, <3>1, Zenon
  <2>7. s = [k \in 1..r |-> p[i]]
    BY <2>4, <2>5, <2>6, SeqEqual
  <2>8. Size(packet) = 3
    BY DEF Size
  <2> HIDE DEF packet
  <2>9. Decode(Packet(p, i)) = SubSeq(p, i, i + r - 1)
    BY <2>1, <2>3, <2>7, Zenon DEF s
  <2>10. Size(Packet(p, i)) = 3 /\ Used(p, i) = r
    BY <2>1, <2>8, Zenon
  <2>11. QED
    BY <2>9, <2>10
<1>6. CASE ~(r >= 3)
  <2> DEFINE s == SubSeq(p, i, i + l - 1)
             packet == [byte |-> l - 1, pixels |-> s]
  <2>1. Packet(p, i) = packet /\ Used(p, i) = l
    BY <1>6 DEF Packet, Used, r, l
  <2>2. (l - 1) % (2 * MaxCount) = l - 1
    <3>1. l - 1 \in Nat /\ 2 * MaxCount \in Nat /\ l - 1 < 2 * MaxCount
      BY <1>1, <1>3
    <3>2. QED
      BY <3>1, SmallRemainder, Zenon
  <2>3. s \in Seq(Pixels) /\ Len(s) = l
    BY <1>3, <1>4
  <2> HIDE DEF s
  <2>4. packet.byte = l - 1 /\ packet.pixels = s
    OBVIOUS
  <2> HIDE DEF packet
  <2>5. Decode(packet) = SubSeq(s, 1, l)
    <3>1. ~(l - 1 >= MaxCount) /\ l - 1 + 1 = l
      BY <1>1, <1>3
    <3>2. QED
      BY <2>2, <2>4, <3>1 DEF Decode
  <2>6. SubSeq(s, 1, l) = s
    BY <2>3, SubSeqFull, Zenon
  <2>7. Size(packet) = 1 + 2 * l /\ l \in Nat
    BY <1>3, <2>3, <2>4 DEF Size
  <2>8. QED
    BY <2>1, <2>5, <2>6, <2>7 DEF s
<1> QED
  BY <1>5, <1>6

-----------------------------------------------------------------------------
(* The size of a frame. *)

(* left is the size of what remains from each pixel on, from the n-th on.   *)
LeftFrom(left, p, n) ==
  left = [i \in n..(Len(p) + 1) |->
            IF i > Len(p) THEN 0 ELSE Size(Packet(p, i)) + left[i + Used(p, i)]]

(* The dry run comes to its end: the sizes of what is left are a function.  *)
LEMMA LeftExists ==
  ASSUME NEW p \in Seq(Pixels)
  PROVE  \E left : LeftFrom(left, p, 1)
<1> DEFINE N == Len(p)
           S == {m \in 0..N : ~\E left : LeftFrom(left, p, N + 1 - m)}
<1>0. N \in Nat
  BY LenProperties
<1>1. S = {}
  <2> SUFFICES ASSUME S # {} PROVE FALSE
    OBVIOUS
  <2>1. PICK m \in S : \A k \in S : m <= k
    <3>1. S \subseteq Nat
      BY <1>0
    <3>2. QED
      BY <3>1, LeastNumber
  <2>2. m \in 0..N /\ ~\E left : LeftFrom(left, p, N + 1 - m)
    OBVIOUS
  <2>3. CASE m = 0
    <3> DEFINE f == [i \in (N + 1 - 0)..(N + 1) |-> 0]
    <3>1. \A i \in (N + 1 - 0)..(N + 1) : i > N
      BY <1>0
    <3>2. LeftFrom(f, p, N + 1 - 0)
      BY <3>1 DEF LeftFrom
    <3>3. QED
      BY <2>2, <2>3, <3>2
  <2>4. CASE m # 0
    <3> DEFINE n == N + 1 - m
    <3>0. /\ m - 1 \in 0..N /\ ~(m <= m - 1) /\ n \in 1..N /\ n + 1 = N + 1 - (m - 1)
      BY <1>0, <2>2, <2>4
    <3>1. \E left : LeftFrom(left, p, N + 1 - (m - 1))
      <4>1. m - 1 \notin S
        BY <2>1, <3>0
      <4>2. QED
        BY <3>0, <4>1
    <3>2. PICK g : LeftFrom(g, p, n + 1)
      BY <3>0, <3>1
    <3>u. ASSUME NEW i \in n..N
          PROVE  i + Used(p, i) \in (n + 1)..(N + 1)
      <4>1. i \in 1..Len(p)
        BY <3>0
      <4>2. /\ Used(p, i) \in Nat /\ Used(p, i) >= 1 /\ i + Used(p, i) - 1 <= N
        BY <4>1, UsedPixels
      <4>3. QED
        BY <1>0, <3>0, <4>2
    <3> HIDE DEF n, N
    <3> DEFINE f == [i \in n..(N + 1) |->
                       IF i = n THEN Size(Packet(p, n)) + g[n + Used(p, n)]
                                ELSE g[i]]
               step(h, i) == IF i > N THEN 0
                             ELSE Size(Packet(p, i)) + h[i + Used(p, i)]
    <3>3. ASSUME NEW i \in (n + 1)..(N + 1) PROVE g[i] = step(g, i)
      BY <3>2 DEF LeftFrom, N
    <3>4. ASSUME NEW i \in n..(N + 1) PROVE f[i] = step(f, i)
      <4>1. ASSUME NEW j \in (n + 1)..(N + 1) PROVE f[j] = g[j]
        BY <1>0, <3>0
      <4>2. i <= N => i + Used(p, i) \in (n + 1)..(N + 1)
        BY <1>0, <3>0, <3>u
      <4>3. step(f, i) = step(g, i)
        BY <1>0, <3>0, <4>1, <4>2
      <4>4. CASE i = n
        <5>1. ~(i > N)
          BY <1>0, <3>0, <4>4
        <5>2. f[i] = step(g, i)
          BY <4>4, <5>1
        <5> HIDE DEF f, step
        <5>3. QED
          BY <4>3, <5>2
      <4>5. CASE i # n
        <5>1. i \in (n + 1)..(N + 1)
          BY <1>0, <3>0, <4>5
        <5>2. f[i] = g[i] /\ g[i] = step(g, i)
          BY <3>3, <4>1, <5>1
        <5> HIDE DEF f, step
        <5>3. QED
          BY <4>3, <5>2
      <4>6. QED
        BY <4>4, <4>5
    <3>5. f = [i \in n..(N + 1) |-> f[i]]
      OBVIOUS
    <3> HIDE DEF f
    <3>6. f = [i \in n..(N + 1) |-> step(f, i)]
      BY <3>4, <3>5
    <3>7. LeftFrom(f, p, n)
      BY <3>6, Zenon DEF LeftFrom, N
    <3>8. QED
      BY <2>2, <3>7 DEF n
  <2>5. QED
    BY <2>3, <2>4
<1>2. N \in 0..N /\ N + 1 - N = 1
  BY <1>0
<1>3. \E left : LeftFrom(left, p, N + 1 - N)
  BY <1>1, <1>2
<1> QED
  BY <1>2, <1>3

(* The sizes of what is left, as FrameSize computes them.                   *)
Left(p) == CHOOSE left : LeftFrom(left, p, 1)

(* What is left at a pixel: a packet, and what is left after it.            *)
LEMMA LeftOver ==
  ASSUME NEW p \in Seq(Pixels)
  PROVE  /\ EncodedSize(p) = Left(p)[1]
         /\ Left(p)[Len(p) + 1] = 0
         /\ \A i \in 1..Len(p) :
              Left(p)[i] = Size(Packet(p, i)) + Left(p)[i + Used(p, i)]
<1>1. Len(p) \in Nat
  BY LenProperties
<1>2. LeftFrom(Left(p), p, 1)
  BY LeftExists DEF Left
<1>3. EncodedSize(p) = Left(p)[1]
  BY DEF EncodedSize, Left, LeftFrom
<1> DEFINE f == Left(p)
<1> HIDE DEF f
<1>4. f = [i \in 1..(Len(p) + 1) |->
            IF i > Len(p) THEN 0 ELSE Size(Packet(p, i)) + f[i + Used(p, i)]]
  BY <1>2, Zenon DEF LeftFrom, f
<1>5. \A i \in 1..(Len(p) + 1) : f[i] =
            IF i > Len(p) THEN 0 ELSE Size(Packet(p, i)) + f[i + Used(p, i)]
  BY <1>4
<1>6. f[Len(p) + 1] = 0
  <2>1. Len(p) + 1 \in 1..(Len(p) + 1) /\ Len(p) + 1 > Len(p)
    BY <1>1
  <2>2. QED
    BY <1>5, <2>1, Zenon
<1>7. \A i \in 1..Len(p) : f[i] = Size(Packet(p, i)) + f[i + Used(p, i)]
  <2>1. \A i \in 1..Len(p) : i \in 1..(Len(p) + 1) /\ ~(i > Len(p))
    BY <1>1
  <2>2. QED
    BY <1>5, <2>1, Zenon
<1> QED
  BY <1>3, <1>6, <1>7 DEF f

(* What is left is a number of bytes, none only at the end. *)
LEMMA LeftIsNatural ==
  ASSUME NEW p \in Seq(Pixels)
  PROVE  \A i \in 1..(Len(p) + 1) :
           Left(p)[i] \in Nat /\ (Left(p)[i] = 0 <=> i = Len(p) + 1)
<1> DEFINE N == Len(p)
           f == Left(p)
           S == {m \in 0..N : ~(/\ f[N + 1 - m] \in Nat
                                /\ f[N + 1 - m] = 0 <=> m = 0)}
<1>0. N \in Nat
  BY LenProperties
<1>1. /\ f[N + 1] = 0
      /\ \A i \in 1..N : f[i] = Size(Packet(p, i)) + f[i + Used(p, i)]
  BY LeftOver
<1> HIDE DEF f
<1>2. S = {}
  <2> SUFFICES ASSUME S # {} PROVE FALSE
    OBVIOUS
  <2>1. PICK m \in S : \A k \in S : m <= k
    <3>1. S \subseteq Nat
      BY <1>0
    <3>2. QED
      BY <3>1, LeastNumber
  <2>2. /\ m \in 0..N
        /\ ~(f[N + 1 - m] \in Nat /\ (f[N + 1 - m] = 0 <=> m = 0))
    OBVIOUS
  <2>3. CASE m = 0
    <3>1. N + 1 - m = N + 1
      BY <1>0, <2>3
    <3>2. QED
      BY <1>1, <2>2, <2>3, <3>1
  <2>4. CASE m # 0
    <3> DEFINE i == N + 1 - m
               k == m - Used(p, i)
    <3>1. i \in 1..N
      BY <1>0, <2>2, <2>4
    <3>2. /\ Used(p, i) \in Nat /\ Used(p, i) >= 1 /\ i + Used(p, i) - 1 <= N
          /\ Size(Packet(p, i)) \in Nat /\ Size(Packet(p, i)) >= 1
      BY <3>1, UsedPixels, PacketDecodes
    <3>3. /\ k \in 0..N /\ ~(m <= k) /\ i + Used(p, i) = N + 1 - k
      <4> DEFINE u == Used(p, i)
      <4>1. u \in Nat /\ u >= 1 /\ i + u - 1 <= N
        BY <3>2
      <4> HIDE DEF u
      <4>2. m - u \in 0..N /\ ~(m <= m - u) /\ i + u = N + 1 - (m - u)
        BY <1>0, <2>2, <4>1
      <4>3. QED
        BY <4>2 DEF u
    <3>4. f[N + 1 - k] \in Nat
      <4>1. k \notin S
        BY <2>1, <3>3
      <4>2. QED
        BY <3>3, <4>1
    <3>5. f[i] = Size(Packet(p, i)) + f[N + 1 - k]
      BY <1>1, <3>1, <3>3, Zenon
    <3> HIDE DEF k
    <3>6. f[i] \in Nat /\ f[i] # 0
      BY <3>2, <3>4, <3>5
    <3>7. QED
      BY <2>2, <2>4, <3>6
  <2>5. QED
    BY <2>3, <2>4
<1>3. ASSUME NEW i \in 1..(N + 1)
      PROVE  f[i] \in Nat /\ (f[i] = 0 <=> i = N + 1)
  <2> DEFINE m == N + 1 - i
  <2>1. m \in 0..N /\ N + 1 - m = i /\ (m = 0 <=> i = N + 1)
    BY <1>0
  <2>2. m \notin S
    BY <1>2
  <2> HIDE DEF m
  <2>3. f[N + 1 - m] \in Nat /\ (f[N + 1 - m] = 0 <=> m = 0)
    BY <2>1, <2>2
  <2>4. QED
    BY <2>1, <2>3
<1> QED
  BY <1>3 DEF f

-----------------------------------------------------------------------------
(* The invariant: between frames nothing is kept; within one, the bytes     *)
(* sent and those that are left add up to what the header announced.        *)
MirrorInv ==
  /\ pos \in Nat /\ wire \in Nat /\ expected \in Nat
  /\ expected = 0 => picture = <<>> /\ pos = 0 /\ wire = 0 /\ decoded = <<>>
  /\ expected > 0 => /\ picture \in Pictures
                     /\ wire + Left(picture)[pos + 1] = expected
  /\ picture \in Seq(Pixels) /\ pos <= Len(picture)
  /\ decoded = SubSeq(picture, 1, pos)

(* Before its first pixel a picture has no part.                            *)
LEMMA EmptyPart ==
  ASSUME NEW p \in Seq(Pixels)
  PROVE  SubSeq(p, 1, 0) = <<>>
<1>1. 1 \in Int /\ 0 \in Int /\ 0 < 1
  OBVIOUS
<1> QED
  BY <1>1, SubSeqEmpty, Zenon

(* Between frames nothing is announced, so nothing is wrong.                *)
LEMMA BetweenFrames ==
  ASSUME picture = <<>>, pos = 0, expected = 0, wire = 0, decoded = <<>>
  PROVE  MirrorInv
<1>1. <<>> \in Seq(Pixels) /\ Len(<<>>) = 0
  BY EmptySeq, Zenon
<1>2. SubSeq(<<>>, 1, 0) = <<>>
  BY <1>1, EmptyPart, Zenon
<1> QED
  BY <1>1, <1>2 DEF MirrorInv

(* Every step of the mirror keeps the invariant.                            *)
LEMMA MirrorInvNext == MirrorInv /\ [MirrorNext]_mirrorVars => MirrorInv'
<1> SUFFICES ASSUME MirrorInv, [MirrorNext]_mirrorVars PROVE MirrorInv'
  OBVIOUS
<1>1. ASSUME NEW p \in Pictures, Capture(p) PROVE MirrorInv'
  <2>1. /\ expected = 0 /\ pos = 0 /\ wire = 0 /\ decoded = <<>>
        /\ picture' = p /\ expected' = EncodedSize(p)
        /\ pos' = 0 /\ wire' = 0 /\ decoded' = <<>>
        /\ EncodedSize(p) < 2 * Len(p)
    BY <1>1 DEF Capture, MirrorInv
  <2>2. p \in Seq(Pixels) /\ Len(p) \in Nat
    BY MirrorAssumption, LenProperties
  <2>3. EncodedSize(p) = Left(p)[1] /\ Left(p)[1] \in Nat
    <3>1. 1 \in 1..(Len(p) + 1)
      BY <2>2
    <3>2. QED
      BY <2>2, <3>1, LeftOver, LeftIsNatural
  <2>4. EncodedSize(p) # 0
    <3>1. 1 \in 1..(Len(p) + 1) /\ 1 # Len(p) + 1
      BY <2>1, <2>2, <2>3
    <3>2. QED
      BY <2>2, <2>3, <3>1, LeftIsNatural
  <2>5. SubSeq(p, 1, 0) = <<>>
    BY <2>2, EmptyPart
  <2>6. QED
    BY <2>1, <2>2, <2>3, <2>4, <2>5 DEF MirrorInv
<1>2. CASE SendPacket
  <2> DEFINE p == picture
             i == pos + 1
             n == Used(p, i)
             size == Size(Packet(p, i))
  <2>0. /\ p \in Seq(Pixels) /\ Len(p) \in Nat /\ pos \in Nat /\ pos < Len(p)
        /\ wire \in Nat /\ expected \in Nat
    BY <1>2, LenProperties DEF SendPacket, MirrorInv
  <2>1. /\ decoded' = decoded \o Decode(Packet(p, i))
        /\ wire' = wire + size /\ pos' = pos + n
        /\ picture' = p /\ expected' = expected
    BY <1>2 DEF SendPacket
  <2>2. i \in 1..Len(p)
    BY <2>0
  <2>3. /\ n \in Nat /\ n >= 1 /\ i + n - 1 <= Len(p)
        /\ Decode(Packet(p, i)) = SubSeq(p, i, i + n - 1)
        /\ size \in Nat /\ size >= 1
    BY <2>0, <2>2, UsedPixels, PacketDecodes
  <2>4. expected # 0
    <3>1. expected = 0 => Len(p) = 0
      BY EmptySeq DEF MirrorInv
    <3>2. QED
      BY <2>0, <3>1
  <2>5. p \in Pictures /\ wire + Left(p)[i] = expected
    BY <2>0, <2>4 DEF MirrorInv
  <2>6. /\ Left(p)[i] = size + Left(p)[i + n]
        /\ Left(p)[i + n] \in Nat
    <3>1. i + n \in 1..(Len(p) + 1)
      BY <2>0, <2>2, <2>3
    <3>2. QED
      BY <2>0, <2>2, <3>1, LeftOver, LeftIsNatural
  <2>7. decoded = SubSeq(p, 1, pos)
    BY DEF MirrorInv
  <2> HIDE DEF n, size, p
  <2>8. /\ pos' \in Nat /\ pos' <= Len(p) /\ wire' \in Nat
        /\ pos' + 1 = i + n /\ i + n - 1 = pos'
        /\ wire' + Left(p)[i + n] = expected
    BY <2>0, <2>1, <2>3, <2>5, <2>6
  <2>9. decoded' = SubSeq(p, 1, pos')
    <3>1. SubSeq(p, 1, pos) \o SubSeq(p, pos + 1, pos') = SubSeq(p, 1, pos')
      <4>1. /\ 1 \in 1..(Len(p) + 1) /\ pos \in (1 - 1)..Len(p)
            /\ pos' \in pos..Len(p)
        BY <2>0, <2>1, <2>3, <2>8
      <4>2. QED
        BY <2>0, <4>1, ConcatAdjacentSubSeq, Zenon
    <3>2. QED
      BY <2>1, <2>3, <2>7, <2>8, <3>1
  <2>10. QED
    BY <2>0, <2>1, <2>4, <2>5, <2>8, <2>9 DEF MirrorInv
<1>3. CASE EndOfFrame
  <2>1. /\ picture' = <<>> /\ pos' = 0 /\ expected' = 0 /\ wire' = 0
        /\ decoded' = <<>>
    BY <1>3 DEF EndOfFrame
  <2>2. (picture = <<>> /\ pos = 0 /\ expected = 0 /\ wire = 0 /\ decoded = <<>>
           => MirrorInv)'
    BY BetweenFrames, PTL
  <2>3. QED
    BY <2>1, <2>2
<1>4. CASE UNCHANGED mirrorVars
  BY <1>4 DEF mirrorVars, MirrorInv
<1> QED
  BY <1>1, <1>2, <1>3, <1>4 DEF MirrorNext

(* Whatever the pixels and the size of a picture, what the panel has        *)
(* decoded is the part that was encoded, and a frame is as long as its      *)
(* header announced exactly when it is whole.                               *)
THEOREM MirrorCorrect == MirrorSpec => []MirrorIsLossless
<1>1. MirrorInit => MirrorInv
  BY BetweenFrames DEF MirrorInit
<1>2. MirrorInv /\ [MirrorNext]_mirrorVars => MirrorInv'
  BY MirrorInvNext
<1>3. MirrorInv => MirrorIsLossless
  <2> SUFFICES ASSUME MirrorInv PROVE MirrorIsLossless
    OBVIOUS
  <2>1. ASSUME expected > 0
        PROVE  wire <= expected /\ (wire = expected <=> pos = Len(picture))
    <3>1. /\ picture \in Seq(Pixels) /\ Len(picture) \in Nat
          /\ pos \in Nat /\ pos <= Len(picture)
          /\ wire \in Nat /\ expected \in Nat
          /\ wire + Left(picture)[pos + 1] = expected
      BY <2>1, LenProperties DEF MirrorInv
    <3>2. pos + 1 \in 1..(Len(picture) + 1)
      BY <3>1
    <3>3. /\ Left(picture)[pos + 1] \in Nat
          /\ Left(picture)[pos + 1] = 0 <=> pos + 1 = Len(picture) + 1
      BY <3>1, <3>2, LeftIsNatural
    <3>4. QED
      BY <3>1, <3>3
  <2>2. QED
    BY <2>1 DEF MirrorInv, MirrorIsLossless
<1> QED
  BY <1>1, <1>2, <1>3, PTL DEF MirrorSpec

-----------------------------------------------------------------------------
(* What the modem sends. *)

(* The assumptions on the constants, in the form the proofs need.           *)
LEMMA StreamSizes ==
  /\ LineMax \in Nat /\ DataMax \in Nat /\ LinkMax \in Nat /\ SizeWidth \in Nat
  /\ LinkMax <= 8 /\ 3 + SizeWidth <= LineMax
  /\ \A t \in Responses : t \in Seq(Bytes)
  /\ \A t \in Responses : t # <<>> => t[1] \notin {Greater, Space, Ipd}
  /\ \A t \in Responses : \A i \in 1 .. Len(t) : t[i] # Lf
  /\ \A p \in Payloads : p \in Seq(Bytes)
<1>1. /\ LineMax \in Nat /\ DataMax \in Nat /\ LinkMax \in Nat /\ SizeWidth \in Nat
      /\ LinkMax <= 8 /\ 3 + SizeWidth <= LineMax
  BY StreamAssumption
<1> QED
  BY <1>1, StreamAssumption, Zenon

(* An item is one of four kinds, and is known from its parts.               *)
LEMMA KindsOfItems ==
  ASSUME NEW it \in Items
  PROVE  \/ /\ it.kind = "line" /\ it.link = NoLink /\ it.bytes \in Responses
            /\ it = Event("line", NoLink, it.bytes)
         \/ it.kind = "prompt" /\ it = Event("prompt", NoLink, <<Greater>>)
         \/ it.kind = "misfit" /\ it = Event("misfit", NoLink, <<>>)
         \/ /\ it.kind = "data" /\ it.bytes \in Payloads
            /\ it.link \in IF multiple THEN Links ELSE {NoLink}
            /\ it = Event("data", it.link, it.bytes)
BY DEF Items, Event

(* A response is followed by its two bytes. *)
LEMMA LineEncoding ==
  ASSUME NEW it \in Items, it.kind = "line", NEW enc \in Encodings(it)
  PROVE  LET n == Len(it.bytes)
         IN /\ n \in Nat /\ enc \in Seq(Bytes) /\ Len(enc) = n + 2
            /\ \A i \in 1 .. n : enc[i] = it.bytes[i] /\ enc[i] # Lf
            /\ enc[n + 1] = Cr /\ enc[n + 2] = Lf
            /\ enc[1] \notin {Greater, Space, Ipd}
<1> DEFINE t == it.bytes
           n == Len(t)
           e == <<Cr, Lf>>
<1>1. t \in Responses /\ t \in Seq(Bytes) /\ n \in Nat
  BY KindsOfItems, StreamSizes, LenProperties
<1>2. enc = t \o e
  BY DEF Encodings
<1>3. e \in Seq(Bytes) /\ Len(e) = 2 /\ e[1] = Cr /\ e[2] = Lf
  BY DEF Bytes, Cr, Lf
<1> HIDE DEF e, t
<1>4. /\ enc \in Seq(Bytes) /\ Len(enc) = n + 2
      /\ \A i \in 1 .. (n + 2) : enc[i] = IF i <= n THEN t[i] ELSE e[i - n]
  <2>1. /\ t \o e \in Seq(Bytes) /\ Len(t \o e) = Len(t) + Len(e)
        /\ \A i \in 1 .. (Len(t) + Len(e)) : (t \o e)[i] =
             IF i <= Len(t) THEN t[i] ELSE e[i - Len(t)]
    BY <1>1, <1>3, ConcatProperties, Zenon
  <2>2. QED
    BY <1>2, <1>3, <2>1, Zenon
<1> HIDE DEF n
<1>5. \A i \in 1 .. n : enc[i] = t[i] /\ t[i] # Lf
  <2>1. \A i \in 1 .. n : i \in 1 .. (n + 2) /\ i <= n
    BY <1>1
  <2>2. QED
    BY <1>1, <1>4, <2>1, StreamSizes, Zenon DEF n
<1>6. enc[n + 1] = Cr /\ enc[n + 2] = Lf
  <2>1. /\ n + 1 \in 1 .. (n + 2) /\ n + 2 \in 1 .. (n + 2)
        /\ ~(n + 1 <= n) /\ ~(n + 2 <= n) /\ (n + 1) - n = 1 /\ (n + 2) - n = 2
    BY <1>1
  <2>2. QED
    BY <1>3, <1>4, <2>1, Zenon
<1>7. enc[1] \notin {Greater, Space, Ipd}
  <2>1. CASE t = <<>>
    <3>1. n = 0
      BY <2>1 DEF n
    <3>2. QED
      BY <1>6, <3>1 DEF Cr, Greater, Space, Ipd
  <2>2. CASE t # <<>>
    <3>1. 1 \in 1 .. n
      BY <1>1, <2>2, EmptySeq DEF n
    <3>2. QED
      BY <1>1, <1>5, <2>2, <3>1, StreamSizes, Zenon
  <2>3. QED
    BY <2>1, <2>2
<1> QED
  BY <1>1, <1>4, <1>5, <1>6, <1>7 DEF t, n

-----------------------------------------------------------------------------
(* Numbers in decimal. *)

(* f gives the values of the first digits of d, up to the n-th.             *)
ValuesUpTo(f, d, n) ==
  f = [i \in 0 .. n |-> IF i = 0 THEN 0 ELSE 10 * f[i - 1] + d[i]]

(* There are such values, however many digits there are: were there a       *)
(* least number of digits without, the values up to the one before could be *)
(* extended.                                                                *)
LEMMA ValuesExist ==
  ASSUME NEW d, NEW n \in Nat
  PROVE  \E f : ValuesUpTo(f, d, n)
<1> DEFINE S == {m \in Nat : ~\E f : ValuesUpTo(f, d, m)}
<1>1. S = {}
  <2> SUFFICES ASSUME S # {} PROVE FALSE
    OBVIOUS
  <2>1. PICK m \in S : \A k \in S : m <= k
    BY LeastNumber
  <2>2. m \in Nat /\ ~\E f : ValuesUpTo(f, d, m)
    OBVIOUS
  <2>3. CASE m = 0
    <3> DEFINE f == [i \in 0 .. 0 |-> 0]
    <3>1. \A i \in 0 .. 0 : i = 0
      OBVIOUS
    <3>2. ValuesUpTo(f, d, 0)
      BY <3>1 DEF ValuesUpTo
    <3>3. QED
      BY <2>2, <2>3, <3>2
  <2>4. CASE m # 0
    <3>1. m - 1 \in Nat /\ ~(m <= m - 1)
      BY <2>2, <2>4
    <3>2. PICK g : ValuesUpTo(g, d, m - 1)
      BY <2>1, <3>1
    <3> DEFINE step(h, i) == IF i = 0 THEN 0 ELSE 10 * h[i - 1] + d[i]
               f == [i \in 0 .. m |-> IF i = m THEN step(g, m) ELSE g[i]]
    <3>3. ASSUME NEW i \in 0 .. (m - 1) PROVE g[i] = step(g, i) /\ f[i] = g[i]
      BY <2>2, <3>1, <3>2 DEF ValuesUpTo
    <3>4. ASSUME NEW i \in 0 .. m PROVE f[i] = step(f, i)
      <4>1. i # 0 => i - 1 \in 0 .. (m - 1)
        BY <2>2
      <4>2. i # 0 => f[i - 1] = g[i - 1]
        BY <3>3, <4>1
      <4>3. step(f, i) = step(g, i)
        BY <4>2
      <4>4. CASE i = m
        <5>1. f[i] = step(g, i)
          BY <4>4
        <5>2. QED
          BY <4>3, <5>1
      <4>5. CASE i # m
        <5>1. i \in 0 .. (m - 1)
          BY <2>2, <4>5
        <5>2. f[i] = step(g, i)
          BY <3>3, <5>1
        <5>3. QED
          BY <4>3, <5>2
      <4>6. QED
        BY <4>4, <4>5
    <3>5. f = [i \in 0 .. m |-> f[i]]
      OBVIOUS
    <3> HIDE DEF f
    <3>6. f = [i \in 0 .. m |-> step(f, i)]
      BY <3>4, <3>5
    <3>7. ValuesUpTo(f, d, m)
      BY <3>6, Zenon DEF ValuesUpTo
    <3>8. QED
      BY <2>2, <3>7
  <2>5. QED
    BY <2>3, <2>4
<1> QED
  BY <1>1

(* So the values are what their definition says, one digit after another.   *)
LEMMA ValuesOfDigits ==
  ASSUME NEW d \in Seq(0 .. 9)
  PROVE  /\ Values(d)[0] = 0
         /\ \A i \in 1 .. Len(d) : Values(d)[i] = 10 * Values(d)[i - 1] + d[i]
<1> DEFINE v == CHOOSE f : ValuesUpTo(f, d, Len(d))
<1>1. Len(d) \in Nat
  BY LenProperties
<1>2. ValuesUpTo(v, d, Len(d))
  BY <1>1, ValuesExist
<1>3. Values(d) = v
  BY DEF Values, ValuesUpTo
<1> HIDE DEF v
<1>4. ASSUME NEW i \in 0 .. Len(d)
      PROVE  v[i] = IF i = 0 THEN 0 ELSE 10 * v[i - 1] + d[i]
  BY <1>2 DEF ValuesUpTo
<1>5. 0 \in 0 .. Len(d) /\ \A i \in 1 .. Len(d) : i \in 0 .. Len(d) /\ i # 0
  BY <1>1
<1> QED
  BY <1>3, <1>4, <1>5

(* They are numbers. *)
LEMMA ValuesAreNumbers ==
  ASSUME NEW d \in Seq(0 .. 9)
  PROVE  \A i \in 0 .. Len(d) : Values(d)[i] \in Nat
<1> DEFINE v == Values(d)
           S == {i \in 0 .. Len(d) : v[i] \notin Nat}
<1>1. Len(d) \in Nat
  BY LenProperties
<1>2. v[0] = 0 /\ \A i \in 1 .. Len(d) : v[i] = 10 * v[i - 1] + d[i]
  BY ValuesOfDigits
<1> HIDE DEF v
<1>3. S = {}
  <2> SUFFICES ASSUME S # {} PROVE FALSE
    OBVIOUS
  <2>1. PICK m \in S : \A k \in S : m <= k
    <3>1. S \subseteq Nat
      OBVIOUS
    <3>2. QED
      BY <3>1, LeastNumber
  <2>2. m # 0
    BY <1>2
  <2>3. m - 1 \in 0 .. Len(d) /\ ~(m <= m - 1) /\ m \in 1 .. Len(d)
    BY <1>1, <2>2
  <2>4. v[m - 1] \in Nat
    BY <2>1, <2>3
  <2>5. d[m] \in 0 .. 9
    BY <2>3, ElementOfSeq
  <2>6. v[m] \in Nat
    <3> DEFINE x == v[m - 1]
               y == d[m]
    <3>1. v[m] = 10 * x + y /\ x \in Nat /\ y \in 0 .. 9
      BY <1>2, <2>3, <2>4, <2>5, Zenon
    <3> HIDE DEF x, y
    <3>2. 10 * x + y \in Nat
      BY <3>1
    <3>3. QED
      BY <3>1, <3>2
  <2>7. QED
    BY <2>6
<1> QED
  BY <1>3 DEF v

(* Another digit never makes the value less. *)
LEMMA ValuesGrow ==
  ASSUME NEW d \in Seq(0 .. 9)
  PROVE  \A i \in 0 .. Len(d) : Values(d)[i] <= Values(d)[Len(d)]
<1> DEFINE v == Values(d)
           n == Len(d)
           S == {m \in 0 .. n : ~(v[n - m] <= v[n])}
<1>1. n \in Nat
  BY LenProperties
<1>2. \A i \in 1 .. n : v[i] = 10 * v[i - 1] + d[i] /\ d[i] \in 0 .. 9
  BY ValuesOfDigits, ElementOfSeq
<1>3. \A i \in 0 .. n : v[i] \in Nat
  BY ValuesAreNumbers
<1> HIDE DEF v, n
<1>4. S = {}
  <2> SUFFICES ASSUME S # {} PROVE FALSE
    OBVIOUS
  <2>1. PICK m \in S : \A k \in S : m <= k
    <3>1. S \subseteq Nat
      OBVIOUS
    <3>2. QED
      BY <3>1, LeastNumber
  <2>2. m \in 0 .. n /\ ~(v[n - m] <= v[n])
    OBVIOUS
  <2>3. m # 0
    <3>1. SUFFICES ASSUME m = 0 PROVE FALSE
      OBVIOUS
    <3>2. n - m = n /\ n \in 0 .. n
      BY <1>1, <3>1
    <3>3. v[n] \in Nat /\ ~(v[n] <= v[n])
      BY <1>3, <2>2, <3>2
    <3>4. QED
      BY <3>3
  <2>4. /\ m - 1 \in 0 .. n /\ ~(m <= m - 1) /\ n - (m - 1) \in 1 .. n
        /\ (n - (m - 1)) - 1 = n - m /\ n - m \in 0 .. n /\ n - (m - 1) \in 0 .. n
        /\ n \in 0 .. n
    BY <1>1, <2>2, <2>3
  <2>5. v[n - (m - 1)] <= v[n]
    BY <2>1, <2>4
  <2> DEFINE x == v[n - m]
             y == v[n - (m - 1)]
             z == d[n - (m - 1)]
  <2>6. x \in Nat /\ y \in Nat /\ v[n] \in Nat /\ y = 10 * x + z /\ z \in 0 .. 9
    BY <1>2, <1>3, <2>4
  <2>7. ~(x <= v[n]) /\ y <= v[n]
    BY <2>2, <2>5
  <2> HIDE DEF x, y, z
  <2>8. QED
    BY <2>6, <2>7
<1>5. ASSUME NEW i \in 0 .. n PROVE v[i] <= v[n]
  <2>1. n - i \in 0 .. n /\ n - (n - i) = i
    BY <1>1
  <2>2. n - i \notin S
    BY <1>4
  <2>3. QED
    BY <2>1, <2>2
<1> QED
  BY <1>5 DEF v, n

(* Without digits, or with another byte among them, there is no number.     *)
LEMMA NoNumber ==
  ASSUME NEW d, NEW limit, d = <<>> \/ \E i \in 1 .. Len(d) : d[i] > 9
  PROVE  Decimal(d, limit) = limit + 1
BY Zenon DEF Decimal

(* Digits are read as the number they say, unless it is above the limit:    *)
(* the limit is passed on the way exactly when it is passed at the end.     *)
LEMMA DecimalValue ==
  ASSUME NEW d \in Seq(0 .. 9), Len(d) > 0, NEW limit \in Nat
  PROVE  LET n == Values(d)[Len(d)]
         IN Decimal(d, limit) = IF n > limit THEN limit + 1 ELSE n
<1> DEFINE v == Values(d)
           l == Len(d)
           n == v[l]
<1>1. l \in Nat /\ d # <<>> /\ l \in 1 .. l
  BY LenProperties
<1>2. ASSUME NEW i \in 1 .. l
      PROVE  v[i] \in Nat /\ v[i] <= n /\ ~(d[i] > 9)
  <2>1. i \in 0 .. l
    BY <1>1
  <2>2. v[i] \in Nat /\ v[i] <= n
    BY <2>1, ValuesAreNumbers, ValuesGrow
  <2>3. d[i] \in 0 .. 9
    BY ElementOfSeq
  <2>4. QED
    BY <2>2, <2>3
<1>3. Decimal(d, limit) =
        IF d = <<>> \/ \E i \in 1 .. l : d[i] > 9 \/ v[i] > limit
          THEN limit + 1 ELSE n
  BY DEF Decimal
<1> HIDE DEF v, l
<1>4. (\E i \in 1 .. l : d[i] > 9 \/ v[i] > limit) => n > limit
  BY <1>1, <1>2
<1>5. n > limit => \E i \in 1 .. l : d[i] > 9 \/ v[i] > limit
  BY <1>1
<1> QED
  BY <1>1, <1>3, <1>4, <1>5 DEF v, l

(* How the modem writes a size: digits with that value.                     *)
LEMMA NumeralsOfSize ==
  ASSUME NEW n, NEW d \in Numerals(n)
  PROVE  /\ d \in Seq(0 .. 9) /\ Len(d) \in 1 .. SizeWidth
         /\ Values(d)[Len(d)] = n
<1>1. PICK k \in 1 .. SizeWidth : d \in [1 .. k -> 0 .. 9]
  BY DEF Numerals
<1>2. k \in Nat
  BY StreamSizes
<1>3. d \in Seq(0 .. 9) /\ Len(d) = k
  BY <1>1, <1>2
<1> QED
  BY <1>1, <1>3 DEF Numerals

-----------------------------------------------------------------------------
(* The headers of frames. *)

(* A link is one digit. *)
LEMMA LinkIsDigit ==
  ASSUME NEW a \in Links
  PROVE  a \in 0 .. 9
<1>1. LinkMax \in Nat /\ LinkMax <= 8
  BY StreamSizes, Zenon
<1>2. a \in 0 .. LinkMax + 1
  BY DEF Links
<1> QED
  BY <1>1, <1>2

(* The header of a frame with a size of digits d, without its colon.        *)
Heading(it, d) ==
  <<Ipd>> \o (IF multiple THEN <<it.link, Comma>> ELSE <<>>) \o d

(* The places of two sequences that follow one another.                     *)
LEMMA Joined ==
  ASSUME NEW s \in Seq(Bytes), NEW t \in Seq(Bytes)
  PROVE  /\ s \o t \in Seq(Bytes) /\ Len(s \o t) = Len(s) + Len(t)
         /\ Len(s) \in Nat /\ Len(t) \in Nat
         /\ \A i \in 1 .. Len(s) : (s \o t)[i] = s[i]
         /\ \A i \in 1 .. Len(t) : (s \o t)[Len(s) + i] = t[i]
<1> DEFINE m == Len(s)
           n == Len(t)
<1>0. m \in Nat /\ n \in Nat
  BY LenProperties
<1>1. /\ s \o t \in Seq(Bytes) /\ Len(s \o t) = m + n
      /\ \A i \in 1 .. (m + n) : (s \o t)[i] = IF i <= m THEN s[i] ELSE t[i - m]
  BY ConcatProperties, Zenon
<1> HIDE DEF m, n
<1>3. \A i \in 1 .. m : i \in 1 .. (m + n) /\ i <= m
  BY <1>0
<1>4. \A i \in 1 .. n : /\ m + i \in 1 .. (m + n) /\ ~(m + i <= m)
                       /\ (m + i) - m = i
  BY <1>0
<1>5. \A i \in 1 .. m : (s \o t)[i] = s[i]
  BY <1>1, <1>3, Zenon
<1>6. \A i \in 1 .. n : (s \o t)[m + i] = t[i]
  BY <1>1, <1>4, Zenon
<1> QED
  BY <1>0, <1>1, <1>5, <1>6, Zenon DEF m, n

(* Where the digits of a header begin, less one. *)
HeadStart == IF multiple THEN 3 ELSE 1

(* Where the parts of a header are.                                         *)
LEMMA HeadingPlaces ==
  ASSUME NEW it \in Items, it.kind = "data", NEW d \in Numerals(Len(it.bytes))
  PROVE  LET h == Heading(it, d)
         IN /\ h \in Seq(Bytes) /\ Len(h) = HeadStart + Len(d)
            /\ h[1] = Ipd
            /\ multiple => h[2] = it.link /\ h[3] = Comma
            /\ \A i \in 1 .. Len(d) : h[HeadStart + i] = d[i]
<1> DEFINE h == Heading(it, d)
           x == <<Ipd>>
           y == IF multiple THEN <<it.link, Comma>> ELSE <<>>
<1>1. it.bytes \in Payloads /\ it.link \in IF multiple THEN Links ELSE {NoLink}
  BY KindsOfItems
<1>2. d \in Seq(0 .. 9)
  BY NumeralsOfSize
<1>3. d \in Seq(Bytes)
  <2>1. 0 .. 9 \subseteq Bytes
    BY DEF Bytes
  <2>2. QED
    BY <1>2, <2>1, SeqMonotonic, Zenon
<1>4. x \in Seq(Bytes) /\ Len(x) = 1 /\ x[1] = Ipd
  BY DEF Bytes, Ipd
<1>5. CASE multiple
  <2> DEFINE z == <<it.link, Comma>>
  <2>1. z \in Seq(Bytes) /\ Len(z) = 2 /\ z[1] = it.link /\ z[2] = Comma
    <3>1. it.link \in Bytes /\ Comma \in Bytes
      <4>1. it.link \in 0 .. 9
        BY <1>1, <1>5, LinkIsDigit, Zenon
      <4>2. QED
        BY <4>1 DEF Bytes, Comma
    <3>2. QED
      BY <3>1
  <2>2. h = (x \o z) \o d
    BY <1>5 DEF Heading
  <2> HIDE DEF x, z, h
  <2>3. /\ x \o z \in Seq(Bytes) /\ Len(x \o z) = 3
        /\ (x \o z)[1] = Ipd /\ (x \o z)[2] = it.link /\ (x \o z)[3] = Comma
    <3>1. /\ x \o z \in Seq(Bytes) /\ Len(x \o z) = 1 + 2
          /\ \A i \in 1 .. 1 : (x \o z)[i] = x[i]
          /\ \A i \in 1 .. 2 : (x \o z)[1 + i] = z[i]
      BY <1>4, <2>1, Joined
    <3>2. /\ 1 \in 1 .. 1 /\ 1 \in 1 .. 2 /\ 2 \in 1 .. 2
          /\ 1 + 1 = 2 /\ 1 + 2 = 3
      OBVIOUS
    <3>3. QED
      BY <1>4, <2>1, <3>1, <3>2, Zenon
  <2>4. /\ h \in Seq(Bytes) /\ Len(h) = 3 + Len(d)
        /\ \A i \in 1 .. 3 : h[i] = (x \o z)[i]
        /\ \A i \in 1 .. Len(d) : h[3 + i] = d[i]
    <3> DEFINE w == x \o z
    <3>1. w \in Seq(Bytes) /\ Len(w) = 3 /\ h = w \o d
      BY <2>2, <2>3
    <3> HIDE DEF w
    <3>2. /\ w \o d \in Seq(Bytes) /\ Len(w \o d) = Len(w) + Len(d)
          /\ \A i \in 1 .. Len(w) : (w \o d)[i] = w[i]
          /\ \A i \in 1 .. Len(d) : (w \o d)[Len(w) + i] = d[i]
      BY <1>3, <3>1, Joined, Zenon
    <3>3. QED
      BY <3>1, <3>2, Zenon DEF w
  <2>5. HeadStart = 3 /\ 1 \in 1 .. 3 /\ 2 \in 1 .. 3 /\ 3 \in 1 .. 3
    BY <1>5 DEF HeadStart
  <2>6. QED
    BY <2>3, <2>4, <2>5, Zenon DEF h
<1>6. CASE ~multiple
  <2>1. h = (x \o <<>>) \o d
    BY <1>6 DEF Heading
  <2>2. x \o <<>> = x
    BY <1>4, ConcatEmptySeq
  <2> HIDE DEF x, h
  <2>2a. h = x \o d
    BY <2>1, <2>2
  <2>3. /\ h \in Seq(Bytes) /\ Len(h) = 1 + Len(d)
        /\ \A i \in 1 .. 1 : h[i] = x[i]
        /\ \A i \in 1 .. Len(d) : h[1 + i] = d[i]
    <3>1. /\ h \in Seq(Bytes) /\ Len(h) = Len(x) + Len(d)
          /\ \A i \in 1 .. Len(x) : h[i] = x[i]
          /\ \A i \in 1 .. Len(d) : h[Len(x) + i] = d[i]
      BY <1>3, <1>4, <2>2a, Joined
    <3>2. QED
      BY <1>4, <3>1, Zenon
  <2>4. HeadStart = 1 /\ 1 \in 1 .. 1
    BY <1>6 DEF HeadStart
  <2>5. QED
    BY <1>4, <1>6, <2>3, <2>4, Zenon DEF h
<1> QED
  BY <1>5, <1>6

(* A frame is its heading, a colon and its payload. *)
LEMMA FrameEncoding ==
  ASSUME NEW it \in Items, it.kind = "data", NEW enc \in Encodings(it)
  PROVE  \E d \in Numerals(Len(it.bytes)) :
           LET c == HeadStart + Len(d) + 1
               n == Len(it.bytes)
           IN
            /\ enc \in Seq(Bytes) /\ Len(enc) = c + n
            /\ enc[1] = Ipd
            /\ multiple => enc[2] = it.link /\ enc[3] = Comma
            /\ \A i \in 1 .. Len(d) : enc[HeadStart + i] = d[i]
            /\ enc[c] = Colon
            /\ \A i \in 1 .. n : enc[c + i] = it.bytes[i]
<1>0. PICK d \in Numerals(Len(it.bytes)) :
             enc = Heading(it, d) \o <<Colon>> \o it.bytes
  BY DEF Encodings, Heading
<1> DEFINE h == Heading(it, d)
           p == it.bytes
           n == Len(p)
           m == HeadStart + Len(d)
           x == <<Colon>>
<1>1. p \in Seq(Bytes) /\ n \in Nat
  BY KindsOfItems, StreamSizes, LenProperties
<1>2. /\ Len(d) \in Nat /\ Len(d) > 0
      /\ HeadStart \in {1, 3} /\ (multiple => HeadStart = 3)
  BY NumeralsOfSize, StreamSizes DEF HeadStart
<1>3. /\ h \in Seq(Bytes) /\ Len(h) = m
      /\ h[1] = Ipd
      /\ multiple => h[2] = it.link /\ h[3] = Comma
      /\ \A i \in 1 .. Len(d) : h[HeadStart + i] = d[i]
  BY HeadingPlaces
<1>4. x \in Seq(Bytes) /\ Len(x) = 1 /\ x[1] = Colon
  BY DEF Bytes, Colon
<1>5. enc = (h \o x) \o p
  BY <1>0
<1> HIDE DEF h, p, n, x
<1>6. /\ h \o x \in Seq(Bytes) /\ Len(h \o x) = m + 1 /\ m \in Nat
      /\ \A i \in 1 .. m : (h \o x)[i] = h[i]
      /\ (h \o x)[m + 1] = Colon
  <2>1. /\ h \o x \in Seq(Bytes) /\ Len(h \o x) = m + 1 /\ m \in Nat
        /\ \A i \in 1 .. m : (h \o x)[i] = h[i]
        /\ \A i \in 1 .. 1 : (h \o x)[m + i] = x[i]
    <3> HIDE DEF m
    <3>1. /\ h \o x \in Seq(Bytes) /\ Len(h \o x) = Len(h) + Len(x)
          /\ Len(h) \in Nat
          /\ \A i \in 1 .. Len(h) : (h \o x)[i] = h[i]
          /\ \A i \in 1 .. Len(x) : (h \o x)[Len(h) + i] = x[i]
      BY <1>3, <1>4, Joined, Zenon
    <3>2. QED
      BY <1>3, <1>4, <3>1, Zenon
  <2>2. 1 \in 1 .. 1
    OBVIOUS
  <2>3. QED
    BY <1>4, <2>1, <2>2, Zenon
<1>7. /\ enc \in Seq(Bytes) /\ Len(enc) = m + 1 + n
      /\ \A i \in 1 .. (m + 1) : enc[i] = (h \o x)[i]
      /\ \A i \in 1 .. n : enc[m + 1 + i] = p[i]
  <2> DEFINE q == h \o x
  <2>1. q \in Seq(Bytes) /\ Len(q) = m + 1 /\ enc = q \o p /\ Len(p) = n
    BY <1>5, <1>6 DEF n
  <2> HIDE DEF m, q
  <2>2. /\ enc \in Seq(Bytes) /\ Len(enc) = Len(q) + Len(p)
        /\ \A i \in 1 .. Len(q) : enc[i] = q[i]
        /\ \A i \in 1 .. Len(p) : enc[Len(q) + i] = p[i]
    BY <1>1, <2>1, Joined
  <2>3. QED
    BY <2>1, <2>2, Zenon DEF q
<1>8. \A i \in 1 .. m : enc[i] = h[i]
  <2>1. \A i \in 1 .. m : i \in 1 .. (m + 1)
    BY <1>6
  <2>2. QED
    BY <1>6, <1>7, <2>1, Zenon
<1>9. /\ 1 \in 1 .. m /\ (multiple => 2 \in 1 .. m /\ 3 \in 1 .. m)
      /\ \A i \in 1 .. Len(d) : HeadStart + i \in 1 .. m
      /\ m + 1 \in 1 .. (m + 1)
  BY <1>2
<1> HIDE DEF m
<1>10. /\ enc[1] = Ipd /\ (multiple => enc[2] = it.link /\ enc[3] = Comma)
       /\ \A i \in 1 .. Len(d) : enc[HeadStart + i] = d[i]
  BY <1>3, <1>8, <1>9, Zenon
<1>11. enc[m + 1] = Colon
  BY <1>6, <1>7, <1>9, Zenon
<1> QED
  BY <1>7, <1>10, <1>11, Zenon DEF m, n, p

-----------------------------------------------------------------------------
(* The numbers of a header. *)

(* At its colon a header is taken exactly when its frame fits, with the     *)
(* link and the size that the modem wrote.                                  *)
LEMMA HeaderIsRead ==
  ASSUME NEW it \in Items, it.kind = "data", NEW d \in Numerals(Len(it.bytes)),
         buffer \in Seq(Bytes), Len(buffer) = HeadStart + Len(d),
         multiple => buffer[2] = it.link /\ buffer[3] = Comma,
         \A i \in 1 .. Len(d) : buffer[HeadStart + i] = d[i]
  PROVE  /\ (multiple /\ HeaderLink > LinkMax) \/ HeaderSize > DataMax
              <=> ~Fits(it)
         /\ Fits(it) => /\ HeaderSize = Len(it.bytes)
                        /\ multiple => HeaderLink = it.link
<1> DEFINE n == Len(it.bytes)
           k == Len(buffer)
<1>1. /\ n \in Nat
      /\ it.link \in IF multiple THEN Links ELSE {NoLink}
  BY KindsOfItems, StreamSizes, LenProperties
<1>2. /\ d \in Seq(0 .. 9) /\ Len(d) \in Nat /\ Len(d) > 0
      /\ Values(d)[Len(d)] = n
  BY NumeralsOfSize, StreamSizes
<1>3. Fits(it) <=> n <= DataMax /\ (multiple => it.link <= LinkMax)
  BY DEF Fits
<1>4. Decimal(d, DataMax) = IF n > DataMax THEN DataMax + 1 ELSE n
  <2>1. DataMax \in Nat
    BY StreamSizes, Zenon
  <2>2. QED
    BY <1>2, <2>1, DecimalValue
<1>5. k \in Nat /\ k = HeadStart + Len(d)
  BY LenProperties
<1> HIDE DEF n, k
<1>6. HeadStart \in {1, 3}
  BY DEF HeadStart
<1>7. SubSeq(buffer, HeadStart + 1, k) = d
  <2> DEFINE s == SubSeq(buffer, HeadStart + 1, k)
             m == HeadStart + 1
  <2>1. \A i \in m .. k : buffer[i] \in Bytes
    <3>1. \A i \in m .. k : i \in 1 .. Len(buffer)
      BY <1>5, <1>6 DEF k
    <3>2. QED
      BY <3>1, ElementOfSeq
  <2>2. m \in Int /\ k \in Int /\ m <= k /\ k - m + 1 = Len(d)
        /\ \A i \in 1 .. Len(d) : m + i - 1 = HeadStart + i
    <3> DEFINE a == HeadStart
               b == Len(d)
    <3>1. a \in Nat /\ b \in Nat /\ b > 0 /\ k = a + b
      BY <1>2, <1>5, <1>6
    <3> HIDE DEF a, b
    <3>2. /\ a + 1 \in Int /\ k \in Int /\ a + 1 <= k /\ k - (a + 1) + 1 = b
          /\ \A i \in 1 .. b : (a + 1) + i - 1 = a + i
      BY <3>1
    <3>3. QED
      BY <3>2 DEF a, b
  <2> HIDE DEF m
  <2>3. /\ SubSeq(buffer, m, k) \in Seq(Bytes)
        /\ Len(SubSeq(buffer, m, k)) = IF m <= k THEN k - m + 1 ELSE 0
        /\ \A i \in 1 .. k - m + 1 : SubSeq(buffer, m, k)[i] = buffer[m + i - 1]
    BY <2>1, <2>2, SubSeqProperties
  <2>4. /\ s \in Seq(Bytes) /\ Len(s) = Len(d)
        /\ \A i \in 1 .. Len(d) : s[i] = d[i]
    BY <2>2, <2>3, Zenon DEF m
  <2>5. d \in Seq(Bytes)
    <3>1. 0 .. 9 \subseteq Bytes
      BY DEF Bytes
    <3>2. QED
      BY <1>2, <3>1, SeqMonotonic, Zenon
  <2> HIDE DEF s
  <2>6. s = d
    BY <2>4, <2>5, SeqEqual
  <2>7. QED
    BY <2>6 DEF s
<1>8. CASE ~multiple
  <2>1. HeadStart + 1 = 2
    BY <1>8 DEF HeadStart
  <2>2. HeaderSize = Decimal(d, DataMax)
    BY <1>7, <1>8, <2>1, Zenon DEF HeaderSize, k
  <2>3. QED
    BY <1>1, <1>3, <1>4, <1>8, <2>2, StreamSizes DEF n
<1>9. CASE multiple
  <2>1. buffer[2] = it.link /\ buffer[3] = Comma /\ HeadStart = 3 /\ k >= 4
    BY <1>2, <1>5, <1>9 DEF HeadStart
  <2>2. it.link \in 0 .. 9
    <3>1. it.link \in Links
      BY <1>1, <1>9
    <3>2. QED
      BY <3>1, LinkIsDigit, Zenon
  <2> DEFINE at == {i \in 2 .. Len(buffer) : buffer[i] = Comma}
  <2>3. 3 \in at /\ \A i \in at : 3 <= i
    <3>1. buffer[2] # Comma
      BY <2>1, <2>2 DEF Comma
    <3>2. QED
      BY <2>1, <3>1 DEF k
  <2>4. CommaAt = 3
    <3> HIDE DEF at
    <3>1. \A i \in at : (\A j \in at : i <= j) => i = 3
      <4>1. at \subseteq 2 .. Len(buffer)
        BY DEF at
      <4>2. QED
        BY <2>3, <4>1
    <3>2. CommaAt =
            IF at = {} THEN 0 ELSE CHOOSE i \in at : \A j \in at : i <= j
      BY Zenon DEF CommaAt, at
    <3>3. QED
      BY <2>3, <3>1, <3>2
  <2> DEFINE l == SubSeq(buffer, 2, 2)
  <2>5. l \in Seq(0 .. 9) /\ Len(l) = 1 /\ l[1] = it.link
    <3>1. 2 \in Int /\ \A i \in 2 .. 2 : buffer[i] \in 0 .. 9
      BY <2>1, <2>2
    <3>2. /\ l \in Seq(0 .. 9) /\ Len(l) = IF 2 <= 2 THEN 2 - 2 + 1 ELSE 0
          /\ \A i \in 1 .. 2 - 2 + 1 : l[i] = buffer[2 + i - 1]
      BY <3>1, SubSeqProperties
    <3> HIDE DEF l
    <3>3. QED
      BY <2>1, <3>2
  <2>6. Decimal(l, LinkMax) = IF it.link > LinkMax THEN LinkMax + 1 ELSE it.link
    <3> HIDE DEF l
    <3>1. Values(l)[1] = 10 * Values(l)[0] + l[1] /\ Values(l)[0] = 0
      <4>1. 1 \in 1 .. 1 /\ 1 - 1 = 0
        OBVIOUS
      <4>2. QED
        BY <2>5, <4>1, ValuesOfDigits
    <3>2. Values(l)[1] = it.link
      BY <2>2, <2>5, <3>1
    <3>3. Len(l) > 0 /\ LinkMax \in Nat
      BY <2>5, StreamSizes
    <3>4. QED
      BY <2>5, <3>2, <3>3, DecimalValue
  <2>7. HeaderLink = Decimal(l, LinkMax)
    <3>1. CommaAt - 1 = 2 /\ CommaAt # 0
      BY <2>4
    <3>2. QED
      BY <3>1, Zenon DEF HeaderLink
  <2>8. HeaderSize = Decimal(d, DataMax)
    <3>1. CommaAt + 1 = HeadStart + 1
      BY <2>1, <2>4
    <3>2. QED
      BY <1>7, <1>9, <3>1, Zenon DEF HeaderSize, k
  <2> HIDE DEF l
  <2>9. LinkMax \in Nat /\ DataMax \in Nat
    BY StreamSizes, Zenon
  <2>10. /\ HeaderLink = IF it.link > LinkMax THEN LinkMax + 1 ELSE it.link
         /\ HeaderSize = IF n > DataMax THEN DataMax + 1 ELSE n
    BY <1>4, <2>6, <2>7, <2>8, Zenon
  <2>11. HeaderLink > LinkMax <=> ~(it.link <= LinkMax)
    BY <2>2, <2>9, <2>10
  <2>12. HeaderSize > DataMax <=> ~(n <= DataMax)
    BY <1>1, <2>9, <2>10 DEF n
  <2>13. it.link <= LinkMax => HeaderLink = it.link
    BY <2>2, <2>9, <2>10
  <2>14. n <= DataMax => HeaderSize = n
    BY <1>1, <2>9, <2>10 DEF n
  <2>15. QED
    BY <1>3, <1>9, <2>11, <2>12, <2>13, <2>14, Zenon DEF n
<1> QED
  BY <1>8, <1>9

-----------------------------------------------------------------------------
(* What arrives. *)

(* The next byte of what is coming, and what comes after it.                *)
LEMMA Arrival ==
  ASSUME NEW enc \in Seq(Bytes), NEW k \in 0 .. Len(enc),
         SubSeq(enc, k + 1, Len(enc)) # <<>>
  PROVE  /\ k < Len(enc) /\ k + 1 \in 0 .. Len(enc)
         /\ Head(SubSeq(enc, k + 1, Len(enc))) = enc[k + 1]
         /\ Tail(SubSeq(enc, k + 1, Len(enc))) = SubSeq(enc, (k + 1) + 1, Len(enc))
<1>0. Len(enc) \in Nat
  BY LenProperties
<1>1. k < Len(enc)
  <2>1. SUFFICES ASSUME ~(k < Len(enc)) PROVE FALSE
    OBVIOUS
  <2>2. k + 1 > Len(enc) /\ k + 1 \in Int
    BY <1>0, <2>1
  <2>3. QED
    BY <1>0, <2>2, SubSeqEmpty
<1>2. \A i \in k + 1 .. Len(enc) : enc[i] \in Bytes
  <2>1. \A i \in k + 1 .. Len(enc) : i \in 1 .. Len(enc)
    BY <1>0
  <2>2. QED
    BY <2>1, ElementOfSeq
<1>3. k + 1 \in Int /\ Len(enc) \in Int /\ k + 1 <= Len(enc)
  BY <1>0, <1>1
<1> DEFINE m == k + 1
           l == Len(enc)
<1> HIDE DEF m, l
<1>4. m \in Int /\ l \in Int /\ m <= l /\ \A i \in m .. l : enc[i] \in Bytes
  BY <1>2, <1>3 DEF m, l
<1>5. /\ Head(SubSeq(enc, m, l)) = enc[m]
      /\ Tail(SubSeq(enc, m, l)) = SubSeq(enc, m + 1, l)
  BY <1>4, HeadTailOfSubSeq
<1> QED
  BY <1>0, <1>1, <1>5 DEF m, l

(* A part that ends at a byte, and one that ends at the next.               *)
LEMMA Grown ==
  ASSUME NEW enc \in Seq(Bytes), NEW k \in 0 .. Len(enc), k < Len(enc),
         NEW a \in Nat \ {0}, a <= k + 1
  PROVE  Append(SubSeq(enc, a, k), enc[k + 1]) = SubSeq(enc, a, k + 1)
<1>0. Len(enc) \in Nat
  BY LenProperties
<1>1. k + 1 \in Int /\ (k + 1) - 1 = k /\ a \in Int
  BY <1>0
<1>2. \A i \in a .. k + 1 : enc[i] \in Bytes
  <2>1. \A i \in a .. k + 1 : i \in 1 .. Len(enc)
    BY <1>0
  <2>2. QED
    BY <2>1, ElementOfSeq
<1> DEFINE n == k + 1
<1>3. n \in Int /\ a <= n /\ n - 1 = k /\ \A i \in a .. n : enc[i] \in Bytes
  BY <1>1, <1>2
<1> HIDE DEF n
<1>4. SubSeq(enc, a, n) = Append(SubSeq(enc, a, n - 1), enc[n])
  BY <1>1, <1>3, SubSeqRecursiveSecond
<1>5. QED
  BY <1>3, <1>4 DEF n

(* The first k bytes.                                                       *)
LEMMA Prefix ==
  ASSUME NEW enc \in Seq(Bytes), NEW k \in 0 .. Len(enc)
  PROVE  /\ SubSeq(enc, 1, k) \in Seq(Bytes) /\ Len(SubSeq(enc, 1, k)) = k
         /\ \A i \in 1 .. k : SubSeq(enc, 1, k)[i] = enc[i]
         /\ k = 0 => SubSeq(enc, 1, k) = <<>>
         /\ k > 0 => SubSeq(enc, 1, k) # <<>>
<1>0. Len(enc) \in Nat
  BY LenProperties
<1>1. \A i \in 1 .. k : enc[i] \in Bytes
  <2>1. \A i \in 1 .. k : i \in 1 .. Len(enc)
    BY <1>0
  <2>2. QED
    BY <2>1, ElementOfSeq
<1>2. k \in Int /\ 1 \in Int
  BY <1>0
<1>3. /\ SubSeq(enc, 1, k) \in Seq(Bytes)
      /\ Len(SubSeq(enc, 1, k)) = IF 1 <= k THEN k - 1 + 1 ELSE 0
      /\ \A i \in 1 .. k - 1 + 1 : SubSeq(enc, 1, k)[i] = enc[1 + i - 1]
  BY <1>1, <1>2, SubSeqProperties
<1> DEFINE s == SubSeq(enc, 1, k)
<1> HIDE DEF s
<1>4. Len(s) = k
  BY <1>0, <1>3 DEF s
<1>5. \A i \in 1 .. k : s[i] = enc[i]
  <2>1. \A i \in 1 .. k : i \in 1 .. k - 1 + 1 /\ 1 + i - 1 = i
    BY <1>0
  <2>2. QED
    BY <1>3, <2>1, Zenon DEF s
<1>6. s \in Seq(Bytes)
  BY <1>3 DEF s
<1>7. (k = 0 => s = <<>>) /\ (k > 0 => s # <<>>)
  BY <1>0, <1>4, <1>6, EmptySeq
<1> QED
  BY <1>4, <1>5, <1>6, <1>7 DEF s
-----------------------------------------------------------------------------
(* How the items look to the parser. *)

(* The length of the header of a frame without its colon.                   *)
HeadLen(it, enc) == Len(enc) - Len(it.bytes) - 1

(* A frame: no byte before the colon is one that ends or poisons a header.  *)
LEMMA FrameShape ==
  ASSUME NEW it \in Items, it.kind = "data", NEW enc \in Encodings(it)
  PROVE  /\ HeadLen(it, enc) \in Nat /\ 2 <= HeadLen(it, enc)
         /\ HeadLen(it, enc) <= LineMax /\ Len(it.bytes) \in Nat
         /\ enc \in Seq(Bytes) /\ Len(enc) = HeadLen(it, enc) + 1 + Len(it.bytes)
         /\ enc[1] = Ipd /\ enc[HeadLen(it, enc) + 1] = Colon
         /\ \A i \in 1 .. HeadLen(it, enc) : enc[i] \in 0 .. 10 \cup {Ipd}
         /\ SubSeq(enc, HeadLen(it, enc) + 2, Len(enc)) = it.bytes
<1> DEFINE n == Len(it.bytes)
           h == HeadLen(it, enc)
           p == it.bytes
<1>1. /\ p \in Seq(Bytes) /\ n \in Nat
      /\ it.link \in IF multiple THEN Links ELSE {NoLink}
  BY KindsOfItems, StreamSizes, LenProperties
<1>a. PICK d \in Numerals(Len(it.bytes)) :
        /\ enc \in Seq(Bytes) /\ Len(enc) = HeadStart + Len(d) + 1 + n
        /\ enc[1] = Ipd
        /\ multiple => enc[2] = it.link /\ enc[3] = Comma
        /\ \A i \in 1 .. Len(d) : enc[HeadStart + i] = d[i]
        /\ enc[HeadStart + Len(d) + 1] = Colon
        /\ \A i \in 1 .. n : enc[HeadStart + Len(d) + 1 + i] = p[i]
  BY FrameEncoding
<1>2. /\ d \in Seq(0 .. 9) /\ Len(d) \in 1 .. SizeWidth
      /\ SizeWidth \in Nat /\ LineMax \in Nat /\ 3 + SizeWidth <= LineMax
  BY NumeralsOfSize, StreamSizes
<1>3. \A i \in 1 .. Len(d) : d[i] \in 0 .. 9
  BY <1>2, ElementOfSeq
<1>4. HeadStart = IF multiple THEN 3 ELSE 1
  BY DEF HeadStart
<1>5. h = HeadStart + Len(d)
  <2> DEFINE a == HeadStart
             b == Len(d)
  <2>1. a \in Nat /\ b \in Nat /\ Len(enc) = a + b + 1 + n
    BY <1>2, <1>4, <1>a
  <2> HIDE DEF a, b
  <2>2. Len(enc) - n - 1 = a + b
    BY <1>1, <2>1
  <2>3. QED
    BY <2>2 DEF HeadLen, a, b
<1>6. multiple => it.link \in 0 .. 10
  <2>1. LinkMax \in Nat /\ LinkMax <= 8
    BY StreamSizes, Zenon
  <2>2. QED
    BY <1>1, <2>1 DEF Links
<1> HIDE DEF n, h, p
<1>7. h \in Nat /\ 2 <= h /\ h <= LineMax
  <2> DEFINE a == HeadStart
             b == Len(d)
  <2>1. (a = 1 \/ a = 3) /\ b \in 1 .. SizeWidth /\ h = a + b
    BY <1>2, <1>4, <1>5
  <2> HIDE DEF a, b
  <2>2. QED
    BY <1>2, <2>1
<1>8. ASSUME NEW i \in 1 .. h PROVE enc[i] \in 0 .. 10 \cup {Ipd}
  <2>1. CASE i > HeadStart
    <3>1. i - HeadStart \in 1 .. Len(d) /\ HeadStart + (i - HeadStart) = i
      BY <1>2, <1>4, <1>5, <2>1
    <3>2. enc[i] = d[i - HeadStart] /\ d[i - HeadStart] \in 0 .. 9
      BY <1>3, <1>a, <3>1, Zenon
    <3>3. QED
      BY <3>2
  <2>2. CASE ~(i > HeadStart)
    <3>1. i = 1 \/ (multiple /\ (i = 2 \/ i = 3))
      BY <1>4, <2>2
    <3>2. QED
      BY <1>6, <1>a, <3>1 DEF Comma
  <2>3. QED
    BY <2>1, <2>2
<1>9. Len(enc) = h + 1 + n /\ enc[h + 1] = Colon
  BY <1>5, <1>a, Zenon
<1>10. SubSeq(enc, h + 2, Len(enc)) = p
  <2> DEFINE m == h + 2
             l == Len(enc)
             s == SubSeq(enc, m, l)
  <2>0. h \in Int /\ n \in Nat /\ l = h + 1 + n
    BY <1>1, <1>7, <1>9
  <2>1. /\ m \in Int /\ l \in Int /\ (m <= l => l - m + 1 = n)
        /\ (~(m <= l) => n = 0) /\ l - m + 1 = n
        /\ \A i \in 1 .. n : m + i - 1 = h + 1 + i
    BY <2>0
  <2>2. \A i \in m .. l : enc[i] \in Bytes
    <3>1. \A i \in m .. l : i \in 1 .. Len(enc)
      BY <1>7, <2>1
    <3>2. QED
      BY <1>a, <3>1, ElementOfSeq
  <2> HIDE DEF m, l
  <2>3. /\ SubSeq(enc, m, l) \in Seq(Bytes)
        /\ Len(SubSeq(enc, m, l)) = IF m <= l THEN l - m + 1 ELSE 0
        /\ \A i \in 1 .. l - m + 1 : SubSeq(enc, m, l)[i] = enc[m + i - 1]
    BY <2>1, <2>2, SubSeqProperties
  <2>4. Len(s) = n
    BY <2>1, <2>3
  <2>5. /\ s \in Seq(Bytes) /\ Len(s) = Len(p)
        /\ \A i \in 1 .. Len(p) : s[i] = p[i]
    BY <1>5, <1>a, <2>1, <2>3, <2>4, Zenon DEF n, p
  <2> HIDE DEF s
  <2>6. s = p
    BY <1>1, <2>5, SeqEqual
  <2>7. QED
    BY <2>6 DEF s, m, l
<1> QED
  BY <1>1, <1>7, <1>8, <1>9, <1>10, <1>a, Zenon DEF h, n, p

(* A misfit: only its last byte ends it.                                    *)
LEMMA MisfitShape ==
  ASSUME NEW it \in Items, it.kind = "misfit", NEW enc \in Encodings(it)
  PROVE  /\ enc \in Seq(Bytes) /\ Len(enc) \in {3, 4} /\ enc[1] = Ipd
         /\ enc[Len(enc)] \in {Colon, Lf}
         /\ \A i \in 1 .. (Len(enc) - 1) : enc[i] \notin {Colon, Lf, Nul}
         /\ enc[Len(enc)] = Colon => Len(enc) = 3 /\ enc[2] \in {Letter, Comma}
<1>1. enc = <<Ipd, 1, Cr, Lf>> \/ enc = <<Ipd, Letter, Colon>>
        \/ enc = <<Ipd, Comma, Colon>>
  BY DEF Encodings
<1>2. CASE enc = <<Ipd, 1, Cr, Lf>>
  <2>1. /\ enc \in Seq(Bytes) /\ Len(enc) = 4
        /\ enc[1] = Ipd /\ enc[2] = 1 /\ enc[3] = Cr /\ enc[4] = Lf
    BY <1>2 DEF Bytes, Ipd, Cr, Lf
  <2>2. \A i \in 1 .. (4 - 1) : i = 1 \/ i = 2 \/ i = 3
    OBVIOUS
  <2>3. QED
    BY <2>1, <2>2 DEF Ipd, Cr, Lf, Colon, Nul
<1>3. ASSUME NEW b \in {Letter, Comma}, enc = <<Ipd, b, Colon>>
      PROVE  /\ enc \in Seq(Bytes) /\ Len(enc) = 3
             /\ enc[1] = Ipd /\ enc[2] = b /\ enc[3] = Colon
  BY <1>3 DEF Bytes, Ipd, Letter, Comma, Colon
<1>4. CASE enc = <<Ipd, Letter, Colon>> \/ enc = <<Ipd, Comma, Colon>>
  <2>1. /\ enc \in Seq(Bytes) /\ Len(enc) = 3
        /\ enc[1] = Ipd /\ enc[2] \in {Letter, Comma} /\ enc[3] = Colon
    BY <1>3, <1>4
  <2>2. \A i \in 1 .. (3 - 1) : i = 1 \/ i = 2
    OBVIOUS
  <2>3. QED
    BY <2>1, <2>2 DEF Ipd, Letter, Comma, Colon, Lf, Nul
<1> QED
  BY <1>1, <1>2, <1>4

(* A prompt: a space may follow.                                            *)
LEMMA PromptShape ==
  ASSUME NEW it \in Items, it.kind = "prompt", NEW enc \in Encodings(it)
  PROVE  /\ enc \in Seq(Bytes) /\ Len(enc) \in {1, 2} /\ enc[1] = Greater
         /\ SubSeq(enc, 2, Len(enc)) \in {<<>>, <<Space>>}
<1>1. enc = <<Greater>> \/ enc = <<Greater, Space>>
  BY DEF Encodings
<1>2. CASE enc = <<Greater>>
  <2>1. enc \in Seq(Bytes) /\ Len(enc) = 1 /\ enc[1] = Greater
    BY <1>2 DEF Bytes, Greater
  <2>2. SubSeq(enc, 2, 1) = <<>>
    BY SubSeqEmpty
  <2>3. QED
    BY <2>1, <2>2
<1>3. CASE enc = <<Greater, Space>>
  <2>1. enc \in Seq(Bytes) /\ Len(enc) = 2 /\ enc[1] = Greater
    BY <1>3 DEF Bytes, Greater, Space
  <2>2. SubSeq(enc, 2, 2) = <<Space>>
    <3>1. Append(SubSeq(enc, 2, 1), enc[1 + 1]) = SubSeq(enc, 2, 1 + 1)
      BY <2>1, Grown
    <3>2. SubSeq(enc, 2, 1) = <<>> /\ enc[2] = Space
      BY <1>3, SubSeqEmpty
    <3>3. 1 + 1 = 2 /\ Append(<<>>, Space) = <<Space>>
      OBVIOUS
    <3>4. QED
      BY <3>1, <3>2, <3>3
  <2>3. QED
    BY <2>1, <2>2
<1> QED
  BY <1>1, <1>2, <1>3

(* The first byte tells prompts and frames from lines.                      *)
LEMMA Begins ==
  ASSUME NEW it \in Items, NEW enc \in Encodings(it)
  PROVE  /\ enc \in Seq(Bytes) /\ Len(enc) \in Nat /\ Len(enc) > 0
         /\ enc[1] # Space
         /\ enc[1] = Greater <=> it.kind = "prompt"
         /\ enc[1] = Ipd <=> it.kind \in {"data", "misfit"}
<1>1. CASE it.kind = "line"
  BY <1>1, LineEncoding
<1>2. CASE it.kind = "prompt"
  BY <1>2, PromptShape DEF Greater, Space, Ipd
<1>3. CASE it.kind = "misfit"
  BY <1>3, MisfitShape DEF Greater, Space, Ipd
<1>4. CASE it.kind = "data"
  BY <1>4, FrameShape DEF Greater, Space, Ipd
<1>5. it.kind \in {"line", "prompt", "misfit", "data"}
  BY KindsOfItems
<1> QED
  BY <1>1, <1>2, <1>3, <1>4, <1>5

-----------------------------------------------------------------------------
(* Between two bytes. *)

(* The parser has the first k bytes of a line, a header or a prompt.        *)
Reading(enc, k) ==
  /\ k < Len(enc)
  /\ buffer = SubSeq(enc, 1, k) /\ missing = 0
  /\ k > 0 => ~promptSpace
  /\ item.kind = "prompt" => k = 0
  /\ item.kind = "line" => k <= LineMax /\ \A i \in 1 .. k : enc[i] # Nul
  /\ item.kind = "data" => k <= HeadLen(item, enc)

(* It has the header of a frame and the part of the payload up to there.    *)
InPayload(enc, k) ==
  /\ item.kind = "data" /\ Fits(item)
  /\ HeadLen(item, enc) < k /\ k < Len(enc)
  /\ buffer = SubSeq(enc, HeadLen(item, enc) + 2, k)
  /\ missing = Len(item.bytes) /\ link = item.link

(* An item has begun and its last byte has not arrived.                     *)
UnderWay ==
  /\ events = <<>>
  /\ \E enc \in Encodings(item) : \E k \in 0 .. Len(enc) :
       /\ coming = SubSeq(enc, k + 1, Len(enc))
       /\ Reading(enc, k) \/ InPayload(enc, k)

(* The item has been given; only the space of a prompt can be left.         *)
Done ==
  /\ buffer = <<>> /\ missing = 0
  /\ Fits(item) /\ events = Given(item)
  /\ coming # <<>> => coming = <<Space>> /\ promptSpace

(* The invariant: without an error the item is done or under way; with      *)
(* one nothing of it has been given.                                        *)
StreamInv ==
  /\ multiple \in BOOLEAN /\ item \in Items
  /\ error \in {"none", "late", "bad"}
  /\ error = "none" => Done \/ UnderWay
  /\ error # "none" => events = <<>>
  /\ error = "bad" => ~Fits(item)

(* What depends on the item alone stays with it.                            *)
LEMMA SameItem ==
  ASSUME UNCHANGED <<multiple, item>>
  PROVE  /\ Encodings(item)' = Encodings(item) /\ Items' = Items
         /\ Fits(item)' <=> Fits(item)
         /\ Given(item)' = Given(item)
<1>1. Encodings(item)' = Encodings(item)
  BY DEF Encodings
<1>2. Items' = Items
  BY DEF Items
<1>3. Fits(item)' <=> Fits(item)
  BY DEF Fits
<1>4. Given(item)' = Given(item)
  BY DEF Given
<1> QED
  BY <1>1, <1>2, <1>3, <1>4

(* A byte continues the item that is under way, or it is a prompt's space.  *)
LEMMA NextByte ==
  ASSUME StreamInv, NEW byte \in Bytes, Arrives(byte)
  PROVE  \/ Done /\ byte = Space /\ promptSpace /\ coming' = <<>>
         \/ /\ events = <<>>
            /\ \E enc \in Encodings(item) : \E k \in 0 .. Len(enc) :
                 /\ k < Len(enc) /\ k + 1 \in 0 .. Len(enc)
                 /\ byte = enc[k + 1]
                 /\ coming' = SubSeq(enc, (k + 1) + 1, Len(enc))
                 /\ Reading(enc, k) \/ InPayload(enc, k)
<1>1. CASE Done
  <2>1. coming = <<Space>> /\ promptSpace
    BY <1>1 DEF Done, Arrives
  <2>2. byte = Space /\ coming' = <<>>
    BY <2>1 DEF Arrives
  <2>3. QED
    BY <1>1, <2>1, <2>2
<1>2. CASE UnderWay
  <2>1. PICK enc \in Encodings(item) : \E k \in 0 .. Len(enc) :
               /\ coming = SubSeq(enc, k + 1, Len(enc))
               /\ Reading(enc, k) \/ InPayload(enc, k)
    BY <1>2 DEF UnderWay
  <2>2. PICK k \in 0 .. Len(enc) :
               /\ coming = SubSeq(enc, k + 1, Len(enc))
               /\ Reading(enc, k) \/ InPayload(enc, k)
    BY <2>1
  <2>3. enc \in Seq(Bytes)
    BY Begins DEF StreamInv
  <2>4. coming # <<>> /\ byte = Head(coming) /\ coming' = Tail(coming)
    BY DEF Arrives
  <2>5. /\ k < Len(enc) /\ k + 1 \in 0 .. Len(enc)
        /\ byte = enc[k + 1]
        /\ coming' = SubSeq(enc, (k + 1) + 1, Len(enc))
    BY <2>2, <2>3, <2>4, Arrival
  <2>6. events = <<>>
    BY <1>2 DEF UnderWay
  <2>7. QED
    BY <2>2, <2>5, <2>6
<1>3. QED
  BY <1>1, <1>2 DEF StreamInv, Arrives

(* What the parser has of an item that it reads. *)
LEMMA HasRead ==
  ASSUME item \in Items, NEW enc \in Encodings(item), NEW k \in 0 .. Len(enc),
         Reading(enc, k)
  PROVE  /\ enc \in Seq(Bytes) /\ k \in Nat /\ k < Len(enc) /\ Len(enc) \in Nat
         /\ buffer \in Seq(Bytes) /\ Len(buffer) = k
         /\ \A i \in 1 .. k : buffer[i] = enc[i]
         /\ buffer = <<>> <=> k = 0
         /\ InHeader <=> k > 0 /\ item.kind \in {"data", "misfit"}
         /\ Append(buffer, enc[k + 1]) = SubSeq(enc, 1, k + 1)
<1>1. /\ enc \in Seq(Bytes) /\ Len(enc) \in Nat
      /\ enc[1] = Ipd <=> item.kind \in {"data", "misfit"}
  BY Begins
<1>2. k \in Nat /\ k < Len(enc) /\ buffer = SubSeq(enc, 1, k)
  BY <1>1 DEF Reading
<1>3. /\ buffer \in Seq(Bytes) /\ Len(buffer) = k
      /\ \A i \in 1 .. k : buffer[i] = enc[i]
      /\ k = 0 => buffer = <<>>
      /\ k > 0 => buffer # <<>>
  BY <1>1, <1>2, Prefix
<1>4. buffer = <<>> <=> k = 0
  BY <1>2, <1>3
<1>5. k > 0 => buffer[1] = enc[1]
  BY <1>2, <1>3
<1>6. InHeader <=> k > 0 /\ item.kind \in {"data", "misfit"}
  BY <1>1, <1>2, <1>4, <1>5 DEF InHeader
<1>7. Append(buffer, enc[k + 1]) = SubSeq(enc, 1, k + 1)
  BY <1>1, <1>2, Grown
<1> QED
  BY <1>1, <1>2, <1>3, <1>4, <1>6, <1>7

(* The invariant holds after the last byte of an item,                      *)
LEMMA IsDone ==
  ASSUME StreamInv, UNCHANGED <<multiple, item, error>>, error = "none",
         buffer' = <<>>, missing' = 0, Fits(item), events' = Given(item),
         coming' # <<>> => coming' = <<Space>> /\ promptSpace'
  PROVE  StreamInv'
<1>1. Done'
  BY SameItem DEF Done
<1>2. multiple' \in BOOLEAN /\ (item \in Items)'
  BY SameItem DEF StreamInv
<1> QED
  BY <1>1, <1>2 DEF StreamInv

(* after a byte that poisons the session,                                   *)
LEMMA HasFailed ==
  ASSUME StreamInv, UNCHANGED <<multiple, item, events>>, error' = "bad",
         ~Fits(item), events = <<>>
  PROVE  StreamInv'
BY SameItem DEF StreamInv

(* and after any other.                                                     *)
LEMMA GoesOn ==
  ASSUME StreamInv, UNCHANGED <<multiple, item, error, events>>, error = "none",
         events = <<>>, NEW enc \in Encodings(item), NEW k \in 0 .. Len(enc),
         coming' = SubSeq(enc, k + 1, Len(enc)),
         Reading(enc, k)' \/ InPayload(enc, k)'
  PROVE  StreamInv'
<1>1. UnderWay'
  BY SameItem DEF UnderWay
<1>2. multiple' \in BOOLEAN /\ (item \in Items)'
  BY SameItem DEF StreamInv
<1> QED
  BY <1>1, <1>2 DEF StreamInv

(* Before the last byte of an item something is coming.                     *)
LEMMA StillComing ==
  ASSUME NEW enc \in Seq(Bytes), NEW k \in 0 .. Len(enc), k < Len(enc)
  PROVE  SubSeq(enc, k + 1, Len(enc)) # <<>>
<1>0. Len(enc) \in Nat
  BY LenProperties
<1> DEFINE m == k + 1
           l == Len(enc)
<1>1. m \in Int /\ l \in Int /\ m <= l /\ l - m + 1 # 0
  BY <1>0
<1>2. \A i \in m .. l : enc[i] \in Bytes
  <2>1. \A i \in m .. l : i \in 1 .. Len(enc)
    BY <1>0
  <2>2. QED
    BY <2>1, ElementOfSeq
<1> HIDE DEF m, l
<1>3. Len(SubSeq(enc, m, l)) = IF m <= l THEN l - m + 1 ELSE 0
  BY <1>1, <1>2, SubSeqProperties
<1>4. SubSeq(enc, m, l) # <<>>
  BY <1>1, <1>3, EmptySeq
<1> QED
  BY <1>4 DEF m, l

(* A new item is under way from its first byte.                             *)
LEMMA SendItemKeeps ==
  ASSUME StreamInv, NEW it \in Items, SendItem(it)
  PROVE  StreamInv'
<1>1. /\ coming = <<>> /\ error = "none" /\ item' = it /\ events' = <<>>
      /\ coming' \in Encodings(it)
      /\ UNCHANGED <<buffer, missing, link, multiple, promptSpace, error>>
  BY DEF SendItem
<1>2. ~UnderWay
  <2>1. SUFFICES ASSUME UnderWay PROVE FALSE
    OBVIOUS
  <2>a. PICK enc \in Encodings(item) : \E k \in 0 .. Len(enc) :
               /\ coming = SubSeq(enc, k + 1, Len(enc))
               /\ Reading(enc, k) \/ InPayload(enc, k)
    BY <2>1 DEF UnderWay
  <2>2. PICK k \in 0 .. Len(enc) :
               /\ coming = SubSeq(enc, k + 1, Len(enc))
               /\ Reading(enc, k) \/ InPayload(enc, k)
    BY <2>a
  <2>3. enc \in Seq(Bytes) /\ Len(enc) \in Nat
    BY Begins DEF StreamInv
  <2>4. k < Len(enc)
    BY <2>2 DEF Reading, InPayload
  <2>5. QED
    BY <1>1, <2>2, <2>3, <2>4, StillComing
<1>3. Done
  BY <1>1, <1>2 DEF StreamInv
<1>4. Items' = Items /\ Encodings(it)' = Encodings(it)
  BY <1>1 DEF Items, Encodings
<1>5. PICK enc \in Encodings(it) : coming' = enc
  BY <1>1
<1>6. enc \in Seq(Bytes) /\ Len(enc) \in Nat /\ Len(enc) > 0
  BY Begins
<1>7. SubSeq(enc, 0 + 1, Len(enc)) = enc
  <2>1. 0 + 1 = 1
    OBVIOUS
  <2>2. QED
    BY <1>6, <2>1, SubSeqFull
<1>8. Reading(enc, 0)'
  <2>1. SubSeq(enc, 1, 0) = <<>> /\ 0 \in 0 .. Len(enc)
    BY <1>6, Prefix
  <2>2. item'.kind = "data" => 0 <= HeadLen(item, enc)'
    <3>1. ASSUME item'.kind = "data" PROVE 0 <= HeadLen(item, enc)'
      <4>1. HeadLen(it, enc) \in Nat
        BY <1>1, <1>5, <3>1, FrameShape
      <4>2. HeadLen(item, enc)' = HeadLen(it, enc)
        BY <1>1 DEF HeadLen
      <4>3. QED
        BY <4>1, <4>2
    <3>2. QED
      BY <3>1
  <2>3. buffer' = <<>> /\ missing' = 0
    BY <1>1, <1>3 DEF Done
  <2>4. \A i \in 1 .. 0 : FALSE
    OBVIOUS
  <2>5. 0 <= LineMax /\ 0 < Len(enc) /\ ~(0 > 0)
    BY <1>6, StreamSizes
  <2>6. QED
    BY <2>1, <2>2, <2>3, <2>4, <2>5, Zenon DEF Reading
<1>9. UnderWay'
  <2>1. 0 \in 0 .. Len(enc) /\ events' = <<>>
    BY <1>1, <1>6
  <2>2. coming' = SubSeq(enc, 0 + 1, Len(enc))
    BY <1>5, <1>7
  <2>3. enc \in Encodings(item)'
    BY <1>1, <1>4, <1>5
  <2>4. QED
    BY <1>8, <2>1, <2>2, <2>3 DEF UnderWay
<1>10. item' \in Items' /\ multiple' \in BOOLEAN
  BY <1>1, <1>4 DEF StreamInv
<1> QED
  BY <1>1, <1>9, <1>10 DEF StreamInv

-----------------------------------------------------------------------------
(* Every step. *)

(* The parser reads the item that is being sent.                            *)
LEMMA Parsing ==
  ASSUME NEW byte \in Bytes, Arrives(byte)
  PROVE  error = "none" /\ UNCHANGED <<multiple, item>>
BY DEF Arrives

(* A byte of a payload goes to its place, and the last one completes it.    *)
LEMMA FeedDataKeeps ==
  ASSUME StreamInv, NEW byte \in Bytes, FeedData(byte)
  PROVE  StreamInv'
<1>1. /\ Arrives(byte) /\ missing # 0
      /\ UNCHANGED <<link, promptSpace, error>>
      /\ error = "none" /\ UNCHANGED <<multiple, item>>
  BY Parsing DEF FeedData
<1>2. ~Done
  BY <1>1 DEF Done
<1>3. events = <<>>
  BY <1>1, <1>2, NextByte
<1>4. PICK enc \in Encodings(item) : \E k \in 0 .. Len(enc) :
             /\ k < Len(enc) /\ k + 1 \in 0 .. Len(enc)
             /\ byte = enc[k + 1]
             /\ coming' = SubSeq(enc, (k + 1) + 1, Len(enc))
             /\ Reading(enc, k) \/ InPayload(enc, k)
  BY <1>1, <1>2, NextByte
<1>5. PICK k \in 0 .. Len(enc) :
             /\ k < Len(enc) /\ k + 1 \in 0 .. Len(enc)
             /\ byte = enc[k + 1]
             /\ coming' = SubSeq(enc, (k + 1) + 1, Len(enc))
             /\ Reading(enc, k) \/ InPayload(enc, k)
  BY <1>4
<1>6. InPayload(enc, k)
  BY <1>1, <1>5 DEF Reading
<1> DEFINE h == HeadLen(item, enc)
           n == Len(item.bytes)
           l == Len(enc)
<1>7. /\ item \in Items /\ item.kind = "data" /\ Fits(item)
      /\ h < k /\ k < l
      /\ buffer = SubSeq(enc, h + 2, k)
      /\ missing = n /\ link = item.link
  BY <1>6 DEF InPayload, StreamInv
<1>8. /\ h \in Nat /\ 2 <= h /\ n \in Nat /\ enc \in Seq(Bytes) /\ l = h + 1 + n
      /\ SubSeq(enc, h + 2, l) = item.bytes
  BY <1>7, FrameShape
<1> HIDE DEF h, n, l
<1>9. /\ k \in Nat /\ h + 2 \in Nat \ {0} /\ h + 2 <= k + 1
      /\ k - (h + 2) + 1 = k - h - 1
  BY <1>7, <1>8
<1>10. Append(buffer, byte) = SubSeq(enc, h + 2, k + 1)
  BY <1>5, <1>7, <1>8, <1>9, Grown
<1>11. Len(buffer) = k - h - 1
  <2>1. CASE k = h + 1
    <3>1. h + 2 > k /\ h + 2 \in Int /\ k \in Int
      BY <1>9, <2>1, <1>8
    <3>2. buffer = <<>> /\ k - h - 1 = 0
      BY <1>7, <1>8, <2>1, <3>1, SubSeqEmpty
    <3>3. QED
      BY <3>2
  <2>2. CASE k # h + 1
    <3> DEFINE m == h + 2
    <3>1. m \in Int /\ k \in Int /\ m <= k /\ k - m + 1 = k - h - 1
      BY <1>7, <1>8, <1>9, <2>2
    <3>2. \A i \in m .. k : enc[i] \in Bytes
      <4>1. \A i \in m .. k : i \in 1 .. Len(enc)
        BY <1>7, <1>8, <1>9 DEF l
      <4>2. QED
        BY <1>8, <4>1, ElementOfSeq
    <3> HIDE DEF m
    <3>3. Len(SubSeq(enc, m, k)) = IF m <= k THEN k - m + 1 ELSE 0
      BY <3>1, <3>2, SubSeqProperties
    <3>4. QED
      BY <1>7, <3>1, <3>3 DEF m
  <2>3. QED
    BY <2>1, <2>2
<1>12. CASE Len(buffer) + 1 = missing
  <2>1. /\ events' = Append(events, Event("data", link, Append(buffer, byte)))
        /\ buffer' = <<>> /\ missing' = 0
    BY <1>12 DEF FeedData, Emit
  <2>2. k + 1 = l
    BY <1>7, <1>8, <1>9, <1>11, <1>12
  <2>3. Append(buffer, byte) = item.bytes
    BY <1>8, <1>10, <2>2
  <2>4. item = Event("data", item.link, item.bytes)
    BY <1>7, KindsOfItems
  <2>5. events' = <<item>>
    <3>1. events' = Append(<<>>, item)
      BY <1>3, <1>7, <2>1, <2>3, <2>4, Zenon
    <3>2. QED
      BY <3>1
  <2>6. Given(item) = <<item>>
    BY <1>7 DEF Given
  <2>7. coming' = <<>>
    <3>1. (k + 1) + 1 > l /\ (k + 1) + 1 \in Int /\ l \in Int
      BY <1>8, <1>9, <2>2
    <3>2. QED
      BY <1>5, <3>1, SubSeqEmpty DEF l
  <2>8. QED
    BY <1>1, <1>7, <2>1, <2>5, <2>6, <2>7, IsDone
<1>13. CASE Len(buffer) + 1 # missing
  <2>1. buffer' = Append(buffer, byte) /\ UNCHANGED <<missing, events>>
    BY <1>13 DEF FeedData
  <2>2. k + 1 < l /\ h < k + 1
    <3>1. k + 1 # l
      BY <1>7, <1>8, <1>9, <1>11, <1>13
    <3>2. QED
      BY <1>7, <1>8, <1>9, <3>1
  <2>3. InPayload(enc, k + 1)'
    <3>1. HeadLen(item, enc)' = h /\ Fits(item)' /\ item'.kind = "data"
      BY <1>1, <1>7, SameItem DEF h, HeadLen
    <3>2. buffer' = SubSeq(enc, h + 2, k + 1)
      BY <1>10, <2>1
    <3>3. missing' = Len(item'.bytes) /\ link' = item'.link
      BY <1>1, <1>7, <2>1 DEF n
    <3>4. QED
      BY <2>2, <3>1, <3>2, <3>3 DEF InPayload, l
  <2>4. QED
    BY <1>1, <1>3, <1>5, <2>1, <2>3, GoesOn
<1> QED
  BY <1>12, <1>13

(* Outside a payload none is being read.                                    *)
LEMMA NothingMissing ==
  ASSUME StreamInv, missing = 0, NEW enc \in Encodings(item), NEW k \in 0 .. Len(enc)
  PROVE  ~InPayload(enc, k)
<1>1. SUFFICES ASSUME InPayload(enc, k) PROVE FALSE
  OBVIOUS
<1> DEFINE h == HeadLen(item, enc)
           n == Len(item.bytes)
<1>2. /\ item \in Items /\ item.kind = "data" /\ h < k /\ k < Len(enc)
      /\ missing = n
  BY <1>1 DEF InPayload, StreamInv
<1>3. h \in Nat /\ 2 <= h /\ n \in Nat /\ Len(enc) = h + 1 + n
  BY <1>2, FrameShape
<1> HIDE DEF h, n
<1>4. n # 0
  BY <1>2, <1>3
<1>5. QED
  BY <1>2, <1>4

(* A byte outside a payload. *)
LEMMA OutsideByte ==
  ASSUME StreamInv, NEW byte \in Bytes, Outside(byte)
  PROVE  /\ events = <<>>
         /\ \E enc \in Encodings(item) : \E k \in 0 .. Len(enc) :
              /\ k < Len(enc) /\ k + 1 \in 0 .. Len(enc)
              /\ byte = enc[k + 1]
              /\ coming' = SubSeq(enc, (k + 1) + 1, Len(enc))
              /\ Reading(enc, k)
<1>1. Arrives(byte) /\ missing = 0 /\ ~(promptSpace /\ byte = Space)
  BY DEF Outside
<1>2. ASSUME NEW enc \in Encodings(item), NEW k \in 0 .. Len(enc)
      PROVE  ~InPayload(enc, k)
  BY <1>1, NothingMissing
<1>3. /\ events = <<>>
      /\ \E enc \in Encodings(item) : \E k \in 0 .. Len(enc) :
           /\ k < Len(enc) /\ k + 1 \in 0 .. Len(enc)
           /\ byte = enc[k + 1]
           /\ coming' = SubSeq(enc, (k + 1) + 1, Len(enc))
           /\ Reading(enc, k) \/ InPayload(enc, k)
  BY <1>1, NextByte
<1> QED
  BY <1>2, <1>3

(* A space is skipped after a prompt and nowhere else.                      *)
LEMMA SkipSpaceKeeps ==
  ASSUME StreamInv, SkipSpace
  PROVE  StreamInv'
<1>1. /\ Arrives(Space) /\ missing = 0 /\ promptSpace
      /\ UNCHANGED <<buffer, missing, link, error, events>>
  BY DEF SkipSpace
<1>2. Space \in Bytes
  BY DEF Space, Bytes
<1>3. error = "none" /\ UNCHANGED <<multiple, item>>
  BY <1>1, <1>2, Parsing
<1>4. ASSUME NEW enc \in Encodings(item), NEW k \in 0 .. Len(enc),
             k < Len(enc), Space = enc[k + 1], Reading(enc, k)
      PROVE  FALSE
  <2>1. enc[1] # Space /\ Len(enc) \in Nat
    BY Begins DEF StreamInv
  <2>2. ~(k > 0)
    BY <1>1, <1>4 DEF Reading
  <2>3. k + 1 = 1
    BY <2>1, <2>2
  <2>4. QED
    BY <1>4, <2>1, <2>3
<1>5. ASSUME NEW enc \in Encodings(item), NEW k \in 0 .. Len(enc)
      PROVE  ~InPayload(enc, k)
  BY <1>1, NothingMissing
<1>6. Done /\ coming' = <<>>
  BY <1>1, <1>2, <1>4, <1>5, NextByte
<1> QED
  BY <1>1, <1>3, <1>6, IsDone DEF Done

(* A prompt is seen only where one was sent.                                *)
LEMMA FeedPromptKeeps ==
  ASSUME StreamInv, FeedPrompt
  PROVE  StreamInv'
<1>1. /\ Outside(Greater) /\ Arrives(Greater) /\ buffer = <<>> /\ promptSpace' = TRUE
      /\ events' = Append(events, Event("prompt", NoLink, <<Greater>>))
      /\ buffer' = <<>> /\ missing = 0
      /\ UNCHANGED <<missing, link, error>>
  BY DEF FeedPrompt, AtPrompt, Emit, Outside
<1>2. Greater \in Bytes
  BY DEF Greater, Bytes
<1>3. error = "none" /\ UNCHANGED <<multiple, item>>
  BY <1>1, <1>2, Parsing
<1>4. events = <<>>
  BY <1>1, <1>2, OutsideByte
<1>5. PICK enc \in Encodings(item) : \E k \in 0 .. Len(enc) :
             /\ k < Len(enc) /\ k + 1 \in 0 .. Len(enc)
             /\ Greater = enc[k + 1]
             /\ coming' = SubSeq(enc, (k + 1) + 1, Len(enc))
             /\ Reading(enc, k)
  BY <1>1, <1>2, OutsideByte
<1>6. PICK k \in 0 .. Len(enc) :
             /\ k < Len(enc) /\ k + 1 \in 0 .. Len(enc)
             /\ Greater = enc[k + 1]
             /\ coming' = SubSeq(enc, (k + 1) + 1, Len(enc))
             /\ Reading(enc, k)
  BY <1>5
<1>7. item \in Items
  BY DEF StreamInv
<1>8. k = 0
  BY <1>1, <1>6, <1>7, HasRead
<1>9. item.kind = "prompt"
  BY <1>6, <1>7, <1>8, Begins
<1>10. coming' = <<>> \/ coming' = <<Space>>
  BY <1>6, <1>7, <1>8, <1>9, PromptShape
<1>11. item = Event("prompt", NoLink, <<Greater>>)
  BY <1>7, <1>9, KindsOfItems
<1>12. Fits(item) /\ Given(item) = <<item>>
  BY <1>9 DEF Fits, Given
<1>13. events' = Given(item)
  BY <1>1, <1>4, <1>11, <1>12
<1>14. missing' = 0
  BY <1>1
<1> QED
  BY <1>1, <1>3, <1>10, <1>12, <1>13, <1>14, IsDone

(* A header without digits, or without the link it needs, is refused.       *)
LEMMA MisfitHeader ==
  ASSUME buffer \in Seq(Bytes), Len(buffer) = 2, buffer[2] \in {Letter, Comma}
  PROVE  (multiple /\ HeaderLink > LinkMax) \/ HeaderSize > DataMax
<1> DEFINE at == {i \in 2 .. Len(buffer) : buffer[i] = Comma}
<1>1. LinkMax \in Nat /\ DataMax \in Nat
  BY StreamSizes, Zenon
<1>2. \A i \in 2 .. Len(buffer) : i = 2
  OBVIOUS
<1>3. 2 \in 2 .. Len(buffer)
  OBVIOUS
<1>4. CommaAt = IF at = {} THEN 0 ELSE CHOOSE i \in at : \A j \in at : i <= j
  BY Zenon DEF CommaAt, at
<1>5. CASE ~multiple
  <2> DEFINE s == SubSeq(buffer, 2, 2)
  <2>1. 2 \in Int /\ \A i \in 2 .. 2 : buffer[i] \in {Letter, Comma}
    OBVIOUS
  <2>2. /\ s \in Seq({Letter, Comma}) /\ Len(s) = IF 2 <= 2 THEN 2 - 2 + 1 ELSE 0
    BY <2>1, SubSeqProperties
  <2> HIDE DEF s
  <2>3. Len(s) = 1 /\ 1 \in 1 .. Len(s)
    BY <2>2
  <2>4. s[1] \in {Letter, Comma}
    BY <2>2, <2>3, ElementOfSeq
  <2>5. s[1] > 9
    BY <2>4 DEF Letter, Comma
  <2>6. Decimal(s, DataMax) = DataMax + 1
    BY <2>3, <2>5, NoNumber
  <2>7. HeaderSize = Decimal(s, DataMax)
    BY <1>5 DEF HeaderSize, s
  <2>8. QED
    BY <1>1, <2>6, <2>7
<1>6. CASE multiple /\ buffer[2] = Letter
  <2>1. at = {}
    BY <1>2, <1>6 DEF Letter, Comma
  <2> HIDE DEF at
  <2>2. HeaderLink = LinkMax + 1
    BY <1>4, <2>1 DEF HeaderLink
  <2>3. QED
    BY <1>1, <1>6, <2>2
<1>7. CASE multiple /\ buffer[2] = Comma
  <2>1. 2 \in at /\ \A i \in at : i = 2
    BY <1>2, <1>3, <1>7
  <2> HIDE DEF at
  <2>2. CommaAt = 2
    BY <1>4, <2>1
  <2>3. SubSeq(buffer, 2, CommaAt - 1) = <<>>
    <3>1. CommaAt - 1 = 1 /\ 2 \in Int /\ 1 \in Int /\ 1 < 2
      BY <2>2
    <3>2. QED
      BY <3>1, SubSeqEmpty
  <2>4. HeaderLink = LinkMax + 1
    BY <2>2, <2>3, NoNumber DEF HeaderLink
  <2>5. QED
    BY <1>1, <1>7, <2>4
<1> QED
  BY <1>5, <1>6, <1>7

(* A colon inside a frame is the end of its header.                         *)
LEMMA FeedHeaderKeeps ==
  ASSUME StreamInv, FeedHeader
  PROVE  StreamInv'
<1> DEFINE bad == (multiple /\ HeaderLink > LinkMax) \/ HeaderSize > DataMax
<1>1. /\ Outside(Colon) /\ Arrives(Colon) /\ missing = 0 /\ InHeader
      /\ promptSpace' = FALSE
  BY DEF FeedHeader, Outside
<1>2. Colon \in Bytes
  BY DEF Colon, Bytes
<1>3. error = "none" /\ UNCHANGED <<multiple, item>>
  BY <1>1, <1>2, Parsing
<1>4. events = <<>>
  BY <1>1, <1>2, OutsideByte
<1>5. PICK enc \in Encodings(item) : \E k \in 0 .. Len(enc) :
             /\ k < Len(enc) /\ k + 1 \in 0 .. Len(enc)
             /\ Colon = enc[k + 1]
             /\ coming' = SubSeq(enc, (k + 1) + 1, Len(enc))
             /\ Reading(enc, k)
  BY <1>1, <1>2, OutsideByte
<1>6. PICK k \in 0 .. Len(enc) :
             /\ k < Len(enc) /\ k + 1 \in 0 .. Len(enc)
             /\ Colon = enc[k + 1]
             /\ coming' = SubSeq(enc, (k + 1) + 1, Len(enc))
             /\ Reading(enc, k)
  BY <1>5
<1>7. item \in Items
  BY DEF StreamInv
<1>8. /\ enc \in Seq(Bytes) /\ k \in Nat /\ Len(enc) \in Nat
      /\ buffer \in Seq(Bytes) /\ Len(buffer) = k
      /\ \A i \in 1 .. k : buffer[i] = enc[i]
      /\ k > 0 /\ item.kind \in {"data", "misfit"}
  BY <1>1, <1>6, <1>7, HasRead
<1>9. CASE item.kind = "misfit"
  <2>1. /\ enc[Len(enc)] = Colon => Len(enc) = 3 /\ enc[2] \in {Letter, Comma}
        /\ \A i \in 1 .. (Len(enc) - 1) : enc[i] # Colon
    BY <1>7, <1>9, MisfitShape
  <2>2. k + 1 = Len(enc)
    <3>1. ~(k + 1 \in 1 .. (Len(enc) - 1))
      BY <1>6, <2>1
    <3>2. QED
      BY <1>6, <1>8, <3>1
  <2>3. Len(enc) = 3 /\ enc[2] \in {Letter, Comma}
    BY <1>6, <2>1, <2>2
  <2>4. k = 2 /\ 2 \in 1 .. k
    BY <1>8, <2>2, <2>3
  <2>5. bad
    BY <1>8, <2>3, <2>4, MisfitHeader
  <2>6. error' = "bad" /\ UNCHANGED events
    BY <2>5 DEF FeedHeader, Fail
  <2>7. ~Fits(item)
    BY <1>9 DEF Fits
  <2>8. QED
    BY <1>3, <1>4, <2>6, <2>7, HasFailed
<1>10. CASE item.kind = "data"
  <2> DEFINE h == HeadLen(item, enc)
             n == Len(item.bytes)
  <2>1. /\ h \in Nat /\ 2 <= h /\ n \in Nat /\ Len(enc) = h + 1 + n
        /\ \A i \in 1 .. h : enc[i] \in 0 .. 10 \cup {Ipd}
        /\ SubSeq(enc, h + 2, Len(enc)) = item.bytes
    BY <1>7, <1>10, FrameShape
  <2>2. k <= h
    BY <1>6, <1>10 DEF Reading
  <2>4. PICK d \in Numerals(Len(item.bytes)) :
          /\ Len(enc) = HeadStart + Len(d) + 1 + n
          /\ multiple => enc[2] = item.link /\ enc[3] = Comma
          /\ \A i \in 1 .. Len(d) : enc[HeadStart + i] = d[i]
    BY <1>7, <1>10, FrameEncoding
  <2>a. /\ Len(d) \in Nat /\ Len(d) > 0 /\ HeadStart \in {1, 3}
        /\ multiple => HeadStart = 3
    BY NumeralsOfSize DEF HeadStart
  <2> HIDE DEF h, n
  <2>3. h = HeadStart + Len(d)
    BY <2>1, <2>4, <2>a
  <2>5. k = h
    <3>1. SUFFICES ASSUME k < h PROVE FALSE
      BY <1>8, <2>1, <2>2
    <3>2. k + 1 \in 1 .. h
      BY <1>8, <2>1, <3>1
    <3>3. Colon \in 0 .. 10 \cup {Ipd}
      BY <1>6, <2>1, <3>2, Zenon
    <3>4. QED
      BY <3>3 DEF Colon, Ipd
  <2>6. /\ multiple => buffer[2] = item.link /\ buffer[3] = Comma
        /\ \A i \in 1 .. Len(d) : buffer[HeadStart + i] = d[i]
    <3>1. multiple => 2 \in 1 .. k /\ 3 \in 1 .. k
      BY <2>3, <2>5, <2>a
    <3>2. \A i \in 1 .. Len(d) : HeadStart + i \in 1 .. k
      BY <2>3, <2>5, <2>a
    <3>3. QED
      BY <1>8, <2>4, <3>1, <3>2, Zenon
  <2>7. /\ bad <=> ~Fits(item)
        /\ Fits(item) => /\ HeaderSize = n
                         /\ multiple => HeaderLink = item.link
    <3>1. Len(buffer) = HeadStart + Len(d)
      BY <1>8, <2>3, <2>5
    <3>2. QED
      BY <1>7, <1>8, <1>10, <2>6, <3>1, HeaderIsRead DEF n
  <2> HIDE DEF bad
  <2>8. CASE bad
    <3>1. error' = "bad" /\ UNCHANGED events
      BY <2>8 DEF FeedHeader, Fail, bad
    <3>2. QED
      BY <1>3, <1>4, <2>7, <2>8, <3>1, HasFailed
  <2>9. CASE ~bad
    <3>1. Fits(item) /\ HeaderSize = n /\ (multiple => HeaderLink = item.link)
      BY <2>7, <2>9
    <3>2. /\ link' = IF multiple THEN HeaderLink ELSE NoLink
          /\ missing' = HeaderSize
          /\ IF HeaderSize = 0
               THEN Emit(Event("data", link', <<>>))
               ELSE buffer' = <<>> /\ UNCHANGED events
          /\ UNCHANGED error
      BY <2>9 DEF FeedHeader, bad
    <3>3. /\ item.link \in IF multiple THEN Links ELSE {NoLink}
          /\ item = Event("data", item.link, item.bytes)
      BY <1>7, <1>10, KindsOfItems
    <3>4. link' = item.link /\ missing' = n /\ UNCHANGED error
      BY <3>1, <3>2, <3>3
    <3>5. CASE n = 0
      <4>1. /\ events' = Append(events, Event("data", link', <<>>))
            /\ buffer' = <<>>
        BY <3>1, <3>2, <3>5 DEF Emit
      <4>2. item.bytes = <<>>
        <5>1. item.bytes \in Seq(Bytes)
          BY <1>7, <1>10, KindsOfItems, StreamSizes
        <5>2. QED
          BY <3>5, <5>1, EmptySeq DEF n
      <4>3. events' = <<item>>
        <5>1. events' = Append(<<>>, item)
          BY <1>4, <3>3, <3>4, <4>1, <4>2, Zenon
        <5>2. QED
          BY <5>1
      <4>4. Given(item) = <<item>>
        BY <1>10 DEF Given
      <4>5. coming' = <<>>
        <5>1. (k + 1) + 1 > Len(enc) /\ (k + 1) + 1 \in Int /\ Len(enc) \in Int
          BY <1>8, <2>1, <2>5, <3>5
        <5>2. QED
          BY <1>6, <5>1, SubSeqEmpty
      <4>6. QED
        BY <1>3, <3>1, <3>4, <3>5, <4>1, <4>3, <4>4, <4>5, IsDone
    <3>6. CASE n # 0
      <4>1. buffer' = <<>> /\ UNCHANGED events
        BY <3>1, <3>2, <3>6
      <4>2. h < k + 1 /\ k + 1 < Len(enc)
        BY <1>8, <2>1, <2>5, <3>6
      <4>3. SubSeq(enc, h + 2, k + 1) = <<>>
        <5>1. k + 1 < h + 2 /\ k + 1 \in Int /\ h + 2 \in Int
          BY <1>8, <2>1, <2>5
        <5>2. QED
          BY <5>1, SubSeqEmpty
      <4>4. InPayload(enc, k + 1)'
        <5>1. HeadLen(item, enc)' = h /\ Fits(item)' /\ item'.kind = "data"
          BY <1>3, <1>10, <3>1, SameItem DEF h, HeadLen
        <5>2. missing' = Len(item'.bytes) /\ link' = item'.link
          BY <1>3, <3>4 DEF n
        <5>3. QED
          BY <4>1, <4>2, <4>3, <5>1, <5>2 DEF InPayload
      <4>5. QED
        BY <1>3, <1>4, <1>6, <3>4, <4>1, <4>4, GoesOn
    <3>7. QED
      BY <3>5, <3>6
  <2>10. QED
    BY <2>8, <2>9
<1> QED
  BY <1>8, <1>9, <1>10

(* A newline outside a payload is the end of a line or of a misfit.         *)
LEMMA FeedNewlineKeeps ==
  ASSUME StreamInv, FeedNewline
  PROVE  StreamInv'
<1>1. /\ Outside(Lf) /\ Arrives(Lf) /\ missing = 0
      /\ promptSpace' = FALSE
  BY DEF FeedNewline, Outside
<1>2. Lf \in Bytes
  BY DEF Lf, Bytes
<1>3. error = "none" /\ UNCHANGED <<multiple, item>>
  BY <1>1, <1>2, Parsing
<1>4. events = <<>>
  BY <1>1, <1>2, OutsideByte
<1>5. PICK enc \in Encodings(item) : \E k \in 0 .. Len(enc) :
             /\ k < Len(enc) /\ k + 1 \in 0 .. Len(enc)
             /\ Lf = enc[k + 1]
             /\ coming' = SubSeq(enc, (k + 1) + 1, Len(enc))
             /\ Reading(enc, k)
  BY <1>1, <1>2, OutsideByte
<1>6. PICK k \in 0 .. Len(enc) :
             /\ k < Len(enc) /\ k + 1 \in 0 .. Len(enc)
             /\ Lf = enc[k + 1]
             /\ coming' = SubSeq(enc, (k + 1) + 1, Len(enc))
             /\ Reading(enc, k)
  BY <1>5
<1>7. item \in Items
  BY DEF StreamInv
<1>8. /\ enc \in Seq(Bytes) /\ k \in Nat /\ Len(enc) \in Nat
      /\ buffer \in Seq(Bytes) /\ Len(buffer) = k
      /\ \A i \in 1 .. k : buffer[i] = enc[i]
      /\ buffer = SubSeq(enc, 1, k)
      /\ InHeader <=> k > 0 /\ item.kind \in {"data", "misfit"}
  BY <1>6, <1>7, HasRead DEF Reading
<1>9. item.kind \in {"line", "prompt", "misfit", "data"}
  BY <1>7, KindsOfItems
<1>10. item.kind # "data"
  <2>1. SUFFICES ASSUME item.kind = "data" PROVE FALSE
    OBVIOUS
  <2> DEFINE h == HeadLen(item, enc)
  <2>2. /\ h \in Nat /\ 2 <= h /\ enc[h + 1] = Colon
        /\ \A i \in 1 .. h : enc[i] \in 0 .. 10 \cup {Ipd}
    BY <1>7, <2>1, FrameShape
  <2>3. k <= h
    BY <1>6, <2>1 DEF Reading
  <2> HIDE DEF h
  <2>4. k + 1 \in 1 .. h \/ k = h
    BY <1>8, <2>2, <2>3
  <2>5. enc[k + 1] # Lf
    <3>1. enc[k + 1] \in 0 .. 10 \cup {Ipd} \/ enc[k + 1] = Colon
      BY <2>2, <2>4, Zenon
    <3>2. QED
      BY <3>1 DEF Lf, Ipd, Colon
  <2>6. QED
    BY <1>6, <2>5
<1>11. item.kind # "prompt"
  <2>1. SUFFICES ASSUME item.kind = "prompt" PROVE FALSE
    OBVIOUS
  <2>2. k = 0 /\ enc[1] = Greater
    BY <1>6, <1>7, <2>1, PromptShape DEF Reading
  <2>3. QED
    BY <1>6, <2>2 DEF Greater, Lf
<1>12. CASE item.kind = "misfit"
  <2>1. k > 0
    <3>1. enc[1] = Ipd
      BY <1>7, <1>12, MisfitShape
    <3>2. k # 0
      BY <1>6, <3>1 DEF Ipd, Lf
    <3>3. QED
      BY <1>8, <3>2
  <2>2. InHeader
    BY <1>8, <1>12, <2>1
  <2>3. error' = "bad" /\ UNCHANGED events
    BY <2>2 DEF FeedNewline, Fail
  <2>4. ~Fits(item)
    BY <1>12 DEF Fits
  <2>5. QED
    BY <1>3, <1>4, <2>3, <2>4, HasFailed
<1>13. CASE item.kind = "line"
  <2> DEFINE t == item.bytes
             n == Len(t)
  <2>1. /\ n \in Nat /\ Len(enc) = n + 2
        /\ \A i \in 1 .. n : enc[i] = t[i] /\ enc[i] # Lf
        /\ enc[n + 1] = Cr
    BY <1>7, <1>13, LineEncoding
  <2>2. t \in Seq(Bytes) /\ item = Event("line", NoLink, t)
    BY <1>7, <1>13, KindsOfItems, StreamSizes
  <2>3. k <= LineMax /\ \A i \in 1 .. k : enc[i] # Nul
    BY <1>6, <1>13 DEF Reading
  <2> HIDE DEF t, n
  <2>4. k = n + 1
    <3>1. ~(k + 1 \in 1 .. n)
      BY <1>6, <2>1
    <3>2. k # n
      BY <1>6, <2>1 DEF Lf, Cr
    <3>3. QED
      BY <1>6, <1>8, <2>1, <3>1, <3>2
  <2>5. Fits(item)
    <3>1. n < LineMax
      BY <2>1, <2>3, <2>4, StreamSizes
    <3>2. \A i \in 1 .. n : i \in 1 .. k
      BY <2>1, <2>4
    <3>3. \A i \in 1 .. n : t[i] # Nul
      BY <2>1, <2>3, <3>2, Zenon
    <3>4. QED
      BY <1>13, <3>1, <3>3 DEF Fits, n, t
  <2>6. Text = t
    <3>1. buffer # <<>> /\ buffer[Len(buffer)] = Cr
      <4>1. n + 1 \in 1 .. k
        BY <2>1, <2>4
      <4>2. buffer[k] = Cr
        BY <1>8, <2>1, <2>4, <4>1
      <4>3. Len(buffer) # 0
        BY <1>8, <2>1, <2>4
      <4>4. QED
        BY <1>8, <4>2, <4>3, EmptySeq
    <3>2. Text = SubSeq(buffer, 1, n)
      <4>1. Len(buffer) - 1 = n
        BY <1>8, <2>1, <2>4
      <4>2. QED
        BY <3>1, <4>1, Zenon DEF Text
    <3>3. n \in 0 .. Len(buffer)
      BY <1>8, <2>1, <2>4
    <3>4. /\ SubSeq(buffer, 1, n) \in Seq(Bytes) /\ Len(SubSeq(buffer, 1, n)) = n
          /\ \A i \in 1 .. n : SubSeq(buffer, 1, n)[i] = buffer[i]
      BY <1>8, <3>3, Prefix
    <3>5. \A i \in 1 .. n : buffer[i] = t[i]
      <4>1. \A i \in 1 .. n : i \in 1 .. k
        BY <2>1, <2>4
      <4>2. QED
        BY <1>8, <2>1, <4>1, Zenon
    <3>6. \A i \in 1 .. n : SubSeq(buffer, 1, n)[i] = t[i]
      BY <3>4, <3>5, Zenon
    <3> DEFINE s == SubSeq(buffer, 1, n)
    <3> HIDE DEF s
    <3>7. /\ s \in Seq(Bytes) /\ Len(s) = Len(t)
          /\ \A i \in 1 .. Len(s) : s[i] = t[i]
      BY <3>4, <3>6, Zenon DEF s, n
    <3>8. s = t
      BY <2>2, <3>7, SeqEqual
    <3>9. QED
      BY <3>2, <3>8 DEF s
  <2>7. /\ IF t = <<>> THEN buffer' = <<>> /\ UNCHANGED events
                       ELSE Emit(Event("line", NoLink, t))
        /\ UNCHANGED <<missing, link, error>>
    <3>1. ~InHeader
      BY <1>8, <1>13
    <3>2. QED
      BY <2>6, <3>1 DEF FeedNewline
  <2>8. events' = Given(item)
    <3>1. CASE t = <<>>
      BY <1>4, <1>13, <2>7, <3>1 DEF Given, t
    <3>2. CASE t # <<>>
      <4>1. events' = Append(<<>>, item)
        BY <1>4, <2>2, <2>7, <3>2 DEF Emit
      <4>2. Given(item) = <<item>>
        BY <3>2 DEF Given, t
      <4>3. QED
        BY <4>1, <4>2
    <3>3. QED
      BY <3>1, <3>2
  <2>9. coming' = <<>>
    <3>1. (k + 1) + 1 > Len(enc) /\ (k + 1) + 1 \in Int /\ Len(enc) \in Int
      BY <1>8, <2>1, <2>4
    <3>2. QED
      BY <1>6, <3>1, SubSeqEmpty
  <2>10. buffer' = <<>> /\ missing' = 0 /\ UNCHANGED error
    BY <1>1, <2>7 DEF Emit
  <2>11. QED
    BY <1>3, <2>5, <2>8, <2>9, <2>10, IsDone
<1> QED
  BY <1>9, <1>10, <1>11, <1>12, <1>13

(* Any other byte is kept, unless the item does not fit.                    *)
LEMMA FeedByteKeeps ==
  ASSUME StreamInv, NEW byte \in Bytes, FeedByte(byte)
  PROVE  StreamInv'
<1>1. /\ Outside(byte) /\ Arrives(byte) /\ missing = 0
      /\ promptSpace' = FALSE
      /\ ~AtPrompt(byte) /\ ~(InHeader /\ byte = Colon) /\ byte # Lf
  BY DEF FeedByte, Outside
<1>3. error = "none" /\ UNCHANGED <<multiple, item>>
  BY <1>1, Parsing
<1>4. events = <<>>
  BY <1>1, OutsideByte
<1>5. PICK enc \in Encodings(item) : \E k \in 0 .. Len(enc) :
             /\ k < Len(enc) /\ k + 1 \in 0 .. Len(enc)
             /\ byte = enc[k + 1]
             /\ coming' = SubSeq(enc, (k + 1) + 1, Len(enc))
             /\ Reading(enc, k)
  BY <1>1, OutsideByte
<1>6. PICK k \in 0 .. Len(enc) :
             /\ k < Len(enc) /\ k + 1 \in 0 .. Len(enc)
             /\ byte = enc[k + 1]
             /\ coming' = SubSeq(enc, (k + 1) + 1, Len(enc))
             /\ Reading(enc, k)
  BY <1>5
<1>7. item \in Items
  BY DEF StreamInv
<1>8. /\ enc \in Seq(Bytes) /\ k \in Nat /\ Len(enc) \in Nat
      /\ Len(buffer) = k
      /\ buffer = <<>> <=> k = 0
      /\ InHeader <=> k > 0 /\ item.kind \in {"data", "misfit"}
      /\ Append(buffer, byte) = SubSeq(enc, 1, k + 1)
  BY <1>6, <1>7, HasRead
<1>9. item.kind \in {"line", "prompt", "misfit", "data"}
  BY <1>7, KindsOfItems
<1> DEFINE bad == byte = Nul \/ Len(buffer) = LineMax
<1>10. IF bad THEN Fail ELSE Keep(byte)
  BY DEF FeedByte
<1> HIDE DEF bad
<1>11. bad => error' = "bad" /\ UNCHANGED events
  BY <1>10 DEF Fail
<1>12. ~bad => /\ buffer' = Append(buffer, byte)
               /\ UNCHANGED <<missing, link, error, events>>
  BY <1>10 DEF Keep
(* What is kept is under way, unless it was the last byte of the item.      *)
<1>13. ASSUME ~bad, k + 1 < Len(enc), item.kind # "prompt",
              item.kind = "line" => /\ k + 1 <= LineMax
                                    /\ \A i \in 1 .. (k + 1) : enc[i] # Nul,
              item.kind = "data" => k + 1 <= HeadLen(item, enc)
       PROVE  StreamInv'
  <2>1. buffer' = SubSeq(enc, 1, k + 1) /\ missing' = 0 /\ ~promptSpace'
        /\ UNCHANGED <<error, events>>
    BY <1>1, <1>8, <1>12, <1>13
  <2>2. Reading(enc, k + 1)'
    <3>1. HeadLen(item, enc)' = HeadLen(item, enc) /\ item' = item
      BY <1>3 DEF HeadLen
    <3>2. QED
      BY <1>13, <2>1, <3>1 DEF Reading
  <2>3. QED
    BY <1>3, <1>4, <1>6, <2>1, <2>2, GoesOn
<1>14. item.kind # "prompt"
  <2>1. SUFFICES ASSUME item.kind = "prompt" PROVE FALSE
    OBVIOUS
  <2>2. k = 0 /\ enc[1] = Greater
    BY <1>6, <1>7, <2>1, PromptShape DEF Reading
  <2>3. buffer = <<>> /\ byte = Greater
    BY <1>6, <1>8, <2>2
  <2>4. QED
    BY <1>1, <2>3 DEF AtPrompt
<1>15. CASE item.kind = "misfit"
  <2>1. ~Fits(item)
    BY <1>15 DEF Fits
  <2>2. /\ enc[1] = Ipd /\ enc[Len(enc)] \in {Colon, Lf} /\ Len(enc) \in {3, 4}
    BY <1>7, <1>15, MisfitShape
  <2>3. k + 1 < Len(enc)
    <3>1. SUFFICES ASSUME k + 1 = Len(enc) PROVE FALSE
      BY <1>6, <1>8
    <3>2. byte = Colon /\ k > 0
      BY <1>1, <1>6, <1>8, <2>2, <3>1
    <3>3. QED
      BY <1>1, <1>8, <1>15, <3>2
  <2>4. QED
    BY <1>3, <1>4, <1>11, <1>13, <1>15, <2>1, <2>3, HasFailed
<1>16. CASE item.kind = "line"
  <2> DEFINE t == item.bytes
             n == Len(t)
  <2>1. /\ n \in Nat /\ Len(enc) = n + 2
        /\ \A i \in 1 .. n : enc[i] = t[i]
        /\ enc[n + 1] = Cr /\ enc[n + 2] = Lf
    BY <1>7, <1>16, LineEncoding
  <2>2. k <= LineMax /\ \A i \in 1 .. k : enc[i] # Nul
    BY <1>6, <1>16 DEF Reading
  <2>3. Fits(item) <=> n < LineMax /\ \A i \in 1 .. n : t[i] # Nul
    BY <1>16 DEF Fits
  <2> HIDE DEF t, n
  <2>4. k + 1 # n + 2
    BY <1>1, <1>6, <2>1
  <2>5. k <= n
    BY <1>6, <1>8, <2>1, <2>4
  <2>6. CASE bad
    <3>1. ~Fits(item)
      <4>1. CASE byte = Nul
        <5>1. k # n
          <6>1. k = n => byte = Cr
            BY <1>6, <2>1, Zenon
          <6>2. QED
            BY <4>1, <6>1 DEF Nul, Cr
        <5>2. k + 1 \in 1 .. n
          BY <1>8, <2>1, <2>5, <5>1
        <5>3. t[k + 1] = Nul
          BY <1>6, <2>1, <4>1, <5>2
        <5>4. QED
          BY <2>3, <5>2, <5>3
      <4>2. CASE k = LineMax
        BY <2>1, <2>3, <2>5, <4>2, StreamSizes
      <4>3. QED
        BY <1>8, <2>6, <4>1, <4>2 DEF bad
    <3>2. QED
      BY <1>3, <1>4, <1>11, <2>6, <3>1, HasFailed
  <2>7. CASE ~bad
    <3>1. byte # Nul /\ k # LineMax
      BY <1>8, <2>7 DEF bad
    <3>2. k + 1 <= LineMax
      BY <1>8, <2>2, <3>1, StreamSizes
    <3>3. \A i \in 1 .. (k + 1) : enc[i] # Nul
      <4>1. \A i \in 1 .. (k + 1) : i \in 1 .. k \/ i = k + 1
        BY <1>8
      <4>2. QED
        BY <1>6, <2>2, <3>1, <4>1
    <3>4. k + 1 < Len(enc)
      BY <1>8, <2>1, <2>5
    <3>5. QED
      BY <1>13, <1>16, <2>7, <3>2, <3>3, <3>4
  <2>8. QED
    BY <2>6, <2>7
<1>17. CASE item.kind = "data"
  <2> DEFINE h == HeadLen(item, enc)
             n == Len(item.bytes)
  <2>1. /\ h \in Nat /\ 2 <= h /\ h <= LineMax
        /\ n \in Nat /\ Len(enc) = h + 1 + n /\ enc[h + 1] = Colon
        /\ \A i \in 1 .. h : enc[i] \in 0 .. 10 \cup {Ipd}
    BY <1>7, <1>17, FrameShape
  <2>2. k <= h
    BY <1>6, <1>17 DEF Reading
  <2> HIDE DEF h, n
  <2>3. k # h
    <3>1. SUFFICES ASSUME k = h PROVE FALSE
      OBVIOUS
    <3>2. byte = Colon /\ k > 0
      BY <1>6, <2>1, <3>1
    <3>3. QED
      BY <1>1, <1>8, <1>17, <3>2
  <2>4. k + 1 \in 1 .. h /\ k + 1 < Len(enc)
    BY <1>8, <2>1, <2>2, <2>3
  <2>5. ~bad
    <3>1. byte # Nul
      <4>1. byte \in 0 .. 10 \cup {Ipd}
        BY <1>6, <2>1, <2>4, Zenon
      <4>2. QED
        BY <4>1 DEF Nul, Ipd
    <3>2. k # LineMax
      BY <1>8, <2>1, <2>4, StreamSizes
    <3>3. QED
      BY <1>8, <3>1, <3>2 DEF bad
  <2>6. k + 1 <= h
    BY <1>8, <2>1, <2>4
  <2>7. QED
    BY <1>13, <1>17, <2>4, <2>5, <2>6 DEF h
<1> QED
  BY <1>9, <1>14, <1>15, <1>16, <1>17

(* The invariant holds at the start of a session,                           *)
LEMMA StreamInvInit == StreamInit => StreamInv
<1> SUFFICES ASSUME StreamInit PROVE StreamInv
  OBVIOUS
<1>1. /\ buffer = <<>> /\ missing = 0 /\ multiple \in BOOLEAN /\ error = "none"
      /\ item = Event("prompt", NoLink, <<Greater>>)
      /\ coming = <<>> /\ events = <<item>>
  BY DEF StreamInit
<1>2. item \in Items /\ item.kind = "prompt"
  BY <1>1 DEF Items, Event
<1>3. Done
  BY <1>1, <1>2 DEF Done, Fits, Given
<1> QED
  BY <1>1, <1>2, <1>3 DEF StreamInv

(* and of each later one,                                                   *)
LEMMA NewSessionKeeps ==
  ASSUME StreamInv, NewSession
  PROVE  StreamInv'
<1>1. /\ buffer' = <<>> /\ missing' = 0 /\ multiple' \in BOOLEAN /\ error' = "none"
      /\ item' = Event("prompt", NoLink, <<Greater>>)
      /\ coming' = <<>> /\ events' = <<item'>>
  BY DEF NewSession
<1>2. item' \in Items' /\ item'.kind = "prompt"
  BY <1>1 DEF Items, Event
<1>3. Done'
  BY <1>1, <1>2 DEF Done, Fits, Given
<1> QED
  BY <1>1, <1>2, <1>3 DEF StreamInv

(* and is kept by every step.                                               *)
LEMMA StreamInvNext ==
  StreamInv /\ [StreamNext]_streamVars => StreamInv'
<1> SUFFICES ASSUME StreamInv, [StreamNext]_streamVars PROVE StreamInv'
  OBVIOUS
<1>1. ASSUME NEW it \in Items, SendItem(it) PROVE StreamInv'
  BY <1>1, SendItemKeeps
<1>2. ASSUME NEW byte \in Bytes, FeedData(byte) PROVE StreamInv'
  BY <1>2, FeedDataKeeps
<1>3. ASSUME NEW byte \in Bytes, FeedByte(byte) PROVE StreamInv'
  BY <1>3, FeedByteKeeps
<1>4. CASE SkipSpace
  BY <1>4, SkipSpaceKeeps
<1>5. CASE FeedPrompt
  BY <1>5, FeedPromptKeeps
<1>6. CASE FeedHeader
  BY <1>6, FeedHeaderKeeps
<1>7. CASE FeedNewline
  BY <1>7, FeedNewlineKeeps
<1>8. CASE Expire
  <2>1. /\ error = "none" /\ error' = "late" /\ (buffer # <<>> \/ missing # 0)
        /\ UNCHANGED <<multiple, item, events>>
    BY <1>8 DEF Expire
  <2>2. UnderWay
    BY <2>1 DEF StreamInv, Done
  <2>3. events' = <<>>
    BY <2>1, <2>2 DEF UnderWay
  <2>4. multiple' \in BOOLEAN /\ item' \in Items'
    BY <2>1, SameItem DEF StreamInv
  <2>5. QED
    BY <2>1, <2>3, <2>4 DEF StreamInv
<1>9. CASE Ignore
  <2>1. error # "none" /\ UNCHANGED <<multiple, item, events, error>>
    BY <1>9 DEF Ignore
  <2>2. QED
    BY <2>1, SameItem DEF StreamInv
<1>10. CASE NewSession
  BY <1>10, NewSessionKeeps
<1>11. CASE UNCHANGED streamVars
  <2>1. UNCHANGED <<buffer, missing, link, multiple, promptSpace, error, item,
                    coming, events>>
    BY <1>11 DEF streamVars
  <2>2. Done => Done'
    BY <2>1, SameItem DEF Done
  <2>3. UnderWay => UnderWay'
    BY <2>1, SameItem DEF UnderWay, Reading, InPayload
  <2>4. QED
    BY <2>1, <2>2, <2>3, SameItem DEF StreamInv
<1> QED
  BY <1>1, <1>2, <1>3, <1>4, <1>5, <1>6, <1>7, <1>8, <1>9, <1>10, <1>11 DEF
     StreamNext

(* Whatever lines, prompts and frames the modem sends, in whatever order,   *)
(* whatever bytes a payload imitates and whenever a partial item is let     *)
(* expire, each is given to the callback once and unchanged, or poisons the *)
(* session because the parser never promised to take it.                    *)
THEOREM SplitCorrect == StreamSpec => []SplitAsSent
<1>1. StreamInit => StreamInv
  BY StreamInvInit
<1>2. StreamInv /\ [StreamNext]_streamVars => StreamInv'
  BY StreamInvNext
<1>3. StreamInv => SplitAsSent
  <2> SUFFICES ASSUME StreamInv PROVE SplitAsSent
    OBVIOUS
  <2>1. Given(item) \in {<<>>, <<item>>}
    BY DEF Given
  <2>2. CASE error = "none" /\ Done
    BY <2>2 DEF Done, SplitAsSent
  <2>3. CASE error = "none" /\ UnderWay
    <3>1. PICK enc \in Encodings(item) : \E k \in 0 .. Len(enc) :
                 /\ coming = SubSeq(enc, k + 1, Len(enc))
                 /\ Reading(enc, k) \/ InPayload(enc, k)
      BY <2>3 DEF UnderWay
    <3>2. PICK k \in 0 .. Len(enc) :
                 /\ coming = SubSeq(enc, k + 1, Len(enc))
                 /\ Reading(enc, k) \/ InPayload(enc, k)
      BY <3>1
    <3>3. k < Len(enc) /\ enc \in Seq(Bytes)
      BY <3>2, Begins DEF Reading, InPayload, StreamInv
    <3>4. coming # <<>>
      BY <3>2, <3>3, StillComing
    <3>5. QED
      BY <2>3, <3>4 DEF UnderWay, SplitAsSent
  <2>4. CASE error # "none"
    BY <2>4 DEF StreamInv, SplitAsSent
  <2>5. QED
    BY <2>2, <2>3, <2>4 DEF StreamInv
<1> QED
  BY <1>1, <1>2, <1>3, PTL DEF StreamSpec

=============================================================================
