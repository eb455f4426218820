--------------------------- MODULE SpscRing_proofs ---------------------------
(***************************************************************************)
(* The ring has no data race and is a bounded FIFO, for every capacity,    *)
(* every width of the counters and every set of items.                     *)
(***************************************************************************)
EXTENDS SpscRing, Integers, SequenceTheorems, TLAPS

-----------------------------------------------------------------------------
(* Counters that wrap round *)

\* A counter steps forward, and its distance to another grows by one.
LEMMA AddOne ==
  ASSUME NEW x \in Counter, NEW y \in Counter
  PROVE  /\ Add(x, 1) \in Counter /\ Sub(x, y) \in Counter
         /\ Sub(x, y) < Modulus - 1 => Sub(Add(x, 1), y) = Sub(x, y) + 1
         /\ x # y => Sub(x, Add(y, 1)) = Sub(x, y) - 1
         /\ Sub(x, y) = 0 <=> x = y
BY RingAssumption DEF Counter, Add, Sub

\* Going n steps from y and measuring the way.
LEMMA AddThenSub ==
  ASSUME NEW y \in Counter, NEW n \in Counter
  PROVE  Add(y, n) \in Counter /\ Sub(Add(y, n), y) = n
BY RingAssumption DEF Counter, Add, Sub

LEMMA SubNat == \A x, y \in Counter : Sub(x, y) \in Nat
BY RingAssumption DEF Counter, Sub

\* One step and i - 1 more.
LEMMA AddOneThen ==
  ASSUME NEW y \in Counter, NEW i \in Counter, i # 0
  PROVE  Add(Add(y, 1), i - 1) = Add(y, i)
BY RingAssumption DEF Counter, Add

\* Going n steps of the way from y to x.
LEMMA AddWithin ==
  ASSUME NEW x \in Counter, NEW y \in Counter, NEW n \in 0 .. Sub(x, y)
  PROVE  Add(y, n) \in Counter /\ Sub(Add(y, n), y) = n /\ Sub(x, Add(y, n)) = Sub(x, y) - n
<1>1. n \in Nat
  BY AddOne, RingAssumption DEF Counter
<1>2. CASE x >= y
  BY <1>1, <1>2, RingAssumption DEF Counter, Add, Sub
<1>3. CASE x < y
  BY <1>1, <1>3, RingAssumption DEF Counter, Add, Sub
<1> QED BY <1>2, <1>3, RingAssumption DEF Counter

\* A counter is at no distance from itself.
LEMMA SubSelf ==
  ASSUME NEW x \in Counter, NEW y \in Counter
  PROVE  Sub(y, y) = 0 /\ (x # y => Sub(y, y) < Sub(x, y))
<1>1. y \in Nat /\ Sub(x, y) \in Nat /\ (Sub(x, y) = 0 <=> x = y)
  BY AddOne, RingAssumption DEF Counter
<1>2. Sub(y, y) = 0
  BY <1>1 DEF Sub
<1> QED BY <1>1, <1>2

\* The distance from one counter tells another.
LEMMA SubInjective ==
  ASSUME NEW x \in Counter, NEW y \in Counter, NEW z \in Counter, Sub(x, z) = Sub(y, z)
  PROVE  x = y
BY RingAssumption DEF Counter, Sub

\* Distances along one way add up.
LEMMA SubChain ==
  ASSUME NEW x \in Counter, NEW y \in Counter, NEW z \in Counter,
         Sub(x, y) + Sub(y, z) < Modulus
  PROVE  Sub(x, z) = Sub(x, y) + Sub(y, z)
BY RingAssumption DEF Counter, Sub

LEMMA SlotInRange ==
  ASSUME NEW x \in Counter
  PROVE  Slot(x) \in SlotNo
BY RingAssumption DEF Counter, Slot, SlotNo

\* Two counters less than Capacity apart are in different slots, also across
\* the wrap, since Modulus is a multiple of Capacity.
LEMMA SlotsApart ==
  ASSUME NEW x \in Counter, NEW y \in Counter, x # y, Sub(x, y) < Capacity
  PROVE  Slot(x) # Slot(y)
<1>1. SUFFICES ASSUME Slot(x) = Slot(y) PROVE FALSE
  OBVIOUS
<1>2. ASSUME NEW n \in Nat
      PROVE  n \div Capacity \in Nat /\ n = (Capacity * (n \div Capacity)) + (n % Capacity)
  BY RingAssumption
<1>3. x \in Nat /\ y \in Nat
  BY RingAssumption DEF Counter
<1>4. PICK q \in Int, r \in Int, k \in Int :
        x = (Capacity * q) + Slot(x) /\ y = (Capacity * r) + Slot(y) /\ Modulus = Capacity * k
  <2>1. Modulus = Capacity * (Modulus \div Capacity) /\ Modulus \div Capacity \in Nat
    BY <1>2, RingAssumption
  <2> QED BY <1>2, <1>3, <2>1 DEF Slot
<1>5. PICK m \in Int : Sub(x, y) = Capacity * m
  <2>1. Slot(x) \in Int
    BY <1>3, RingAssumption DEF Slot
  <2>2. CASE x >= y
    <3>1. Sub(x, y) = Capacity * (q - r)
      BY <1>1, <1>3, <1>4, <2>1, <2>2, RingAssumption DEF Sub
    <3> QED BY <3>1
  <2>3. CASE ~(x >= y)
    <3>1. Sub(x, y) = Capacity * (q + k - r)
      BY <1>1, <1>3, <1>4, <2>1, <2>3, RingAssumption DEF Sub
    <3> QED BY <3>1
  <2> QED BY <2>2, <2>3
<1>6. Sub(x, y) \in 1 .. Capacity - 1
  BY RingAssumption DEF Counter, Sub
<1>7. m >= 1 => Capacity * m >= Capacity
  BY RingAssumption
<1>8. m <= 0 => Capacity * m <= 0
  BY RingAssumption
<1> QED BY <1>5, <1>6, <1>7, <1>8, RingAssumption

-----------------------------------------------------------------------------
(* The inductive invariant *)

\* The counter x numbers an item that is in the ring and was not moved out.
InRing(x) == Sub(x, tail) < Sub(head, tail) /\ ~(cpc = "publish" /\ x = tail)

\* Past its test for full the producer has a slot to itself.
HasRoom ==
  ppc \in {"write", "writing", "publish"} => Sub(tail, tailSeen) + Sub(head, tail) < Capacity

\* Past its test for empty the consumer has an item.
HasItem == cpc \in {"read", "publish"} => headSeen # tail

\* What is in the ring is whole, and what is about to be published is written.
Whole ==
  /\ \A x \in Counter : InRing(x) => buf[Slot(x)] \in Item
  /\ ppc = "publish" => buf[Slot(head)] = pv

RingInv == RingTypeOK /\ ViewsInStep /\ HasRoom /\ HasItem /\ Whole

\* The counters as integers, for the steps that reason about distances.
LEMMA Counters ==
  ASSUME RingInv
  PROVE  /\ head \in Counter /\ tail \in Counter /\ tailSeen \in Counter /\ headSeen \in Counter
         /\ Sub(head, tail) \in Nat /\ Sub(tail, tailSeen) \in Nat
         /\ Sub(headSeen, tail) \in Nat /\ Sub(head, headSeen) \in Nat
<1>1. head \in Counter /\ tail \in Counter /\ tailSeen \in Counter /\ headSeen \in Counter
  BY DEF RingInv, RingTypeOK
<1> QED BY <1>1, SubNat

\* A consumer past its test finds head_ ahead of tail_.
LEMMA ItemAhead ==
  ASSUME RingInv, cpc \in {"read", "publish"}
  PROVE  head # tail
<1>1. Sub(headSeen, tail) # 0
  BY Counters, AddOne DEF RingInv, HasItem
<1>2. Sub(head, tail) # 0
  BY <1>1, Counters DEF RingInv, ViewsInStep
<1> QED BY <1>2, Counters, AddOne

\* The producer's slot is none of those in the ring, nor the consumer's.
LEMMA HeadSlotFree ==
  ASSUME RingInv, ppc \in {"write", "writing", "publish"},
         NEW x \in Counter, Sub(x, tail) < Sub(head, tail)
  PROVE  Slot(x) # Slot(head)
<1>1. Sub(head, tail) < Capacity
  BY Counters, RingAssumption DEF RingInv, HasRoom
<1>2. x # head /\ Sub(head, x) < Capacity
  BY <1>1, Counters, RingAssumption DEF Counter, Sub
<1> QED BY <1>2, SlotsApart, Counters

\* The slot at tail_ is that of no other item in the ring.
LEMMA TailSlotOwn ==
  ASSUME RingInv, NEW x \in Counter, x # tail, Sub(x, tail) < Sub(head, tail)
  PROVE  Slot(x) # Slot(tail)
<1>1. Sub(x, tail) < Capacity
  BY Counters, AddOne, RingAssumption DEF RingInv, ViewsInStep, Counter
<1> QED BY <1>1, SlotsApart, Counters

-----------------------------------------------------------------------------
(* The steps of the producer *)

LEMMA BeginPushKeeps == ASSUME RingInv, NEW v \in Item, BeginPush(v) PROVE RingInv'
<1> USE DEF BeginPush, consumerVars
<1>1. RingTypeOK'
  BY DEF RingInv, RingTypeOK
<1>2. ViewsInStep' /\ HasRoom' /\ HasItem'
  BY DEF RingInv, ViewsInStep, HasRoom, HasItem
<1>3. Whole'
  BY DEF RingInv, Whole, InRing
<1> QED BY <1>1, <1>2, <1>3 DEF RingInv

LEMMA CheckFullKeeps == ASSUME RingInv, CheckFull PROVE RingInv'
<1>1. PICK n \in 0 .. Sub(tail, tailSeen) : tailSeen' = Add(tailSeen, n)
  BY DEF CheckFull, Loadable
<1>2. tailSeen' \in Counter /\ Sub(tail, tailSeen') = Sub(tail, tailSeen) - n
  BY <1>1, Counters, AddWithin
<1>3. UNCHANGED <<head, tail, headSeen, buf, pv, cpc, got>>
  BY DEF CheckFull, consumerVars
<1>4. RingTypeOK'
  BY <1>2, <1>3 DEF CheckFull, RingInv, RingTypeOK
<1>5. ViewsInStep'
  <2>1. Sub(tail, tailSeen') + Sub(head, tail) <= Capacity
    BY <1>2, Counters, RingAssumption DEF RingInv, ViewsInStep
  <2> QED BY <2>1, <1>3 DEF RingInv, ViewsInStep
<1>6. HasRoom'
  <2>1. SUFFICES ASSUME ~Full(tailSeen') PROVE Sub(tail, tailSeen') + Sub(head, tail) < Capacity
    BY <1>3 DEF CheckFull, HasRoom
  <2>2. Sub(tail, tailSeen') + Sub(head, tail) <= Capacity
    BY <1>5, <1>3 DEF ViewsInStep
  <2>3. Sub(head, tailSeen') = Sub(head, tail) + Sub(tail, tailSeen')
    BY <1>2, <2>2, SubChain, Counters, RingAssumption DEF Counter
  <2>4. Sub(Add(head, 1), tailSeen') = Sub(head, tailSeen') + 1
    BY <1>2, <2>2, <2>3, AddOne, Counters, RingAssumption DEF Counter
  <2> QED BY <1>2, <2>1, <2>3, <2>4, Counters, RingAssumption DEF Full
<1>7. HasItem' /\ Whole'
  BY <1>3 DEF CheckFull, RingInv, HasItem, Whole, InRing
<1> QED BY <1>4, <1>5, <1>6, <1>7 DEF RingInv

\* Both halves of the assignment to a slot touch the producer's own slot only.
LEMMA WriteKeeps ==
  ASSUME RingInv, BeginWrite \/ EndWrite
  PROVE  RingInv'
<1>1. /\ UNCHANGED <<head, pv, tailSeen, tail, cpc, got, headSeen>>
      /\ ppc \in {"write", "writing"} /\ ppc' \in {"writing", "publish"}
  BY DEF BeginWrite, EndWrite, consumerVars
<1>2. PICK c \in Item \cup {Torn} :
        /\ buf' = [buf EXCEPT ![Slot(head)] = c]
        /\ ppc' = "publish" => c = pv
  <2>1. pv \in Item
    BY <1>1 DEF RingInv, RingTypeOK
  <2> QED BY <2>1 DEF BeginWrite, EndWrite
<1>3. Slot(head) \in SlotNo /\ buf \in [SlotNo -> Item \cup {NoItem, Torn, Moved}]
  BY Counters, SlotInRange DEF RingInv, RingTypeOK
<1>4. RingTypeOK'
  <2>1. buf' \in [SlotNo -> Item \cup {NoItem, Torn, Moved}]
    BY <1>2, <1>3
  <2> QED BY <2>1, <1>1 DEF RingInv, RingTypeOK
<1>5. ViewsInStep' /\ HasRoom' /\ HasItem'
  BY <1>1 DEF RingInv, ViewsInStep, HasRoom, HasItem
<1>6. ASSUME NEW x \in Counter, InRing(x)' PROVE buf'[Slot(x)] \in Item
  <2>1. InRing(x)
    BY <1>1, <1>6 DEF InRing
  <2>2. Slot(x) # Slot(head) /\ Slot(x) \in SlotNo
    BY <1>1, <2>1, HeadSlotFree, SlotInRange DEF InRing
  <2> QED BY <1>2, <1>3, <2>1, <2>2 DEF RingInv, Whole
<1>7. Whole'
  <2>1. ppc' = "publish" => buf'[Slot(head')] = pv'
    BY <1>1, <1>2, <1>3
  <2> QED BY <1>6, <2>1 DEF Whole
<1> QED BY <1>4, <1>5, <1>7 DEF RingInv

LEMMA PublishHeadKeeps == ASSUME RingInv, PublishHead PROVE RingInv'
<1>1. /\ UNCHANGED <<pv, tailSeen, tail, cpc, got, headSeen, buf>>
      /\ ppc = "publish" /\ ppc' = "idle" /\ head' = Add(head, 1)
  BY DEF PublishHead, consumerVars
<1>2. Sub(tail, tailSeen) + Sub(head, tail) < Capacity
  BY <1>1 DEF RingInv, HasRoom
<1>3. head' \in Counter /\ Sub(head', tail) = Sub(head, tail) + 1
  BY <1>1, <1>2, AddOne, Counters, RingAssumption DEF Counter
<1>4. Sub(head', headSeen) = Sub(head, headSeen) + 1
  <2>1. Sub(head, headSeen) < Capacity
    BY <1>2, Counters, RingAssumption DEF RingInv, ViewsInStep
  <2> QED BY <1>1, <2>1, AddOne, Counters, RingAssumption DEF Counter
<1>5. RingTypeOK'
  BY <1>1, <1>3 DEF RingInv, RingTypeOK
<1>6. ViewsInStep'
  <2>1. /\ Sub(head', tail) <= Capacity /\ Sub(tail, tailSeen) + Sub(head', tail) <= Capacity
        /\ Sub(headSeen, tail) + Sub(head', headSeen) = Sub(head', tail)
    BY <1>2, <1>3, <1>4, Counters, RingAssumption DEF RingInv, ViewsInStep
  <2> QED BY <2>1, <1>1 DEF ViewsInStep
<1>7. HasRoom' /\ HasItem'
  BY <1>1 DEF RingInv, HasRoom, HasItem
<1>8. ASSUME NEW x \in Counter, InRing(x)' PROVE buf[Slot(x)] \in Item
  <2>1. Sub(x, tail) < Sub(head, tail) + 1 /\ ~(cpc = "publish" /\ x = tail)
    BY <1>1, <1>3, <1>8 DEF InRing
  <2>2. CASE x = head
    BY <1>1, <2>2 DEF RingInv, Whole, RingTypeOK
  <2>3. CASE x # head
    <3>1. Sub(x, tail) # Sub(head, tail)
      BY <2>3, Counters, SubInjective
    <3>2. InRing(x)
      <4>1. Sub(x, tail) \in Nat /\ Sub(head, tail) \in Nat
        BY Counters, SubNat
      <4> QED BY <2>1, <3>1, <4>1 DEF InRing
    <3> QED BY <3>2 DEF RingInv, Whole
  <2> QED BY <2>2, <2>3
<1>9. Whole'
  BY <1>1, <1>8 DEF Whole
<1> QED BY <1>5, <1>6, <1>7, <1>9 DEF RingInv

-----------------------------------------------------------------------------
(* The steps of the consumer *)

LEMMA CheckEmptyKeeps == ASSUME RingInv, CheckEmpty PROVE RingInv'
<1>1. PICK n \in 0 .. Sub(head, headSeen) : headSeen' = Add(headSeen, n)
  BY DEF CheckEmpty, Loadable
<1>2. UNCHANGED <<head, tail, tailSeen, buf, ppc, pv, got>>
  BY DEF CheckEmpty, producerVars
<1>3. /\ headSeen' \in Counter /\ Sub(head, headSeen') = Sub(head, headSeen) - n
      /\ Sub(headSeen', tail) = Sub(headSeen, tail) + n
  <2>1. Sub(headSeen, tail) + Sub(head, headSeen) = Sub(head, tail)
    BY DEF RingInv, ViewsInStep
  <2>2. headSeen' \in Counter /\ Sub(head, headSeen') = Sub(head, headSeen) - n
    BY <1>1, Counters, AddWithin
  <2>3. Sub(headSeen', headSeen) = n
    BY <1>1, Counters, AddWithin
  <2>4. Sub(headSeen', headSeen) + Sub(headSeen, tail) < Modulus /\ n \in Nat
    BY <1>1, <2>1, <2>3, Counters, AddOne, RingAssumption DEF Counter
  <2> QED BY <2>2, <2>3, <2>4, Counters, SubChain
<1>4. RingTypeOK'
  BY <1>2, <1>3 DEF CheckEmpty, RingInv, RingTypeOK
<1>5. ViewsInStep'
  <2>1. Sub(headSeen', tail) + Sub(head, headSeen') = Sub(head, tail)
    BY <1>3, Counters DEF RingInv, ViewsInStep
  <2> QED BY <2>1, <1>2 DEF RingInv, ViewsInStep
<1>6. HasRoom' /\ HasItem'
  BY <1>2 DEF CheckEmpty, Empty, RingInv, HasRoom, HasItem
<1>7. Whole'
  BY <1>2 DEF CheckEmpty, RingInv, Whole, InRing
<1> QED BY <1>4, <1>5, <1>6, <1>7 DEF RingInv

\* What the consumer finds at tail_ is an item.
LEMMA TailIsItem == ASSUME RingInv, cpc = "read" PROVE buf[Slot(tail)] \in Item
<1>1. Sub(tail, tail) < Sub(head, tail)
  BY ItemAhead, Counters, SubSelf
<1> QED BY <1>1, Counters DEF RingInv, Whole, InRing

LEMMA MoveOutKeeps == ASSUME RingInv, MoveOut PROVE RingInv'
<1>1. /\ UNCHANGED <<tail, headSeen, head, ppc, pv, tailSeen>>
      /\ cpc = "read" /\ cpc' = "publish"
      /\ got' = buf[Slot(tail)] /\ buf' = [buf EXCEPT ![Slot(tail)] = Moved]
  BY DEF MoveOut, producerVars
<1>2. Slot(tail) \in SlotNo /\ buf \in [SlotNo -> Item \cup {NoItem, Torn, Moved}]
  BY Counters, SlotInRange DEF RingInv, RingTypeOK
<1>3. RingTypeOK'
  <2>1. buf' \in [SlotNo -> Item \cup {NoItem, Torn, Moved}]
    BY <1>1, <1>2
  <2> QED BY <2>1, <1>1, TailIsItem DEF RingInv, RingTypeOK
<1>4. ViewsInStep' /\ HasRoom' /\ HasItem'
  BY <1>1 DEF RingInv, ViewsInStep, HasRoom, HasItem
<1>5. ASSUME NEW x \in Counter, InRing(x)' PROVE buf'[Slot(x)] \in Item
  <2>1. InRing(x) /\ x # tail
    BY <1>1, <1>5 DEF InRing
  <2>2. Slot(x) # Slot(tail) /\ Slot(x) \in SlotNo
    BY <2>1, TailSlotOwn, SlotInRange DEF InRing
  <2> QED BY <1>1, <1>2, <2>1, <2>2 DEF RingInv, Whole
<1>6. ppc' = "publish" => buf'[Slot(head')] = pv'
  <2>1. SUFFICES ASSUME ppc = "publish" PROVE buf'[Slot(head)] = pv
    BY <1>1
  <2>2. Sub(tail, tail) < Sub(head, tail)
    BY <1>1, ItemAhead, Counters, SubSelf
  <2>3. Slot(tail) # Slot(head) /\ Slot(head) \in SlotNo
    BY <2>1, <2>2, HeadSlotFree, SlotInRange, Counters
  <2> QED BY <1>1, <1>2, <2>1, <2>3 DEF RingInv, Whole
<1>7. Whole'
  BY <1>5, <1>6 DEF Whole
<1> QED BY <1>3, <1>4, <1>7 DEF RingInv

LEMMA PublishTailKeeps == ASSUME RingInv, PublishTail PROVE RingInv'
<1>1. /\ UNCHANGED <<got, headSeen, buf, head, ppc, pv, tailSeen>>
      /\ cpc = "publish" /\ cpc' = "idle" /\ tail' = Add(tail, 1)
  BY DEF PublishTail, producerVars
<1>2. head # tail /\ headSeen # tail
  BY <1>1, ItemAhead DEF RingInv, HasItem
<1>3. /\ tail' \in Counter
      /\ Sub(head, tail') = Sub(head, tail) - 1 /\ Sub(headSeen, tail') = Sub(headSeen, tail) - 1
  BY <1>1, <1>2, AddOne, Counters
<1>4. Sub(tail', tailSeen) = Sub(tail, tailSeen) + 1
  <2>1. Sub(tail, tailSeen) < Capacity
    <3>1. Sub(head, tail) # 0
      BY <1>2, Counters, AddOne
    <3> QED BY <3>1, Counters, RingAssumption DEF RingInv, ViewsInStep
  <2> QED BY <1>1, <2>1, AddOne, Counters, RingAssumption DEF Counter
<1>5. RingTypeOK'
  BY <1>1, <1>3 DEF RingInv, RingTypeOK
<1>6. ViewsInStep'
  <2>1. /\ Sub(head, tail') <= Capacity /\ Sub(tail', tailSeen) + Sub(head, tail') <= Capacity
        /\ Sub(headSeen, tail') + Sub(head, headSeen) = Sub(head, tail')
    BY <1>3, <1>4, Counters, RingAssumption DEF RingInv, ViewsInStep
  <2> QED BY <2>1, <1>1 DEF ViewsInStep
<1>7. HasRoom'
  <2>1. Sub(tail', tailSeen) + Sub(head, tail') = Sub(tail, tailSeen) + Sub(head, tail)
    BY <1>3, <1>4, Counters
  <2> QED BY <2>1, <1>1 DEF RingInv, HasRoom
<1>8. HasItem'
  BY <1>1 DEF HasItem
<1>9. ASSUME NEW x \in Counter, InRing(x)' PROVE InRing(x)
  <2>1. Sub(x, tail') < Sub(head, tail) - 1
    BY <1>1, <1>3, <1>9 DEF InRing
  <2> QED BY <2>1, <1>1, <1>2, Counters, RingAssumption DEF InRing, Counter, Add, Sub
<1>10. Whole'
  BY <1>1, <1>9 DEF RingInv, Whole
<1> QED BY <1>5, <1>6, <1>7, <1>8, <1>10 DEF RingInv

-----------------------------------------------------------------------------
(* The invariants of the runs *)

LEMMA RingInitKeeps == RingInit => RingInv
<1> SUFFICES ASSUME RingInit PROVE RingInv
  OBVIOUS
<1>1. 0 \in Counter /\ Sub(0, 0) = 0
  BY RingAssumption DEF Counter, Sub
<1>2. RingTypeOK
  BY <1>1 DEF RingInit, RingTypeOK
<1>3. ViewsInStep /\ HasRoom /\ HasItem
  BY <1>1, RingAssumption DEF RingInit, ViewsInStep, HasRoom, HasItem
<1>4. Whole
  BY <1>1, AddOne, RingAssumption DEF RingInit, Whole, InRing, Counter
<1> QED BY <1>2, <1>3, <1>4 DEF RingInv

LEMMA RingStepKeeps == ASSUME RingInv, [RingNext]_ringVars PROVE RingInv'
<1>1. CASE Producer
  BY <1>1, BeginPushKeeps, CheckFullKeeps, WriteKeeps, PublishHeadKeeps DEF Producer
<1>2. CASE Consumer
  BY <1>2, CheckEmptyKeeps, MoveOutKeeps, PublishTailKeeps DEF Consumer
<1>3. CASE UNCHANGED ringVars
  BY <1>3 DEF ringVars, RingInv, RingTypeOK, ViewsInStep, HasRoom, HasItem, Whole, InRing
<1> QED BY <1>1, <1>2, <1>3 DEF RingNext

\* The inductive invariant holds in every reachable state of the ring.
THEOREM RingInvariance == RingSpec => []RingInv
<1> QED BY RingInitKeeps, RingStepKeeps, PTL DEF RingSpec

\* Type correctness; what try_pop hands over is an item, never a torn slot or
\* one that was moved out.
THEOREM RingTypeCorrect == RingSpec => []RingTypeOK
<1>1. RingInv => RingTypeOK
  BY DEF RingInv
<1> QED BY <1>1, RingInvariance, PTL

\* The head never runs more than Capacity ahead, and the stale views stay
\* between the counters, whatever the width of the counters.
THEOREM ViewsStayInStep == RingSpec => []ViewsInStep
<1>1. RingInv => ViewsInStep
  BY DEF RingInv
<1> QED BY <1>1, RingInvariance, PTL

\* Producer and consumer never touch the same slot at the same time.
THEOREM RaceFree == RingSpec => []NoRace
<1>1. ASSUME RingInv, ppc \in {"write", "writing"}, cpc = "read"
      PROVE  Slot(head) # Slot(tail)
  <2>1. Sub(tail, tail) < Sub(head, tail)
    BY <1>1, ItemAhead, Counters, SubSelf
  <2> QED BY <1>1, <2>1, HeadSlotFree, Counters
<1>2. RingInv => NoRace
  BY <1>1 DEF NoRace
<1> QED BY <1>2, RingInvariance, PTL

-----------------------------------------------------------------------------
(* The ring implements BoundedFifo *)

\* The oldest counter whose item was not moved out, and how many there are.
First == IF cpc = "publish" THEN Add(tail, 1) ELSE tail
Held  == Sub(head, First)

LEMMA HeldCounts ==
  ASSUME RingInv
  PROVE  /\ First \in Counter /\ Held \in 0 .. Capacity
         /\ cpc = "publish" => Held = Sub(head, tail) - 1
         /\ cpc # "publish" => Held = Sub(head, tail)
<1>1. cpc = "publish" => Sub(head, Add(tail, 1)) = Sub(head, tail) - 1 /\ Sub(head, tail) # 0
  BY ItemAhead, Counters, AddOne
<1>2. Sub(head, tail) \in 0 .. Capacity /\ Add(tail, 1) \in Counter /\ tail \in Counter
  BY Counters, AddOne, RingAssumption DEF RingInv, ViewsInStep
<1> QED BY <1>1, <1>2, RingAssumption DEF First, Held

\* The i-th held item stands in a slot of the ring.
LEMMA HeldInRing ==
  ASSUME RingInv, NEW i \in 1 .. Held
  PROVE  Add(First, i - 1) \in Counter /\ InRing(Add(First, i - 1))
<1>1. i - 1 \in Counter /\ i \in Counter /\ i - 1 \in 0 .. Held - 1 /\ Held \in Nat
  BY HeldCounts, RingAssumption DEF Counter
<1>2. CASE cpc = "publish"
  <2>1. Add(First, i - 1) = Add(tail, i)
    BY <1>1, <1>2, Counters, RingAssumption DEF First, Counter, Add
  <2>2. Add(tail, i) \in Counter /\ Sub(Add(tail, i), tail) = i
    BY <1>1, Counters, AddThenSub
  <2>3. Sub(tail, tail) = 0
    BY Counters, SubSelf
  <2> QED BY <1>1, <1>2, <2>1, <2>2, <2>3, HeldCounts, Counters DEF InRing
<1>3. CASE cpc # "publish"
  <2>1. First = tail
    BY <1>3 DEF First
  <2>2. Add(tail, i - 1) \in Counter /\ Sub(Add(tail, i - 1), tail) = i - 1
    BY <1>1, Counters, AddThenSub
  <2> QED BY <1>1, <1>3, <2>1, <2>2, HeldCounts, Counters DEF InRing
<1> QED BY <1>2, <1>3

\* A function on 1 .. n is a sequence of length n.
LEMMA SeqOfLength ==
  ASSUME NEW S, NEW n \in Nat, NEW f \in [1 .. n -> S]
  PROVE  f \in Seq(S) /\ Len(f) = n
<1>1. f \in Seq(S)
  BY SeqDef
<1>2. 1 .. Len(f) = 1 .. n /\ Len(f) \in Nat
  BY <1>1, LenProperties
<1> QED BY <1>1, <1>2

LEMMA ContentsIsSeq ==
  RingInv => /\ Contents = [i \in 1 .. Held |-> buf[Slot(Add(First, i - 1))]]
             /\ Contents \in Seq(Item) /\ Len(Contents) = Held
<1> SUFFICES ASSUME RingInv
             PROVE  /\ Contents = [i \in 1 .. Held |-> buf[Slot(Add(First, i - 1))]]
                    /\ Contents \in Seq(Item) /\ Len(Contents) = Held
  OBVIOUS
<1>1. Contents = [i \in 1 .. Held |-> buf[Slot(Add(First, i - 1))]]
  BY DEF Contents, First, Held
<1>2. \A i \in 1 .. Held : buf[Slot(Add(First, i - 1))] \in Item
  BY HeldInRing DEF RingInv, Whole
<1>3. Contents \in [1 .. Held -> Item]
  BY <1>1, <1>2
<1>4. Held \in Nat
  BY HeldCounts, RingAssumption
<1> QED BY <1>1, <1>3, <1>4, SeqOfLength

LEMMA NextContentsIsSeq ==
  RingInv' => /\ Contents' = [i \in 1 .. Held' |-> buf'[Slot(Add(First', i - 1))]]
              /\ Contents' \in Seq(Item) /\ Len(Contents') = Held'
<1>1. RingInv' => (/\ Contents = [i \in 1 .. Held |-> buf[Slot(Add(First, i - 1))]]
                   /\ Contents \in Seq(Item) /\ Len(Contents) = Held)'
  BY ContentsIsSeq, PTL
<1> QED BY <1>1

\* A step that neither publishes nor moves out leaves the abstract queue alone.
LEMMA ContentsSame ==
  ASSUME RingInv, RingInv', First' = First, Held' = Held,
         \A i \in 1 .. Held : buf'[Slot(Add(First, i - 1))] = buf[Slot(Add(First, i - 1))]
  PROVE  Contents' = Contents
<1>1. /\ Contents = [i \in 1 .. Held |-> buf[Slot(Add(First, i - 1))]]
      /\ Contents' = [i \in 1 .. Held' |-> buf'[Slot(Add(First', i - 1))]]
  BY ContentsIsSeq, NextContentsIsSeq
<1> QED BY <1>1

\* The release store of head_ appends the item that was written.
LEMMA PublishHeadPushes ==
  ASSUME RingInv, RingInv', PublishHead
  PROVE  pv \in Item /\ Fifo!Push(pv)
<1>1. /\ UNCHANGED <<tail, cpc, got, buf>> /\ ppc = "publish" /\ head' = Add(head, 1)
  BY DEF PublishHead, consumerVars
<1>2. pv \in Item /\ buf[Slot(head)] = pv
  BY <1>1 DEF RingInv, RingTypeOK, Whole
<1>3. Sub(head, tail) < Capacity /\ Held < Capacity
  BY <1>1, HeldCounts, Counters, RingAssumption DEF RingInv, HasRoom
<1>4. First' = First /\ Held' = Held + 1
  <2>1. First' = First
    BY <1>1 DEF First
  <2>2. Sub(Add(head, 1), First) = Sub(head, First) + 1
    BY <1>3, HeldCounts, AddOne, Counters, RingAssumption DEF Held
  <2> QED BY <2>1, <2>2, <1>1 DEF Held
<1>5. Add(First, Held) = head
  BY HeldCounts, Counters, RingAssumption DEF Held, Counter, Add, Sub
<1>6. Contents' = Append(Contents, pv)
  <2>1. /\ Contents \in Seq(Item) /\ Len(Contents) = Held /\ Held \in Nat
        /\ \A i \in 1 .. Held : Contents[i] = buf[Slot(Add(First, i - 1))]
    BY ContentsIsSeq, HeldCounts, RingAssumption
  <2>2. /\ Contents' \in Seq(Item) /\ Len(Contents') = Held + 1
        /\ \A i \in 1 .. Held + 1 : Contents'[i] = buf[Slot(Add(First, i - 1))]
    BY NextContentsIsSeq, <1>1, <1>4
  <2>3. /\ Append(Contents, pv) \in Seq(Item) /\ Len(Append(Contents, pv)) = Held + 1
        /\ \A i \in 1 .. Held : Append(Contents, pv)[i] = Contents[i]
        /\ Append(Contents, pv)[Held + 1] = pv
    BY <1>2, <2>1, AppendProperties
  <2>4. ASSUME NEW i \in 1 .. Held + 1 PROVE Contents'[i] = Append(Contents, pv)[i]
    <3>1. CASE i = Held + 1
      BY <3>1, <1>2, <1>5, <2>1, <2>2, <2>3
    <3>2. CASE i # Held + 1
      <4>1. i \in 1 .. Held
        BY <3>2, <2>1
      <4> QED BY <4>1, <2>1, <2>2, <2>3
    <3> QED BY <3>1, <3>2
  <2> QED BY <2>2, <2>3, <2>4, SeqEqual
<1> QED BY <1>1, <1>2, <1>3, <1>6, ContentsIsSeq DEF Fifo!Push

\* The move out of the slot at tail_ takes the oldest item.
LEMMA MoveOutPops ==
  ASSUME RingInv, RingInv', MoveOut
  PROVE  Fifo!Pop
<1>1. /\ UNCHANGED <<tail, head>> /\ cpc = "read" /\ cpc' = "publish"
      /\ got' = buf[Slot(tail)] /\ buf' = [buf EXCEPT ![Slot(tail)] = Moved]
  BY DEF MoveOut, producerVars
<1>2. head # tail /\ First = tail /\ First' = Add(tail, 1)
  BY <1>1, ItemAhead DEF First
<1>3. Held \in Nat \ {0} /\ Held' = Held - 1
  <2>1. Held = Sub(head, tail) /\ Held' = Sub(head, Add(tail, 1))
    BY <1>1, <1>2 DEF Held
  <2> QED BY <2>1, <1>2, AddOne, Counters
<1>4. /\ Contents \in Seq(Item) /\ Len(Contents) = Held
      /\ \A i \in 1 .. Held : Contents[i] = buf[Slot(Add(tail, i - 1))]
  BY ContentsIsSeq, <1>2
<1>5. Contents # <<>>
  BY <1>3, <1>4, EmptySeq
<1>6. got' = Head(Contents)
  <2>1. Contents[1] = buf[Slot(Add(tail, 1 - 1))]
    BY <1>3, <1>4
  <2>2. Add(tail, 1 - 1) = tail
    BY Counters, RingAssumption DEF Counter, Add
  <2> QED BY <1>1, <1>5, <2>1, <2>2
<1>7. Contents' = Tail(Contents)
  <2>1. /\ Contents' \in Seq(Item) /\ Len(Contents') = Held - 1
        /\ \A i \in 1 .. Held - 1 : Contents'[i] = buf'[Slot(Add(First', i - 1))]
    BY NextContentsIsSeq, <1>3
  <2>2. /\ Tail(Contents) \in Seq(Item) /\ Len(Tail(Contents)) = Held - 1
        /\ \A i \in 1 .. Held - 1 : Tail(Contents)[i] = Contents[i + 1]
    BY <1>4, <1>5, HeadTailProperties
  <2>3. ASSUME NEW i \in 1 .. Held - 1 PROVE Contents'[i] = Tail(Contents)[i]
    <3>1. /\ i \in 1 .. Held' /\ i + 1 \in 1 .. Held /\ i \in Counter
          /\ i \in Nat \ {0} /\ i < Held
      <4>1. Held \in 0 .. Capacity
        BY HeldCounts
      <4> QED BY <4>1, <1>3, RingAssumption DEF Counter
    <3>2. Add(Add(tail, 1), i - 1) = Add(tail, i) /\ Add(tail, i) \in Counter
      BY <3>1, Counters, AddOneThen, AddThenSub
    <3>3. Sub(Add(tail, i), tail) = i /\ i < Sub(head, tail)
      BY <3>1, <1>2, Counters, AddThenSub DEF Held
    <3>4. Add(tail, i) # tail
      BY <3>1, <3>2, <3>3, Counters, SubSelf
    <3>5. Slot(Add(tail, i)) # Slot(tail) /\ Slot(Add(tail, i)) \in SlotNo
      BY <3>2, <3>3, <3>4, TailSlotOwn, SlotInRange
    <3>6. buf'[Slot(Add(tail, i))] = buf[Slot(Add(tail, i))]
      BY <3>5, <1>1 DEF RingInv, RingTypeOK
    <3>7. Contents[i + 1] = buf[Slot(Add(tail, i))]
      <4>1. (i + 1) - 1 = i
        BY <3>1
      <4> QED BY <4>1, <3>1, <1>4
    <3> QED BY <1>2, <3>2, <3>6, <3>7, <2>1, <2>2
  <2> QED BY <2>1, <2>2, <2>3, SeqEqual
<1> QED BY <1>5, <1>6, <1>7 DEF Fifo!Pop

LEMMA RingStepIsFifoStep ==
  ASSUME RingInv, RingInv', [RingNext]_ringVars
  PROVE  [Fifo!FifoNext]_(Fifo!fifoVars)
<1>1. CASE PublishHead
  BY <1>1, PublishHeadPushes DEF Fifo!FifoNext
<1>2. CASE MoveOut
  BY <1>2, MoveOutPops DEF Fifo!FifoNext
<1>3. CASE BeginWrite \/ EndWrite
  <2>1. /\ UNCHANGED <<head, tail, cpc, got>> /\ ppc \in {"write", "writing"}
        /\ \A k \in SlotNo : k # Slot(head) => buf'[k] = buf[k]
    BY <1>3 DEF BeginWrite, EndWrite, consumerVars, RingInv, RingTypeOK
  <2>2. First' = First /\ Held' = Held
    BY <2>1 DEF First, Held
  <2>3. \A i \in 1 .. Held : buf'[Slot(Add(First, i - 1))] = buf[Slot(Add(First, i - 1))]
    BY <2>1, HeldInRing, HeadSlotFree, SlotInRange DEF InRing
  <2>4. Contents' = Contents
    BY <2>2, <2>3, ContentsSame
  <2> QED BY <2>1, <2>4 DEF Fifo!fifoVars
<1>4. CASE PublishTail
  <2>1. /\ UNCHANGED <<head, buf, got>> /\ tail' = Add(tail, 1)
        /\ cpc = "publish" /\ cpc' = "idle"
    BY <1>4 DEF PublishTail, producerVars
  <2>2. First' = First /\ Held' = Held
    BY <2>1 DEF First, Held
  <2>3. Contents' = Contents
    BY <2>1, <2>2, ContentsSame
  <2> QED BY <2>1, <2>3 DEF Fifo!fifoVars
<1>5. CASE (\E v \in Item : BeginPush(v)) \/ CheckFull \/ CheckEmpty \/ UNCHANGED ringVars
  <2>1. UNCHANGED <<head, tail, buf, got>> /\ (cpc = "publish" <=> cpc' = "publish")
    BY <1>5 DEF BeginPush, CheckFull, CheckEmpty, producerVars, consumerVars, ringVars
  <2>2. First' = First /\ Held' = Held
    BY <2>1 DEF First, Held
  <2>3. Contents' = Contents
    BY <2>1, <2>2, ContentsSame
  <2> QED BY <2>1, <2>3 DEF Fifo!fifoVars
<1> QED BY <1>1, <1>2, <1>3, <1>4, <1>5 DEF RingNext, Producer, Consumer

\* Seen from outside, the lock-free ring is a bounded queue: nothing published is
\* lost, handed over twice, out of order, half written or already moved out.
THEOREM RingImplementsFifo == RingSpec => RingIsFifo
<1>1. RingInit => Fifo!FifoInit
  <2> SUFFICES ASSUME RingInit PROVE Fifo!FifoInit
    OBVIOUS
  <2>1. RingInv
    BY RingInitKeeps
  <2>2. Contents \in Seq(Item) /\ Len(Contents) = 0
    <3>1. Sub(head, tail) = 0 /\ cpc = "idle"
      BY SubSelf, RingAssumption DEF RingInit, Counter
    <3> QED BY <2>1, <3>1, ContentsIsSeq, HeldCounts
  <2>3. Contents = <<>>
    BY <2>2, EmptySeq
  <2> QED BY <2>3 DEF RingInit, Fifo!FifoInit
<1>2. RingInv /\ RingInv' /\ [RingNext]_ringVars => [Fifo!FifoNext]_(Fifo!fifoVars)
  BY RingStepIsFifoStep
<1> QED BY <1>1, <1>2, RingInvariance, PTL DEF RingSpec, RingIsFifo, Fifo!FifoSpec
=============================================================================
