------------------------------ MODULE SpscRing ------------------------------
(***************************************************************************)
(* class SpscRing: one producer thread in try_push, one consumer thread in *)
(* try_pop, no lock.  Each access to head_, to tail_ and to a slot is a    *)
(* step of its own.                                                        *)
(*                                                                         *)
(* head_ and tail_ are std::size_t and wrap round: they count modulo       *)
(* Modulus (2^64 in the program).  An acquire load may return any value    *)
(* the atomic has had since the last one this thread saw, so each thread   *)
(* keeps the value it saw last; what a thread did before a release store   *)
(* is visible to the thread that read that store or a later one.  A slot   *)
(* is not atomic: writing it goes through a Torn content, and try_pop      *)
(* moves the value out and leaves Moved behind.                            *)
(***************************************************************************)
EXTENDS Naturals, Sequences

CONSTANTS
  Item,       \* what can be pushed
  Capacity,   \* number of slots
  Modulus,    \* number of values of a counter
  NoItem, Torn, Moved

\* The constructor admits only powers of two, and so is Modulus; the vector of
\* slots is far smaller than 2^64.  Were Modulus just one more than Capacity,
\* the distance of two counters could not tell a ring that is over-full.
ASSUME RingAssumption ==
  /\ Capacity \in Nat \ {0} /\ Modulus \in Nat
  /\ Capacity + 1 < Modulus /\ Modulus % Capacity = 0
  /\ {NoItem, Torn, Moved} \cap Item = {}

Counter == 0 .. Modulus - 1
SlotNo  == 0 .. Capacity - 1

VARIABLES
  head, tail,   \* the atomics
  buf,
  ppc, pv, tailSeen,    \* producer: place, argument, last value loaded of tail_
  cpc, got, headSeen    \* consumer: place, `out', last value loaded of head_

producerVars == <<head, ppc, pv, tailSeen>>
consumerVars == <<tail, cpc, got, headSeen>>
ringVars == <<head, tail, buf, ppc, pv, tailSeen, cpc, got, headSeen>>

\* Unsigned arithmetic on counters, and h & mask_.
Add(x, n) == IF x + n < Modulus THEN x + n ELSE x + n - Modulus
Sub(x, y) == IF x >= y THEN x - y ELSE x + Modulus - y
Slot(x)   == x % Capacity

\* The values an acquire load may return, given the last one seen.
Loadable(seen, current) == {Add(seen, n) : n \in 0 .. Sub(current, seen)}

-----------------------------------------------------------------------------
(* try_push *)

BeginPush(v) ==
  /\ ppc = "idle"
  /\ ppc' = "check" /\ pv' = v
  /\ UNCHANGED <<head, tailSeen, buf, consumerVars>>

\* Mutant: full is noticed one item late.
FullLate(t) == Sub(head, t) > Capacity

Full(t) == Sub(Add(head, 1), t) > Capacity

CheckFull ==
  /\ ppc = "check"
  /\ tailSeen' \in Loadable(tailSeen, tail)
  /\ ppc' = IF Full(tailSeen') THEN "idle" ELSE "write"
  /\ UNCHANGED <<head, pv, buf, consumerVars>>

BeginWrite ==
  /\ ppc = "write"
  /\ buf' = [buf EXCEPT ![Slot(head)] = Torn]
  /\ ppc' = "writing"
  /\ UNCHANGED <<head, pv, tailSeen, consumerVars>>

EndWrite ==
  /\ ppc = "writing"
  /\ buf' = [buf EXCEPT ![Slot(head)] = pv]
  /\ ppc' = "publish"
  /\ UNCHANGED <<head, pv, tailSeen, consumerVars>>

\* Mutant: head_ is stored without release, ahead of the slot's content.
PublishHeadRelaxed ==
  /\ ppc \in {"writing", "publish"}
  /\ head' = Add(head, 1)
  /\ ppc' = "idle"
  /\ UNCHANGED <<pv, tailSeen, buf, consumerVars>>

PublishHead ==
  /\ ppc = "publish"
  /\ head' = Add(head, 1)
  /\ ppc' = "idle"
  /\ UNCHANGED <<pv, tailSeen, buf, consumerVars>>

-----------------------------------------------------------------------------
(* try_pop *)

\* Mutants: no test for empty; a ring of one item taken for empty.
EmptyNever(h) == FALSE
EmptyKeepsOne(h) == h \in {tail, Add(tail, 1)}

Empty(h) == h = tail

CheckEmpty ==
  /\ cpc = "idle"
  /\ headSeen' \in Loadable(headSeen, head)
  /\ cpc' = IF Empty(headSeen') THEN "idle" ELSE "read"
  /\ UNCHANGED <<tail, got, buf, producerVars>>

MoveOut ==
  /\ cpc = "read"
  /\ got' = buf[Slot(tail)]
  /\ buf' = [buf EXCEPT ![Slot(tail)] = Moved]
  /\ cpc' = "publish"
  /\ UNCHANGED <<tail, headSeen, producerVars>>

PublishTail ==
  /\ cpc = "publish"
  /\ tail' = Add(tail, 1)
  /\ cpc' = "idle"
  /\ UNCHANGED <<got, headSeen, buf, producerVars>>

-----------------------------------------------------------------------------

RingInit ==
  /\ head = 0 /\ tail = 0
  /\ buf = [i \in SlotNo |-> NoItem]
  /\ ppc = "idle" /\ pv = NoItem /\ tailSeen = 0
  /\ cpc = "idle" /\ got = NoItem /\ headSeen = 0

Producer == (\E v \in Item : BeginPush(v)) \/ CheckFull \/ BeginWrite \/ EndWrite \/ PublishHead
Consumer == CheckEmpty \/ MoveOut \/ PublishTail

RingNext == Producer \/ Consumer

RingSpec == RingInit /\ [][RingNext]_ringVars

\* A store becomes visible in the end, and the consumer's loop goes on polling.
\* Nothing is asked of the producer.
FairRingSpec ==
  /\ RingSpec
  /\ WF_ringVars(CheckEmpty /\ headSeen' = head)
  /\ WF_ringVars(MoveOut \/ PublishTail)

-----------------------------------------------------------------------------
(* Properties *)

\* Type correctness.
RingTypeOK ==
  /\ head \in Counter /\ tail \in Counter
  /\ tailSeen \in Counter /\ headSeen \in Counter
  /\ buf \in [SlotNo -> Item \cup {NoItem, Torn, Moved}]
  /\ ppc \in {"idle", "check", "write", "writing", "publish"}
  /\ pv \in Item \cup {NoItem} /\ (ppc # "idle" => pv \in Item)
  /\ cpc \in {"idle", "read", "publish"}
  /\ got \in Item \cup {NoItem}

\* The two threads are never at the same slot: there is no data race, though
\* each works from a stale value of the other's counter and though the
\* counters wrap.
NoRace ==
  (ppc \in {"write", "writing"} /\ cpc = "read") => Slot(head) # Slot(tail)

\* Head never runs more than Capacity ahead of tail, and neither thread's stale
\* view is ahead of the counter or so far behind that the wrap could hide it.
ViewsInStep ==
  /\ Sub(head, tail) <= Capacity
  /\ Sub(tail, tailSeen) + Sub(head, tail) <= Capacity
  /\ Sub(headSeen, tail) + Sub(head, headSeen) = Sub(head, tail)

\* The items in the ring; one that was moved out is gone before tail_ says so.
Contents ==
  LET first == IF cpc = "publish" THEN Add(tail, 1) ELSE tail
  IN  [i \in 1 .. Sub(head, first) |-> buf[Slot(Add(first, i - 1))]]

\* The ring is a bounded FIFO: no item is lost, duplicated, reordered, torn or
\* read after it was moved out.
Fifo == INSTANCE BoundedFifo WITH items <- Contents
RingIsFifo == Fifo!FifoSpec

\* Every item whose push was published is popped: tail_ reaches every value
\* that head_ takes.
Delivered == \A h \in Counter : (head = h) ~> (tail = h)
=============================================================================
