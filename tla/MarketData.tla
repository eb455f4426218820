----------------------------- MODULE MarketData -----------------------------
(***************************************************************************)
(* The market-data path of me_pipeline: the simulator, the ZeroMQ links,   *)
(* the subscriber thread with its LocalBook, the MDRing, the consumer      *)
(* thread with the OrderBook, and the stop flag.                           *)
(*                                                                         *)
(* PUB/SUB keeps order and never duplicates; a message is lost when the    *)
(* subscription has not reached the publisher yet or a high-water mark is  *)
(* hit.  REQ/REP: a requester that gave up waiting holds a socket that     *)
(* refuses the next send with an exception.                                *)
(***************************************************************************)
EXTENDS MDSim

CONSTANTS
  Depth,        \* levels per side in a snapshot (8 in the program)
  WireCap,      \* messages in flight on PUB/SUB before the rest is dropped
  RingCap,      \* capacity of the MDRing
  Lossy,        \* whether PUB/SUB may lose a message before that
  SimStalls,    \* whether the simulator may take longer than a receive timeout
  SimMayDie     \* whether the simulator may be killed

ASSUME FeedAssumption ==
  /\ Depth \in Nat \ {0} /\ WireCap \in Nat /\ RingCap \in Nat \ {0}
  /\ Lossy \in BOOLEAN /\ SimStalls \in BOOLEAN /\ SimMayDie \in BOOLEAN

NoReply == [kind |-> "none"]

VARIABLES
  wire,                   \* PUB/SUB messages not yet received
  request, reply,         \* the subscriber's REQ socket and the answer to it
  subPc, inCtor, broken,  \* broken: the REQ socket still awaits an old answer
  local, lastL2, localTop, lastL1,   \* LocalBook
  mdRing, unseen,         \* unseen: pops the subscriber has not seen yet
  consumerPc, ob, invariantsFail,
  stop,
  books,      \* history: the simulator's book at each sequence number
  obSeq,      \* history: sequence number of the last delta the consumer applied
  missed      \* history: where deltas were lost between simulator and consumer

linkVars == <<wire, request, reply>>
localVars == <<local, lastL2, localTop, lastL1>>
subVars == <<subPc, inCtor, broken>>
ringVars == <<mdRing, unseen>>
consumerVars == <<consumerPc, ob, invariantsFail, obSeq>>
feedVars == <<simVars, linkVars, subVars, localVars, ringVars, consumerVars, stop, books, missed>>

-----------------------------------------------------------------------------
(* The simulator and the links *)

\* What a step of the simulator published goes on the wire, or is lost.
Deliver ==
  \/ /\ sent' = <<>> /\ UNCHANGED wire
  \/ /\ sent' # <<>> /\ Len(wire) < WireCap
     /\ wire' = Append(wire, sent'[1])
  \/ /\ sent' # <<>> /\ (Lossy \/ Len(wire) = WireCap)
     /\ UNCHANGED wire

Record ==
  books' = IF seqno' = seqno THEN books
           ELSE [n \in DOMAIN books \cup {seqno'} |-> IF n = seqno' THEN book' ELSE books[n]]

Answer(kind) ==
  IF kind = "L2" THEN [kind |-> "L2", levels |-> TopLevels(book, Depth), seq |-> seqno]
  ELSE [kind |-> "L1", top |-> Top(book), seq |-> seqno]

Poll ==
  /\ BeginTurn
  /\ \/ /\ request # "none"
        /\ reply' = Answer(request) /\ request' = "none"
     \/ request = "none" /\ UNCHANGED <<request, reply>>
  /\ UNCHANGED <<wire, subVars, localVars, ringVars, consumerVars, stop, books, missed>>

\* The loop turns for ever; where the bound on seqno ends it, it still answers.
PollAtBound ==
  /\ simPc = "poll" /\ ~(seqno + MaxEdits < MaxSeq)
  /\ request # "none"
  /\ reply' = Answer(request) /\ request' = "none"
  /\ UNCHANGED <<simVars, wire, subVars, localVars, ringVars, consumerVars, stop, books, missed>>

SimStep ==
  /\ SimWork
  /\ Deliver
  /\ Record
  /\ UNCHANGED <<request, reply, subVars, localVars, ringVars, consumerVars, stop, missed>>

\* The simulator is killed: what it sent still arrives, a request is answered
\* no more.
SimDies ==
  /\ SimMayDie
  /\ Die
  /\ UNCHANGED <<linkVars, subVars, localVars, ringVars, consumerVars, stop, books, missed>>

-----------------------------------------------------------------------------
(* The subscriber thread *)

\* drain_sub, before every snapshot.
Drain ==
  /\ subPc = "drain"
  /\ wire' = <<>>
  /\ subPc' = "askL2"
  /\ UNCHANGED <<simVars, request, reply, inCtor, broken, localVars, ringVars, consumerVars,
                 stop, books, missed>>

Ask(kind, asking, waiting) ==
  /\ subPc = asking
  /\ IF broken
       THEN subPc' = "dead" /\ UNCHANGED <<request, reply>>
       ELSE /\ subPc' = waiting
            /\ request' = kind /\ reply' = NoReply
  /\ UNCHANGED <<simVars, wire, inCtor, broken, localVars, ringVars, consumerVars, stop,
                 books, missed>>

\* Mutant: the sequence number of the snapshot is not taken over.
KeptSeq == lastL2

SnapSeq == reply.seq

ReceiveL2Snap ==
  /\ subPc = "waitL2" /\ reply.kind = "L2"
  /\ local' = reply.levels /\ lastL2' = SnapSeq
  /\ subPc' = "askL1"
  /\ UNCHANGED <<simVars, linkVars, inCtor, broken, localTop, lastL1, ringVars, consumerVars,
                 stop, books, missed>>

\* Mutant: the test guards the number only, not the quote.
ApplyL1Unguarded(top, seq) ==
  localTop' = top /\ lastL1' = IF seq <= lastL1 THEN lastL1 ELSE seq

ApplyL1(top, seq) ==
  IF seq <= lastL1 THEN UNCHANGED <<localTop, lastL1>>
  ELSE localTop' = top /\ lastL1' = seq

ReceiveL1Snap ==
  /\ subPc = "waitL1" /\ reply.kind = "L1"
  /\ ApplyL1(reply.top, reply.seq)
  /\ subPc' = "recv" /\ inCtor' = FALSE
  /\ UNCHANGED <<simVars, linkVars, broken, local, lastL2, ringVars, consumerVars, stop,
                 books, missed>>

\* Mutant: the REQ socket has no receive timeout.
NeverGiveUp == FALSE

\* get_snapshot gives up.  The constructor throws; run() ignores the result.
GiveUp ==
  /\ SimStalls \/ simPc = "dead"
  /\ subPc \in {"waitL2", "waitL1"} /\ reply = NoReply
  /\ broken' = TRUE
  /\ subPc' = IF inCtor THEN "dead" ELSE "recv"
  /\ UNCHANGED <<simVars, linkVars, inCtor, localVars, ringVars, consumerVars, stop,
                 books, missed>>

\* ring_->try_push, its result ignored; a stale view of the consumer's counter
\* makes the ring look fuller than it is (see MatchingEngineWorker).
PushRing(m) ==
  /\ unseen' \in 0 .. unseen
  /\ mdRing' = IF Len(mdRing) + unseen' < RingCap THEN Append(mdRing, m) ELSE mdRing

Message ==
  /\ subPc = "recv"
  /\ wire # <<>>
  /\ wire' = Tail(wire)
  /\ UNCHANGED <<simVars, request, reply, inCtor, broken, consumerVars, stop, books>>

\* Mutant: any newer delta is taken for the next one.
IsNewer(seq) == seq > lastL2

IsNext(seq) == seq = lastL2 + 1

StaleDelta ==
  /\ Message
  /\ Head(wire).kind = "L2" /\ Head(wire).seq <= lastL2
  /\ UNCHANGED <<subPc, localVars, ringVars, missed>>

NextDelta ==
  /\ Message
  /\ Head(wire).kind = "L2" /\ IsNext(Head(wire).seq)
  /\ LET d == Head(wire) IN local' = Upsert(local, d.side, d.px, d.qty)
  /\ lastL2' = Head(wire).seq
  /\ PushRing(Head(wire))
  /\ missed' = IF mdRing' = mdRing THEN missed \cup {"ring"} ELSE missed
  /\ UNCHANGED <<subPc, localTop, lastL1>>

Gap ==
  /\ Message
  /\ Head(wire).kind = "L2" /\ Head(wire).seq > lastL2 /\ ~IsNext(Head(wire).seq)
  /\ subPc' = "drain"
  /\ missed' = missed \cup {"gap"}
  /\ UNCHANGED <<localVars, ringVars>>

QuoteMessage ==
  /\ Message
  /\ Head(wire).kind = "L1"
  /\ ApplyL1(Head(wire).top, Head(wire).seq)
  /\ PushRing(Head(wire))
  /\ UNCHANGED <<subPc, local, lastL2, missed>>

StopSub ==
  /\ subPc = "recv" /\ stop
  /\ subPc' = "done"
  /\ UNCHANGED <<simVars, linkVars, inCtor, broken, localVars, ringVars, consumerVars, stop,
                 books, missed>>

-----------------------------------------------------------------------------
(* The consumer thread and the main thread *)

\* OrderBook::validate; a level is stored with a positive quantity or not at all.
Validate(b) == ~Crossed(b)

\* Mutant: an Erase is not applied.
AppliedNoErase(b, m) == IF m.qty = 0 THEN b ELSE Upsert(b, m.side, m.px, m.qty)

Applied(b, m) == Upsert(b, m.side, m.px, m.qty)

\* The delta is applied twice, for the idempotency check.
Consume ==
  /\ consumerPc = "run"
  /\ mdRing # <<>>
  /\ mdRing' = Tail(mdRing) /\ unseen' = unseen + 1
  /\ LET m == Head(mdRing)
         twice == Applied(Applied(ob, m), m)
     IN  IF m.kind = "L1" THEN UNCHANGED <<ob, invariantsFail, obSeq>>
         ELSE /\ ob' = twice
              /\ invariantsFail' = (invariantsFail \/ ~Validate(twice))
              /\ obSeq' = m.seq
  /\ UNCHANGED <<simVars, linkVars, subVars, localVars, consumerPc, stop, books, missed>>

StopConsumer ==
  /\ consumerPc = "run" /\ stop
  /\ consumerPc' = "done"
  /\ UNCHANGED <<simVars, linkVars, subVars, localVars, ringVars, ob, invariantsFail, obSeq,
                 stop, books, missed>>

RaiseStop ==
  /\ ~stop
  /\ stop' = TRUE
  /\ UNCHANGED <<simVars, linkVars, subVars, localVars, ringVars, consumerVars, books, missed>>

-----------------------------------------------------------------------------

FeedInit ==
  /\ SimInit
  /\ wire = <<>> /\ request = "none" /\ reply = NoReply
  /\ subPc = "drain" /\ inCtor = TRUE /\ broken = FALSE
  /\ local = EmptyBook /\ lastL2 = 0 /\ localTop = NoTop /\ lastL1 = 0
  /\ mdRing = <<>> /\ unseen = 0
  /\ consumerPc = "run" /\ ob = EmptyBook /\ invariantsFail = FALSE /\ obSeq = 0
  /\ stop = FALSE
  /\ books = [n \in {seqno} |-> book]
  /\ missed = {}

Simulator == Poll \/ PollAtBound \/ SimStep
Subscriber ==
  \/ Drain \/ Ask("L2", "askL2", "waitL2") \/ Ask("L1", "askL1", "waitL1")
  \/ ReceiveL2Snap \/ ReceiveL1Snap \/ GiveUp
  \/ StaleDelta \/ NextDelta \/ Gap \/ QuoteMessage

FeedNext ==
  Simulator \/ SimDies \/ Subscriber \/ StopSub \/ Consume \/ StopConsumer \/ RaiseStop

FeedSpec == FeedInit /\ [][FeedNext]_feedVars

-----------------------------------------------------------------------------
(* Properties *)

\* Every level of b is in c with the same quantity.
Within(b, c) == \A s \in Side, p \in Tick : b[s][p] # 0 => b[s][p] = c[s][p]

\* Across gaps, stale deltas, drained queues, failed and half-finished
\* snapshots: what the subscriber holds is part of the simulator's book at the
\* sequence number it claims, so it is never crossed.
LocalWithinSim ==
  lastL2 # 0 => lastL2 \in DOMAIN books /\ Within(local, books[lastL2])

\* The quote the subscriber holds is the simulator's top at the number it claims.
QuoteIsSims ==
  lastL1 # 0 => lastL1 \in DOMAIN books /\ localTop = Top(books[lastL1])

\* While no delta was lost on the way, what the consumer holds is part of the
\* simulator's book at the last delta it applied.
BookWithinSim ==
  (missed = {} /\ obSeq # 0) => obSeq \in DOMAIN books /\ Within(ob, books[obSeq])

\* invariants_fail counts nothing while no delta was lost on the way.
HealthyUntilLoss == invariantsFail => missed # {}

\* After a gap the consumer's book agrees with the simulator again: where a gap is
\* all that was lost (nothing was dropped at the MDRing), once the subscriber has
\* taken its snapshot and is back in its loop and the ring is drained, every
\* level the consumer holds is the simulator's at the number the subscriber is at.
ResumesAfterGap ==
  (missed = {"gap"} /\ subPc = "recv" /\ mdRing = <<>> /\ lastL2 \in DOMAIN books) =>
    Within(ob, books[lastL2])

\* A gap is repaired: a subscriber that has got into its loop ends only when it
\* is told to stop.
Recovers == ~inCtor => subPc # "dead"
=============================================================================
