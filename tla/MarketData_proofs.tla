-------------------------- MODULE MarketData_proofs --------------------------
(***************************************************************************)
(* The books and quotes of the pipeline are parts of the simulator's, for  *)
(* every size of book, wire, ring and snapshot, with messages lost,        *)
(* snapshots that time out and a simulator that dies at any moment.        *)
(***************************************************************************)
EXTENDS MarketData, MDSim_proofs, SequenceTheorems

BookType == [Side -> [Tick -> Level]]
BookUncrossed(b) == \A p \in Levels(b, "Bid"), a \in Levels(b, "Ask") : p < a

\* What can be published.
L2Msg == [kind : {"L2"}, side : Side, px : Tick, qty : Level, seq : Nat]
L1Msg == [kind : {"L1"}, top : {Top(b) : b \in BookType}, seq : Nat]
Msg == L2Msg \cup L1Msg

\* The history: a book for every number given out, the simulator's own last.
BooksOK ==
  /\ seqno \in DOMAIN books /\ books[seqno] = book
  /\ \A n \in DOMAIN books :
       n \in Nat \ {0} /\ n <= seqno /\ books[n] \in BookType /\ BookUncrossed(books[n])

\* A message tells the truth about the history bs: a delta is the step between
\* two books with consecutive numbers, a quote the top at its number.
Truthful(bs, m) ==
  /\ m.kind = "L2" =>
       /\ m.seq \in DOMAIN bs /\ m.seq - 1 \in DOMAIN bs
       /\ bs[m.seq] = Upsert(bs[m.seq - 1], m.side, m.px, m.qty)
  /\ m.kind = "L1" => m.seq \in DOMAIN bs /\ m.top = Top(bs[m.seq])

AllTruthful(bs, q) == q \in Seq(Msg) /\ \A i \in 1 .. Len(q) : Truthful(bs, q[i])

LinksTruthful == AllTruthful(books, wire) /\ AllTruthful(books, mdRing)

ReplyTruthful ==
  /\ reply.kind = "L2" => /\ reply.seq \in DOMAIN books /\ reply.levels \in BookType
                          /\ Within(reply.levels, books[reply.seq])
  /\ reply.kind = "L1" => reply.seq \in DOMAIN books /\ reply.top = Top(books[reply.seq])

\* b is part of the book that the history bs has at n, or still empty.
Tracks(bs, b, n) ==
  /\ b \in BookType
  /\ IF n = 0 THEN b = EmptyBook ELSE n \in DOMAIN bs /\ Within(b, bs[n])

LocalOK ==
  /\ lastL2 \in Nat /\ Tracks(books, local, lastL2)
  /\ lastL1 \in Nat
  /\ lastL1 # 0 => lastL1 \in DOMAIN books /\ localTop = Top(books[lastL1])

\* The places of the deltas in a ring.
Pending(q) == {i \in 1 .. Len(q) : q[i].kind = "L2"}

\* Between the delta numbered seen and the number last no delta is missing in
\* the ring q, and those in it are in order.
Linked(q, last, seen) ==
  /\ \A i, j \in Pending(q) : i < j => q[i].seq < q[j].seq
  /\ \E a \in 0 .. last :
       /\ seen \in {0, a}
       /\ \A i \in Pending(q) : q[i].seq \in a + 1 .. last
       /\ \A n \in a + 1 .. last : \E i \in Pending(q) : q[i].seq = n

\* What holds until a delta is lost.  The one snapshot taken before that comes
\* before all deltas.
ConsumerOK ==
  /\ Tracks(books, ob, obSeq) /\ obSeq \in Nat
  /\ Linked(mdRing, lastL2, obSeq)
  /\ subPc \in {"drain", "askL2", "waitL2"} => Pending(mdRing) = {} /\ obSeq = 0
  /\ ~invariantsFail

FeedInv ==
  /\ SimInv /\ BooksOK /\ LinksTruthful /\ ReplyTruthful /\ LocalOK
  /\ missed = {} => ConsumerOK

-----------------------------------------------------------------------------
(* Histories *)

\* A history is only ever added to.
Extends(bs, cs) == \A n \in DOMAIN bs : n \in DOMAIN cs /\ cs[n] = bs[n]

LEMMA TruthStays ==
  ASSUME NEW bs, NEW cs, Extends(bs, cs), NEW m, Truthful(bs, m)
  PROVE  Truthful(cs, m)
BY DEF Extends, Truthful

LEMMA AllTruthStays ==
  ASSUME NEW bs, NEW cs, Extends(bs, cs), NEW q, AllTruthful(bs, q)
  PROVE  AllTruthful(cs, q)
BY TruthStays DEF AllTruthful

LEMMA TracksStays ==
  ASSUME NEW bs, NEW cs, Extends(bs, cs), NEW b, NEW n, Tracks(bs, b, n)
  PROVE  Tracks(cs, b, n)
BY DEF Extends, Tracks

\* A delta applied to what tracks the book before it tracks the book after it.
LEMMA DeltaTracks ==
  ASSUME NEW bs, NEW b, NEW n, Tracks(bs, b, n),
         NEW m \in L2Msg, Truthful(bs, m), m.seq # 0, n = 0 \/ n = m.seq - 1,
         bs[m.seq] \in BookType, n \in DOMAIN bs => bs[n] \in BookType
  PROVE  Tracks(bs, Upsert(b, m.side, m.px, m.qty), m.seq)
<1>1. /\ m.side \in Side /\ m.px \in Tick /\ m.qty \in Level /\ m.kind = "L2" /\ m.seq \in Nat
  BY DEF L2Msg
<1>2. /\ m.seq \in DOMAIN bs /\ m.seq - 1 \in DOMAIN bs
      /\ bs[m.seq] = [bs[m.seq - 1] EXCEPT ![m.side][m.px] = m.qty]
  BY <1>1 DEF Truthful, Upsert
<1>3. b \in [Side -> [Tick -> Level]]
  BY DEF Tracks, BookType
<1> DEFINE c == [b EXCEPT ![m.side][m.px] = m.qty]
<1>4. c \in BookType
  BY <1>1, <1>3 DEF BookType
<1>5. bs[m.seq] \in [Side -> [Tick -> Level]]
  BY DEF BookType
<1>6. ASSUME NEW s \in Side, NEW p \in Tick, c[s][p] # 0
      PROVE  c[s][p] = bs[m.seq][s][p]
  <2>1. CASE s = m.side /\ p = m.px
    <3>1. c[s][p] = m.qty
      BY <2>1, <1>1, <1>3
    <3> QED BY <3>1, <2>1, <1>1, <1>2, <1>5
  <2>2. CASE s # m.side \/ p # m.px
    <3>1. c[s][p] = b[s][p] /\ b[s][p] # 0
      BY <2>2, <1>1, <1>3, <1>6
    <3>2. n # 0
      BY <3>1 DEF Tracks, EmptyBook
    <3>3. n = m.seq - 1 /\ b[s][p] = bs[n][s][p]
      BY <3>1, <3>2 DEF Tracks, Within
    <3>4. bs[n] \in [Side -> [Tick -> Level]]
      BY <3>3, <1>2 DEF BookType
    <3> QED BY <3>1, <3>3, <3>4, <2>2, <1>1, <1>2
  <2> QED BY <2>1, <2>2
<1> QED BY <1>1, <1>2, <1>4, <1>6 DEF Tracks, Within, Upsert

-----------------------------------------------------------------------------
(* Messages in flight *)

LEMMA SentStaysTrue ==
  ASSUME NEW bs, NEW q, AllTruthful(bs, q), NEW m \in Msg, Truthful(bs, m)
  PROVE  AllTruthful(bs, Append(q, m))
<1>1. q \in Seq(Msg) /\ Len(q) \in Nat
  BY LenProperties DEF AllTruthful
<1>2. /\ Append(q, m) \in Seq(Msg) /\ Len(Append(q, m)) = Len(q) + 1
      /\ \A i \in 1 .. Len(q) : Append(q, m)[i] = q[i]
      /\ Append(q, m)[Len(q) + 1] = m
  BY <1>1, AppendProperties
<1>3. ASSUME NEW i \in 1 .. Len(q) + 1 PROVE Truthful(bs, Append(q, m)[i])
  <2>1. CASE i = Len(q) + 1
    BY <2>1, <1>2
  <2>2. CASE i # Len(q) + 1
    <3>1. i \in 1 .. Len(q)
      BY <2>2, <1>1
    <3> QED BY <3>1, <1>2 DEF AllTruthful
  <2> QED BY <2>1, <2>2
<1> QED BY <1>2, <1>3 DEF AllTruthful

LEMMA ReceivedIsTrue ==
  ASSUME NEW bs, NEW q, AllTruthful(bs, q), q # <<>>
  PROVE  /\ AllTruthful(bs, Tail(q))
         /\ Head(q) \in Msg /\ Truthful(bs, Head(q))
<1>1. q \in Seq(Msg) /\ Len(q) \in Nat \ {0}
  BY EmptySeq DEF AllTruthful
<1>2. /\ Tail(q) \in Seq(Msg) /\ Len(Tail(q)) = Len(q) - 1 /\ Head(q) \in Msg
      /\ \A i \in 1 .. Len(Tail(q)) : Tail(q)[i] = q[i + 1]
  BY <1>1, HeadTailProperties
<1>3. Head(q) = q[1] /\ 1 \in 1 .. Len(q)
  BY <1>1
<1>4. ASSUME NEW i \in 1 .. Len(Tail(q)) PROVE Truthful(bs, Tail(q)[i])
  <2>1. i + 1 \in 1 .. Len(q)
    BY <1>1, <1>2
  <2> QED BY <2>1, <1>2 DEF AllTruthful
<1> QED BY <1>2, <1>3, <1>4 DEF AllTruthful

LEMMA NothingIsTrue == ASSUME NEW bs PROVE AllTruthful(bs, <<>>)
BY EmptySeq DEF AllTruthful

LEMMA Kinds ==
  ASSUME NEW m \in Msg
  PROVE  /\ m.seq \in Nat
         /\ m.kind = "L2" <=> m \in L2Msg
         /\ m.kind = "L1" <=> m \in L1Msg
         /\ m.kind \in {"L1", "L2"}
BY DEF Msg, L1Msg, L2Msg

\* The next delta goes to the back of a ring that misses none.
LEMMA LinkedPush ==
  ASSUME NEW q \in Seq(Msg), NEW last \in Nat, NEW seen, Linked(q, last, seen),
         NEW m \in L2Msg, m.seq = last + 1
  PROVE  Linked(Append(q, m), last + 1, seen)
<1> DEFINE r == Append(q, m)
           n == Len(q)
<1>1. /\ n \in Nat /\ Len(r) = n + 1 /\ r[n + 1] = m
      /\ \A i \in 1 .. n : r[i] = q[i]
  BY LenProperties, AppendProperties DEF Msg
<1>2. m.kind = "L2"
  BY DEF L2Msg
<1> HIDE DEF r
<1>3. Pending(r) = Pending(q) \cup {n + 1}
  <2>1. ASSUME NEW i \in 1 .. n + 1, i # n + 1 PROVE i \in 1 .. n
    BY <1>1, <2>1
  <2> QED BY <1>1, <1>2, <2>1 DEF Pending
<1>4. PICK a \in 0 .. last :
        /\ seen \in {0, a}
        /\ \A i \in Pending(q) : q[i].seq \in a + 1 .. last
        /\ \A k \in a + 1 .. last : \E i \in Pending(q) : q[i].seq = k
  BY DEF Linked
<1>5. \A i \in Pending(q) : i \in 1 .. n /\ i < n + 1 /\ ~(n + 1 < i) /\ r[i] = q[i]
  BY <1>1 DEF Pending
<1>6. ASSUME NEW i \in Pending(r), NEW j \in Pending(r), i < j PROVE r[i].seq < r[j].seq
  <2>1. CASE i \in Pending(q) /\ j \in Pending(q)
    <3>1. q[i].seq < q[j].seq
      BY <2>1, <1>6 DEF Linked
    <3> QED BY <3>1, <2>1, <1>5
  <2>2. CASE i \in Pending(q) /\ j = n + 1
    <3>1. r[i] = q[i] /\ r[j] = m /\ q[i].seq \in a + 1 .. last
      BY <2>2, <1>1, <1>4, <1>5
    <3>2. q[i].seq < last + 1
      BY <3>1
    <3> QED BY <3>1, <3>2
  <2>3. CASE i = n + 1
    <3>1. j \in 1 .. n + 1
      BY <1>1 DEF Pending
    <3> QED BY <3>1, <2>3, <1>1, <1>6
  <2> QED BY <1>3, <2>1, <2>2, <2>3
<1>7. \A i \in Pending(r) : r[i].seq \in a + 1 .. last + 1
  BY <1>1, <1>3, <1>4, <1>5
<1>8. ASSUME NEW k \in a + 1 .. last + 1 PROVE \E i \in Pending(r) : r[i].seq = k
  <2>1. CASE k = last + 1
    BY <2>1, <1>1, <1>3
  <2>2. CASE k # last + 1
    <3>1. k \in a + 1 .. last
      BY <2>2
    <3> QED BY <3>1, <1>3, <1>4, <1>5
  <2> QED BY <2>1, <2>2
<1>9. a \in 0 .. last + 1
  OBVIOUS
<1> QED BY <1>4, <1>6, <1>7, <1>8, <1>9 DEF Linked, r

\* A ring without deltas is linked to a consumer that has seen none.
LEMMA NothingLinked ==
  ASSUME NEW q, NEW last \in Nat, Pending(q) = {}
  PROVE  Linked(q, last, 0)
<1>1. last \in 0 .. last /\ last + 1 .. last = {}
  OBVIOUS
<1> QED BY <1>1 DEF Linked

\* A quote in the ring changes nothing for the deltas.
LEMMA LinkedQuote ==
  ASSUME NEW q \in Seq(Msg), NEW last, NEW seen, NEW m \in L1Msg
  PROVE  /\ Linked(q, last, seen) => Linked(Append(q, m), last, seen)
         /\ Pending(Append(q, m)) = Pending(q)
<1> DEFINE r == Append(q, m)
           n == Len(q)
<1>1. /\ n \in Nat /\ Len(r) = n + 1 /\ r[n + 1] = m
      /\ \A i \in 1 .. n : r[i] = q[i]
  BY LenProperties, AppendProperties DEF Msg
<1>2. m.kind # "L2"
  BY DEF L1Msg
<1> HIDE DEF r
<1>3. Pending(r) = Pending(q)
  <2>1. ASSUME NEW i \in 1 .. n + 1, i # n + 1 PROVE i \in 1 .. n
    BY <1>1, <2>1
  <2> QED BY <1>1, <1>2, <2>1 DEF Pending
<1>4. \A i \in Pending(q) : r[i] = q[i]
  BY <1>1 DEF Pending
<1> QED BY <1>3, <1>4 DEF Linked, r

\* What the consumer takes out is the delta after the last it saw, or a quote.
LEMMA LinkedPop ==
  ASSUME NEW q \in Seq(Msg), q # <<>>, NEW last \in Nat, NEW seen, Linked(q, last, seen)
  PROVE  /\ Head(q).kind = "L2" => /\ Linked(Tail(q), last, Head(q).seq)
                                   /\ seen = 0 \/ seen = Head(q).seq - 1
         /\ Head(q).kind = "L1" => Linked(Tail(q), last, seen)
         /\ Pending(q) = {} => Pending(Tail(q)) = {}
<1> DEFINE r == Tail(q)
           n == Len(q)
<1>1. /\ n \in Nat \ {0} /\ Len(r) = n - 1 /\ Head(q) = q[1]
      /\ \A i \in 1 .. Len(r) : r[i] = q[i + 1]
  BY EmptySeq, HeadTailProperties
<1> HIDE DEF r
<1>2. \A i \in Pending(r) : i \in Nat /\ i + 1 \in Pending(q) /\ r[i] = q[i + 1]
  BY <1>1 DEF Pending
<1>3. \A i \in Pending(q) : i \in 1 .. n /\ (i # 1 => i - 1 \in Pending(r) /\ r[i - 1] = q[i])
  <2> SUFFICES ASSUME NEW i \in Pending(q), i # 1
               PROVE  i - 1 \in Pending(r) /\ r[i - 1] = q[i]
    BY DEF Pending
  <2>1. i - 1 \in 1 .. Len(r) /\ (i - 1) + 1 = i
    BY <1>1 DEF Pending
  <2> QED BY <2>1, <1>1 DEF Pending
<1>4. PICK a \in 0 .. last :
        /\ seen \in {0, a}
        /\ \A i \in Pending(q) : q[i].seq \in a + 1 .. last
        /\ \A k \in a + 1 .. last : \E i \in Pending(q) : q[i].seq = k
  BY DEF Linked
<1>5. \A i, j \in Pending(r) : i < j => r[i].seq < r[j].seq
  BY <1>2 DEF Linked
<1>6. ASSUME Head(q).kind = "L2"
      PROVE  Linked(r, last, Head(q).seq) /\ (seen = 0 \/ seen = Head(q).seq - 1)
  <2>1. 1 \in Pending(q) /\ q[1].seq \in a + 1 .. last
    BY <1>1, <1>4, <1>6 DEF Pending
  <2>2. \A i \in Pending(q) : i # 1 => q[1].seq < q[i].seq
    BY <1>3, <2>1 DEF Linked
  <2>3. q[1].seq = a + 1
    <3>1. a + 1 \in a + 1 .. last
      BY <2>1
    <3>2. PICK i \in Pending(q) : q[i].seq = a + 1
      BY <3>1, <1>4
    <3> QED BY <3>2, <2>1, <2>2
  <2>4. \A i \in Pending(r) : r[i].seq \in (a + 1) + 1 .. last
    <3> SUFFICES ASSUME NEW i \in Pending(r) PROVE r[i].seq \in (a + 1) + 1 .. last
      OBVIOUS
    <3>1. i + 1 \in Pending(q) /\ i + 1 # 1 /\ r[i] = q[i + 1]
      BY <1>2, <1>1 DEF Pending
    <3>2. q[i + 1].seq \in a + 1 .. last /\ a + 1 < q[i + 1].seq
      BY <3>1, <1>4, <2>2, <2>3
    <3> QED BY <3>1, <3>2
  <2>5. ASSUME NEW k \in (a + 1) + 1 .. last PROVE \E i \in Pending(r) : r[i].seq = k
    <3>1. k \in a + 1 .. last /\ k # a + 1
      OBVIOUS
    <3>2. PICK i \in Pending(q) : q[i].seq = k
      BY <3>1, <1>4
    <3> QED BY <3>1, <3>2, <2>3, <1>3
  <2>6. a + 1 \in 0 .. last
    BY <2>1
  <2>7. Linked(r, last, a + 1)
    BY <1>5, <2>4, <2>5, <2>6 DEF Linked
  <2> QED BY <1>1, <1>4, <2>3, <2>7
<1>7. ASSUME Head(q).kind = "L1" PROVE Linked(r, last, seen)
  <2>1. 1 \notin Pending(q)
    BY <1>1, <1>7 DEF Pending
  <2>2. \A i \in Pending(r) : r[i].seq \in a + 1 .. last
    BY <1>2, <1>4
  <2>3. ASSUME NEW k \in a + 1 .. last PROVE \E i \in Pending(r) : r[i].seq = k
    <3>1. PICK i \in Pending(q) : q[i].seq = k
      BY <1>4
    <3>2. i - 1 \in Pending(r) /\ r[i - 1] = q[i]
      BY <1>3, <2>1, <3>1
    <3> QED BY <3>1, <3>2
  <2> QED BY <1>4, <1>5, <2>2, <2>3 DEF Linked
<1> QED BY <1>2, <1>6, <1>7 DEF r

-----------------------------------------------------------------------------
(* The simulator's part of a step *)

\* Every step of the pipeline is one of the simulator's loop, or leaves it alone.
LEMMA SimOrRest ==
  ASSUME [FeedNext]_feedVars
  PROVE  /\ [SimNext]_simVars
         /\ ~SimStep => UNCHANGED <<book, seqno, books>>
<1>1. CASE Poll \/ PollAtBound
  BY <1>1 DEF Poll, PollAtBound, BeginTurn, SimNext, simVars
<1>2. CASE SimStep
  BY <1>2 DEF SimStep, SimNext
<1>3. CASE SimDies
  BY <1>3 DEF SimDies, Die, SimNext
<1>4. CASE Subscriber
  BY <1>4 DEF Subscriber, Drain, Ask, ReceiveL2Snap, ReceiveL1Snap, GiveUp, Message, StaleDelta,
              NextDelta, Gap, QuoteMessage, simVars
<1>5. CASE StopSub \/ Consume \/ StopConsumer \/ RaiseStop
  BY <1>5 DEF StopSub, Consume, StopConsumer, RaiseStop, simVars
<1>6. CASE UNCHANGED feedVars
  BY <1>6 DEF feedVars, simVars
<1> QED BY <1>1, <1>2, <1>3, <1>4, <1>5, <1>6 DEF FeedNext, Simulator

\* A turn of the simulator adds at most one book to the history, and what it
\* publishes is the truth about it.
LEMMA SimStepTrue ==
  ASSUME FeedInv, SimInv', SimStep
  PROVE  /\ BooksOK' /\ Extends(books, books')
         /\ sent' = <<>> \/ \E m \in Msg : sent' = <<m>> /\ Truthful(books', m)
<1>1. /\ seqno \in Nat /\ book \in BookType /\ book' \in BookType /\ BookUncrossed(book')
      /\ seqno \in Nat \ {0} /\ seqno \in DOMAIN books /\ books[seqno] = book
      /\ \A n \in DOMAIN books : n \in Nat \ {0} /\ n <= seqno
  BY DEF FeedInv, SimInv, SimTypeOK, SimUncrossed, BooksOK, BookType, BookUncrossed
<1>2. ASSUME NEW s \in Side, NEW aim \in Aims, NEW q \in Level, Edit(s, aim, q)
      PROVE  \E m \in L2Msg : /\ sent' = <<m>> /\ m.seq = seqno + 1 /\ seqno' = seqno + 1
                              /\ book' = Upsert(book, m.side, m.px, m.qty)
  <2> DEFINE px == Clamp(s, aim)
             m == [kind |-> "L2", side |-> s, px |-> px, qty |-> q, seq |-> seqno + 1]
  <2>1. px \in Tick /\ seqno' = seqno + 1 /\ book' = Upsert(book, s, px, q) /\ sent' = <<m>>
    BY <1>2 DEF Edit, L2Delta
  <2>2. m \in L2Msg
    BY <1>1, <2>1 DEF L2Msg
  <2> HIDE DEF px
  <2> QED BY <2>1, <2>2
<1>3. CASE seqno' = seqno + 1 /\ \E m \in L2Msg : /\ sent' = <<m>> /\ m.seq = seqno + 1
                                                 /\ book' = Upsert(book, m.side, m.px, m.qty)
  <2>1. PICK m \in L2Msg : /\ sent' = <<m>> /\ m.seq = seqno + 1
                           /\ book' = Upsert(book, m.side, m.px, m.qty)
    BY <1>3
  <2>2. books' = [n \in DOMAIN books \cup {seqno'} |-> IF n = seqno' THEN book' ELSE books[n]]
    BY <1>1, <1>3 DEF SimStep, Record
  <2>3. /\ DOMAIN books' = DOMAIN books \cup {seqno + 1} /\ books'[seqno + 1] = book'
        /\ \A n \in DOMAIN books : n # seqno + 1 /\ books'[n] = books[n]
    BY <1>1, <1>3, <2>2
  <2>4. Extends(books, books')
    BY <2>3 DEF Extends
  <2>5. BooksOK'
    <3>1. \A n \in DOMAIN books' :
            n \in Nat \ {0} /\ n <= seqno + 1 /\ books'[n] \in BookType /\ BookUncrossed(books'[n])
      BY <1>1, <2>3 DEF FeedInv, BooksOK
    <3> QED BY <3>1, <2>3, <1>3 DEF BooksOK
  <2>6. Truthful(books', m)
    <3>1. m.kind = "L2" /\ m.seq - 1 = seqno
      BY <2>1, <1>1 DEF L2Msg
    <3> QED BY <3>1, <2>1, <2>3, <1>1 DEF Truthful
  <2> QED BY <2>1, <2>4, <2>5, <2>6 DEF Msg
<1>4. CASE seqno' = seqno /\ book' = book
           /\ (sent' = <<>> \/ sent' = <<L1Quote(Top(book), seqno)>>)
  <2>1. books' = books
    BY <1>4 DEF SimStep, Record
  <2>2. BooksOK' /\ Extends(books, books')
    BY <1>4, <2>1 DEF FeedInv, BooksOK, Extends
  <2>3. L1Quote(Top(book), seqno) \in Msg /\ Truthful(books, L1Quote(Top(book), seqno))
    BY <1>1 DEF L1Quote, Msg, L1Msg, Truthful
  <2> QED BY <1>4, <2>1, <2>2, <2>3
<1>5. ASSUME Repair
      PROVE  seqno' = seqno /\ book' = book /\ sent' = <<>>
  BY <1>5, UncrossedNotCrossed DEF Repair, FeedInv
<1>6. ASSUME Quote
      PROVE  /\ seqno' = seqno /\ book' = book
             /\ sent' = <<>> \/ sent' = <<L1Quote(Top(book), seqno)>>
  BY <1>6 DEF Quote
<1> QED BY <1>2, <1>3, <1>4, <1>5, <1>6 DEF SimStep, SimWork

\* The history stays sound and is only added to.
LEMMA HistoryGrows ==
  ASSUME FeedInv, SimInv', [FeedNext]_feedVars
  PROVE  BooksOK' /\ Extends(books, books')
<1>1. CASE SimStep
  BY <1>1, SimStepTrue
<1>2. CASE ~SimStep
  BY <1>2, SimOrRest DEF FeedInv, BooksOK, Extends
<1> QED BY <1>1, <1>2

-----------------------------------------------------------------------------
(* The links *)

LEMMA WireStaysTrue ==
  ASSUME FeedInv, SimInv', [FeedNext]_feedVars
  PROVE  AllTruthful(books', wire')
<1>1. AllTruthful(books', wire)
  BY HistoryGrows, AllTruthStays DEF FeedInv, LinksTruthful
<1>2. CASE SimStep
  <2>1. CASE wire' = wire
    BY <2>1, <1>1
  <2>2. CASE sent' # <<>> /\ wire' = Append(wire, sent'[1])
    <3>1. PICK m \in Msg : sent' = <<m>> /\ Truthful(books', m)
      BY <2>2, <1>2, SimStepTrue
    <3> QED BY <3>1, <2>2, <1>1, SentStaysTrue
  <2> QED BY <2>1, <2>2, <1>2 DEF SimStep, Deliver
<1>3. CASE Drain
  BY <1>3, NothingIsTrue DEF Drain
<1>4. CASE Message
  BY <1>4, <1>1, ReceivedIsTrue DEF Message
<1>5. CASE wire' = wire
  BY <1>5, <1>1
<1>6. wire' = wire \/ SimStep \/ Drain \/ Message
  <2>1. CASE Subscriber
    BY <2>1 DEF Subscriber, Ask, ReceiveL2Snap, ReceiveL1Snap, GiveUp, StaleDelta, NextDelta, Gap,
                QuoteMessage, linkVars
  <2>2. CASE ~Subscriber
    BY <2>2 DEF FeedNext, Simulator, Poll, PollAtBound, SimDies, StopSub, Consume, StopConsumer,
                RaiseStop, linkVars, feedVars
  <2> QED BY <2>1, <2>2
<1> QED BY <1>2, <1>3, <1>4, <1>5, <1>6

\* What a message at the front of the wire says is true, and stays so.
LEMMA FrontIsTrue ==
  ASSUME FeedInv, SimInv', [FeedNext]_feedVars, wire # <<>>
  PROVE  Head(wire) \in Msg /\ Truthful(books', Head(wire))
<1>1. AllTruthful(books', wire)
  BY HistoryGrows, AllTruthStays DEF FeedInv, LinksTruthful
<1> QED BY <1>1, ReceivedIsTrue

\* Who changes the MDRing, and how.
LEMMA RingChanges ==
  ASSUME [FeedNext]_feedVars
  PROVE  \/ mdRing' = mdRing
         \/ NextDelta /\ mdRing' = Append(mdRing, Head(wire))
         \/ QuoteMessage /\ mdRing' = Append(mdRing, Head(wire))
         \/ Consume /\ mdRing # <<>> /\ mdRing' = Tail(mdRing)
<1>1. CASE Subscriber
  BY <1>1 DEF Subscriber, Drain, Ask, ReceiveL2Snap, ReceiveL1Snap, GiveUp, StaleDelta, NextDelta,
              Gap, QuoteMessage, PushRing, ringVars
<1>2. CASE Consume
  BY <1>2 DEF Consume
<1>3. CASE ~Subscriber /\ ~Consume
  BY <1>3 DEF FeedNext, Simulator, Poll, PollAtBound, SimStep, SimDies, StopSub, StopConsumer,
              RaiseStop, ringVars, feedVars
<1> QED BY <1>1, <1>2, <1>3

LEMMA RingStaysTrue ==
  ASSUME FeedInv, SimInv', [FeedNext]_feedVars
  PROVE  AllTruthful(books', mdRing')
<1>1. AllTruthful(books', mdRing)
  BY HistoryGrows, AllTruthStays DEF FeedInv, LinksTruthful
<1>2. CASE (NextDelta \/ QuoteMessage) /\ mdRing' = Append(mdRing, Head(wire))
  <2>1. wire # <<>>
    BY <1>2 DEF NextDelta, QuoteMessage, Message
  <2> QED BY <2>1, <1>1, <1>2, FrontIsTrue, SentStaysTrue
<1>3. CASE mdRing # <<>> /\ mdRing' = Tail(mdRing)
  BY <1>1, <1>3, ReceivedIsTrue
<1> QED BY <1>1, <1>2, <1>3, RingChanges

LEMMA TopLevelsWithin ==
  ASSUME NEW b \in BookType, NEW depth
  PROVE  TopLevels(b, depth) \in BookType /\ Within(TopLevels(b, depth), b)
<1>1. \A s \in Side, p \in Tick :
        b[s][p] \in Level /\ TopLevels(b, depth)[s][p] \in {0, b[s][p]}
  BY DEF BookType, TopLevels
<1>2. 0 \in Level
  BY SimAssumption DEF Level
<1> DEFINE C(s, p) == Cardinality({r \in Levels(b, s) : r # p /\ AtLeastAsGood(s, r, p)}) < depth
<1>3. TopLevels(b, depth) = [s \in Side |-> [p \in Tick |-> IF C(s, p) THEN b[s][p] ELSE 0]]
  BY DEF TopLevels
<1> HIDE DEF C
<1>4. TopLevels(b, depth) \in BookType
  BY <1>1, <1>2, <1>3 DEF BookType
<1> QED BY <1>1, <1>4 DEF Within

LEMMA ReplyStaysTrue ==
  ASSUME FeedInv, SimInv', [FeedNext]_feedVars
  PROVE  ReplyTruthful'
<1>1. CASE reply' = reply
  <2>1. Extends(books, books')
    BY HistoryGrows
  <2> QED BY <2>1, <1>1 DEF FeedInv, ReplyTruthful, Extends
<1>2. CASE reply' = NoReply
  BY <1>2 DEF NoReply, ReplyTruthful
<1>3. CASE (Poll \/ PollAtBound) /\ \E kind : reply' = Answer(kind)
  <2>1. books' = books
    BY <1>3 DEF Poll, PollAtBound
  <2>2. seqno \in DOMAIN books /\ books[seqno] = book /\ book \in BookType
    BY DEF FeedInv, BooksOK
  <2>3. TopLevels(book, Depth) \in BookType /\ Within(TopLevels(book, Depth), book)
    BY <2>2, TopLevelsWithin
  <2> QED BY <1>3, <2>1, <2>2, <2>3 DEF Answer, ReplyTruthful
<1>4. \/ reply' = reply \/ reply' = NoReply
      \/ (Poll \/ PollAtBound) /\ \E kind : reply' = Answer(kind)
  <2>1. CASE Subscriber
    BY <2>1 DEF Subscriber, Drain, Ask, ReceiveL2Snap, ReceiveL1Snap, GiveUp, Message, StaleDelta,
                NextDelta, Gap, QuoteMessage, linkVars
  <2>2. CASE ~Subscriber
    BY <2>2 DEF FeedNext, Simulator, Poll, PollAtBound, SimStep, SimDies, StopSub, Consume,
                StopConsumer, RaiseStop, linkVars, feedVars
  <2> QED BY <2>1, <2>2
<1> QED BY <1>1, <1>2, <1>3, <1>4

-----------------------------------------------------------------------------
(* The LocalBook of the subscriber *)

LEMMA LocalBookStays ==
  ASSUME FeedInv, SimInv', [FeedNext]_feedVars
  PROVE  lastL2' \in Nat /\ Tracks(books', local', lastL2')
<1>1. lastL2 \in Nat /\ Tracks(books', local, lastL2)
  BY HistoryGrows, TracksStays DEF FeedInv, LocalOK
<1>2. CASE ReceiveL2Snap
  <2>1. /\ reply.kind = "L2" /\ local' = reply.levels /\ lastL2' = reply.seq /\ books' = books
    BY <1>2 DEF ReceiveL2Snap, SnapSeq
  <2>2. /\ reply.seq \in DOMAIN books /\ reply.levels \in BookType
        /\ Within(reply.levels, books[reply.seq]) /\ reply.seq \in Nat \ {0}
    BY <2>1 DEF FeedInv, ReplyTruthful, BooksOK
  <2> QED BY <2>1, <2>2 DEF Tracks
<1>3. CASE NextDelta
  <2> DEFINE d == Head(wire)
  <2>1. /\ wire # <<>> /\ d.kind = "L2" /\ d.seq = lastL2 + 1 /\ books' = books
        /\ local' = Upsert(local, d.side, d.px, d.qty) /\ lastL2' = d.seq
    BY <1>3 DEF NextDelta, Message, IsNext
  <2>2. d \in Msg /\ Truthful(books', d)
    BY <2>1, FrontIsTrue
  <2> HIDE DEF d
  <2>3. d \in L2Msg /\ d.seq \in Nat /\ d.seq # 0 /\ lastL2 = d.seq - 1
    BY <1>1, <2>1, <2>2, Kinds
  <2>4. books'[d.seq] \in BookType /\ (lastL2 \in DOMAIN books' => books'[lastL2] \in BookType)
    BY <2>1, <2>2 DEF Truthful, FeedInv, BooksOK
  <2> QED BY <1>1, <2>1, <2>2, <2>3, <2>4, DeltaTracks
<1>4. CASE local' = local /\ lastL2' = lastL2
  BY <1>1, <1>4
<1>5. ReceiveL2Snap \/ NextDelta \/ (local' = local /\ lastL2' = lastL2)
  <2>1. CASE Subscriber
    BY <2>1 DEF Subscriber, Drain, Ask, ReceiveL1Snap, GiveUp, StaleDelta, Gap, QuoteMessage, localVars
  <2>2. CASE ~Subscriber
    BY <2>2 DEF FeedNext, Simulator, Poll, PollAtBound, SimStep, SimDies, StopSub, Consume,
                StopConsumer, RaiseStop, localVars, feedVars
  <2> QED BY <2>1, <2>2
<1> QED BY <1>2, <1>3, <1>4, <1>5

LEMMA QuoteStays ==
  ASSUME FeedInv, SimInv', [FeedNext]_feedVars
  PROVE  /\ lastL1' \in Nat
         /\ lastL1' # 0 => lastL1' \in DOMAIN books' /\ localTop' = Top(books'[lastL1'])
<1>1. /\ lastL1 \in Nat /\ Extends(books, books')
      /\ lastL1 # 0 => lastL1 \in DOMAIN books /\ localTop = Top(books[lastL1])
  BY HistoryGrows DEF FeedInv, LocalOK
<1>2. CASE localTop' = localTop /\ lastL1' = lastL1
  BY <1>1, <1>2 DEF Extends
<1>3. ASSUME NEW top, NEW seq \in Nat, seq \in DOMAIN books', top = Top(books'[seq]),
             ApplyL1(top, seq)
      PROVE  /\ lastL1' \in Nat
             /\ lastL1' # 0 => lastL1' \in DOMAIN books' /\ localTop' = Top(books'[lastL1'])
  BY <1>1, <1>3 DEF ApplyL1, Extends
<1>4. CASE ReceiveL1Snap
  <2>1. reply.kind = "L1" /\ ApplyL1(reply.top, reply.seq) /\ books' = books
    BY <1>4 DEF ReceiveL1Snap
  <2>2. /\ reply.seq \in DOMAIN books /\ reply.top = Top(books[reply.seq]) /\ reply.seq \in Nat
    BY <2>1 DEF FeedInv, ReplyTruthful, BooksOK
  <2> QED BY <2>1, <2>2, <1>3
<1>5. CASE QuoteMessage
  <2>1. /\ wire # <<>> /\ Head(wire).kind = "L1" /\ ApplyL1(Head(wire).top, Head(wire).seq)
    BY <1>5 DEF QuoteMessage, Message
  <2>2. Head(wire).seq \in Nat /\ Truthful(books', Head(wire))
    BY <2>1, FrontIsTrue, Kinds
  <2> QED BY <2>1, <2>2, <1>3 DEF Truthful
<1>6. ReceiveL1Snap \/ QuoteMessage \/ (localTop' = localTop /\ lastL1' = lastL1)
  <2>1. CASE Subscriber
    BY <2>1 DEF Subscriber, Drain, Ask, ReceiveL2Snap, GiveUp, StaleDelta, NextDelta, Gap, localVars
  <2>2. CASE ~Subscriber
    BY <2>2 DEF FeedNext, Simulator, Poll, PollAtBound, SimStep, SimDies, StopSub, Consume,
                StopConsumer, RaiseStop, localVars, feedVars
  <2> QED BY <2>1, <2>2
<1> QED BY <1>2, <1>4, <1>5, <1>6

-----------------------------------------------------------------------------
(* The OrderBook of the consumer, until a delta is lost *)

\* A part of an uncrossed book is not crossed.
LEMMA PartNotCrossed ==
  ASSUME NEW b \in BookType, NEW c \in BookType, Within(b, c), BookUncrossed(c)
  PROVE  ~Crossed(b)
<1> SUFFICES ASSUME Crossed(b) PROVE FALSE
  OBVIOUS
<1>1. /\ Best(b, "Bid") \in Levels(b, "Bid") /\ Best(b, "Ask") \in Levels(b, "Ask")
      /\ Best(b, "Bid") >= Best(b, "Ask")
  BY BestIsBest DEF Crossed, Side
<1>2. ASSUME NEW s \in Side, NEW p \in Levels(b, s) PROVE p \in Levels(c, s) /\ p \in Int
  <2>1. p \in Tick /\ b[s][p] > 0 /\ b[s][p] \in Level
    BY DEF Levels, BookType
  <2>2. b[s][p] # 0
    BY <2>1, SimAssumption DEF Level
  <2>3. c[s][p] = b[s][p]
    BY <2>1, <2>2 DEF Within
  <2> QED BY <2>1, <2>3, SimAssumption DEF Levels, Tick
<1>3. Best(b, "Bid") \in Levels(c, "Bid") /\ Best(b, "Ask") \in Levels(c, "Ask")
  BY <1>1, <1>2 DEF Side
<1>4. Best(b, "Bid") < Best(b, "Ask") /\ Best(b, "Bid") \in Int /\ Best(b, "Ask") \in Int
  BY <1>1, <1>2, <1>3 DEF BookUncrossed, Side
<1> QED BY <1>1, <1>4

\* Applying a delta a second time does nothing.
LEMMA Idempotent ==
  ASSUME NEW b \in BookType, NEW m \in L2Msg
  PROVE  Applied(Applied(b, m), m) = Upsert(b, m.side, m.px, m.qty)
BY DEF Applied, Upsert, BookType, L2Msg

LEMMA ConsumeKeeps ==
  ASSUME FeedInv, ConsumerOK, Consume
  PROVE  ConsumerOK'
<1> DEFINE m == Head(mdRing)
<1>1. /\ mdRing # <<>> /\ mdRing' = Tail(mdRing)
      /\ UNCHANGED <<books, lastL2, subPc>>
      /\ mdRing \in Seq(Msg) /\ lastL2 \in Nat
  BY DEF Consume, localVars, subVars, FeedInv, LinksTruthful, AllTruthful, LocalOK
<1>2. m \in Msg /\ Truthful(books, m)
  BY <1>1, ReceivedIsTrue DEF FeedInv, LinksTruthful
<1>3. /\ m.kind = "L2" => Linked(mdRing', lastL2, m.seq) /\ (obSeq = 0 \/ obSeq = m.seq - 1)
      /\ m.kind = "L1" => Linked(mdRing', lastL2, obSeq)
      /\ Pending(mdRing) = {} => Pending(mdRing') = {}
  BY <1>1, LinkedPop DEF ConsumerOK
<1>4. m.kind = "L2" => Pending(mdRing) # {}
  <2>1. mdRing[1] = m /\ 1 \in 1 .. Len(mdRing)
    BY <1>1, EmptySeq
  <2> QED BY <2>1 DEF Pending
<1>5. CASE m.kind = "L1"
  <2>1. UNCHANGED <<ob, invariantsFail, obSeq>>
    BY <1>5 DEF Consume
  <2> QED BY <2>1, <1>1, <1>3, <1>5 DEF ConsumerOK
<1>6. CASE m.kind = "L2"
  <2> DEFINE twice == Applied(Applied(ob, m), m)
  <2>1. /\ ob' = twice /\ obSeq' = m.seq
        /\ invariantsFail' = (invariantsFail \/ ~Validate(twice))
    BY <1>6 DEF Consume
  <2>2. m \in L2Msg /\ m.seq \in Nat /\ m.seq \in DOMAIN books
    BY <1>2, <1>6, Kinds DEF Truthful
  <2>3. /\ m.seq # 0 /\ books[m.seq] \in BookType /\ BookUncrossed(books[m.seq])
        /\ obSeq \in DOMAIN books => books[obSeq] \in BookType
    BY <2>2 DEF FeedInv, BooksOK
  <2> HIDE DEF m
  <2>4. ob \in BookType
    BY DEF ConsumerOK, Tracks
  <2>5. twice = Upsert(ob, m.side, m.px, m.qty)
    BY <2>2, <2>4, Idempotent
  <2> HIDE DEF twice
  <2>6. Tracks(books, twice, m.seq)
    BY <1>2, <1>3, <1>6, <2>2, <2>3, <2>5, DeltaTracks DEF ConsumerOK
  <2>7. Validate(twice)
    BY <2>3, <2>6, PartNotCrossed DEF Tracks, Validate
  <2>8. ~(subPc \in {"drain", "askL2", "waitL2"})
    BY <1>4, <1>6 DEF ConsumerOK
  <2>9. ~invariantsFail'
    BY <2>1, <2>7, Zenon DEF ConsumerOK
  <2> QED BY <1>1, <1>3, <1>6, <2>1, <2>2, <2>6, <2>8, <2>9 DEF ConsumerOK
<1> QED BY <1>2, <1>5, <1>6, Kinds

\* Nothing but a lost delta ends the consumer's agreement with the simulator.
LEMMA ConsumerStays ==
  ASSUME FeedInv, SimInv', [FeedNext]_feedVars, missed' = {}
  PROVE  ConsumerOK'
<1>1. missed = {}
  BY DEF FeedNext, Simulator, Poll, PollAtBound, SimStep, SimDies, Subscriber, Drain, Ask, ReceiveL2Snap,
         ReceiveL1Snap, GiveUp, StaleDelta, NextDelta, Gap, QuoteMessage, StopSub, Consume,
         StopConsumer, RaiseStop, feedVars
<1>2. /\ ConsumerOK /\ lastL2 \in Nat /\ mdRing \in Seq(Msg) /\ Extends(books, books')
      /\ Tracks(books', ob, obSeq)
  BY <1>1, HistoryGrows, TracksStays
     DEF FeedInv, LocalOK, LinksTruthful, AllTruthful, ConsumerOK
<1>3. CASE Consume
  BY <1>2, <1>3, ConsumeKeeps
<1>4. CASE NextDelta
  <2>1. /\ wire # <<>> /\ Head(wire).kind = "L2" /\ Head(wire).seq = lastL2 + 1
        /\ lastL2' = Head(wire).seq /\ subPc = "recv"
        /\ UNCHANGED <<subPc, ob, obSeq, invariantsFail>>
        /\ mdRing' = Append(mdRing, Head(wire))
    BY <1>4 DEF NextDelta, Message, IsNext, PushRing, consumerVars
  <2>2. Head(wire) \in L2Msg
    BY <2>1, FrontIsTrue, Kinds
  <2>3. Linked(mdRing', lastL2 + 1, obSeq)
    BY <1>2, <2>1, <2>2, LinkedPush DEF ConsumerOK
  <2> QED BY <1>2, <2>1, <2>3 DEF ConsumerOK
<1>5. CASE QuoteMessage
  <2>1. /\ wire # <<>> /\ Head(wire).kind = "L1"
        /\ UNCHANGED <<subPc, lastL2, ob, obSeq, invariantsFail>>
        /\ mdRing' = mdRing \/ mdRing' = Append(mdRing, Head(wire))
    BY <1>5 DEF QuoteMessage, Message, PushRing, consumerVars
  <2>2. Head(wire) \in L1Msg
    BY <2>1, FrontIsTrue, Kinds
  <2>3. Linked(mdRing, lastL2, obSeq) /\ mdRing \in Seq(Msg)
    BY <1>2 DEF ConsumerOK
  <2>4. Linked(mdRing', lastL2, obSeq) /\ Pending(mdRing') = Pending(mdRing)
    <3>1. CASE mdRing' = mdRing
      BY <3>1, <2>3
    <3>2. CASE mdRing' = Append(mdRing, Head(wire))
      BY <3>2, <2>2, <2>3, LinkedQuote
    <3> QED BY <2>1, <3>1, <3>2
  <2> QED BY <1>2, <2>1, <2>4 DEF ConsumerOK
<1>6. CASE ReceiveL2Snap
  <2>1. /\ subPc = "waitL2" /\ subPc' = "askL1"
        /\ UNCHANGED <<mdRing, ob, obSeq, invariantsFail>>
    BY <1>6 DEF ReceiveL2Snap, ringVars, consumerVars
  <2>2. lastL2' \in Nat
    BY LocalBookStays
  <2>3. Pending(mdRing) = {} /\ obSeq = 0
    BY <1>2, <2>1 DEF ConsumerOK
  <2>4. Linked(mdRing, lastL2', obSeq)
    BY <2>2, <2>3, NothingLinked
  <2> QED BY <1>2, <2>1, <2>4 DEF ConsumerOK
<1>7. CASE ~(Consume \/ NextDelta \/ QuoteMessage \/ ReceiveL2Snap)
  <2>1. /\ UNCHANGED <<mdRing, lastL2, ob, obSeq, invariantsFail>>
        /\ subPc' \in {"drain", "askL2", "waitL2"} => subPc \in {"drain", "askL2", "waitL2"}
    <3>1. CASE Subscriber
      <4>1. ~Gap
        BY DEF Gap
      <4>2. CASE Drain \/ Ask("L2", "askL2", "waitL2") \/ Ask("L1", "askL1", "waitL1")
        BY <4>2 DEF Drain, Ask, localVars, ringVars, consumerVars
      <4>3. CASE ReceiveL1Snap \/ GiveUp \/ StaleDelta
        BY <4>3 DEF ReceiveL1Snap, GiveUp, StaleDelta, Message, localVars, ringVars, consumerVars
      <4> QED BY <3>1, <1>7, <4>1, <4>2, <4>3 DEF Subscriber
    <3>2. CASE ~Subscriber
      BY <3>2, <1>7 DEF FeedNext, Simulator, Poll, PollAtBound, SimStep, SimDies, StopSub,
              StopConsumer, RaiseStop, subVars, localVars, ringVars, consumerVars, feedVars
    <3> QED BY <3>1, <3>2
  <2> QED BY <1>2, <2>1 DEF ConsumerOK
<1> QED BY <1>3, <1>4, <1>5, <1>6, <1>7

-----------------------------------------------------------------------------
(* The invariants of the runs *)

LEMMA FeedInitKeeps == FeedInit => FeedInv
<1> SUFFICES ASSUME FeedInit PROVE FeedInv
  OBVIOUS
<1>1. SimInv
  BY SimInitKeeps DEF FeedInit
<1>2. seqno = 2 * Seeded /\ seqno \in Nat \ {0}
  BY SimAssumption DEF FeedInit, SimInit
<1>3. BooksOK
  <2>1. book \in BookType /\ BookUncrossed(book)
    BY <1>1 DEF SimInv, SimTypeOK, SimUncrossed, BookType, BookUncrossed
  <2> QED BY <2>1, <1>2 DEF FeedInit, BooksOK
<1>4. LinksTruthful /\ ReplyTruthful
  BY NothingIsTrue DEF FeedInit, LinksTruthful, ReplyTruthful, NoReply
<1>5. EmptyBook \in BookType
  BY SimAssumption DEF EmptyBook, BookType, Level
<1>6. LocalOK
  BY <1>5 DEF FeedInit, LocalOK, Tracks
<1>7. ConsumerOK
  <2>1. Pending(mdRing) = {}
    <3>1. Len(mdRing) = 0
      BY EmptySeq DEF FeedInit
    <3> QED BY <3>1 DEF Pending
  <2>2. Linked(mdRing, 0, 0)
    BY <2>1, NothingLinked
  <2> QED BY <1>5, <2>1, <2>2 DEF FeedInit, ConsumerOK, Tracks
<1> QED BY <1>1, <1>3, <1>4, <1>6, <1>7 DEF FeedInit, FeedInv

LEMMA FeedStepKeeps == ASSUME FeedInv, [FeedNext]_feedVars PROVE FeedInv'
<1>1. SimInv'
  BY SimOrRest, SimStepKeeps DEF FeedInv
<1>2. BooksOK' /\ LinksTruthful' /\ ReplyTruthful'
  BY <1>1, HistoryGrows, WireStaysTrue, RingStaysTrue, ReplyStaysTrue DEF LinksTruthful
<1>3. LocalOK'
  BY <1>1, LocalBookStays, QuoteStays DEF LocalOK
<1>4. missed' = {} => ConsumerOK'
  BY <1>1, ConsumerStays
<1> QED BY <1>1, <1>2, <1>3, <1>4 DEF FeedInv

\* The inductive invariant holds in every reachable state of the pipeline.
THEOREM FeedInvariance == FeedSpec => []FeedInv
<1> QED BY FeedInitKeeps, FeedStepKeeps, PTL DEF FeedSpec

\* In the pipeline, too, the simulator's book is never crossed.
THEOREM FeedNeverCrossed == FeedSpec => [](SimTypeOK /\ SimUncrossed)
<1>1. FeedInv => SimTypeOK /\ SimUncrossed
  BY DEF FeedInv, SimInv
<1> QED BY <1>1, FeedInvariance, PTL

\* What the subscriber holds is part of the simulator's book at the number it
\* claims, whatever was lost and however many snapshots were half taken.
THEOREM LocalBookIsSims == FeedSpec => []LocalWithinSim
<1>1. FeedInv => LocalWithinSim
  BY DEF FeedInv, LocalOK, Tracks, LocalWithinSim
<1> QED BY <1>1, FeedInvariance, PTL

\* The quote the subscriber holds is the simulator's top at the number it claims.
THEOREM QuoteTellsTop == FeedSpec => []QuoteIsSims
<1>1. FeedInv => QuoteIsSims
  BY DEF FeedInv, LocalOK, QuoteIsSims
<1> QED BY <1>1, FeedInvariance, PTL

\* Until a delta is lost on the way, what the consumer holds is part of the
\* simulator's book at the last delta it applied.
THEOREM ConsumerBookIsSims == FeedSpec => []BookWithinSim
<1>1. FeedInv => BookWithinSim
  BY DEF FeedInv, ConsumerOK, Tracks, BookWithinSim
<1> QED BY <1>1, FeedInvariance, PTL

\* invariants_fail counts nothing until a delta is lost on the way.
THEOREM NoAlarmWithoutLoss == FeedSpec => []HealthyUntilLoss
<1>1. FeedInv => HealthyUntilLoss
  BY DEF FeedInv, ConsumerOK, HealthyUntilLoss
<1> QED BY <1>1, FeedInvariance, PTL
=============================================================================
