-------------------------- MODULE EngineBook_proofs --------------------------
(***************************************************************************)
(* The safety invariants of EngineBook, proved for every set of ids,       *)
(* prices, orders and quantities.  IInv is inductive; TakerSound is what   *)
(* the invariants of the book need to know of the handler's local.         *)
(***************************************************************************)
EXTENDS EngineBook, SequenceTheorems, WellFoundedInduction, TLAPS

\* An order with this id is in the deque.
Holds(q, id) == \E i \in DOMAIN q : q[i].ord.order_id = id

\* What a node resting on side s at price p must be.
SoundNode(n, s, p) ==
  /\ n.ord.side = s /\ n.ord.price = p
  /\ ~IsMarket(n.ord)
  /\ n.leaves \in 1 .. n.ord.qty

TakerSound == pc = "match" => taker.leaves <= taker.ord.qty

IInv == TypeOK /\ Uncrossed /\ NoPhantomLevel /\ LocFindsLevel /\ RestingSound /\ TakerSound

-----------------------------------------------------------------------------
(* Prices *)

\* A nonempty set of prices has a least and a greatest element.
LEMMA PricesHaveExtremes ==
  ASSUME NEW T, T \subseteq PriceTicks, T # {}
  PROVE  /\ \E p \in T : \A r \in T : p <= r
         /\ \E p \in T : \A r \in T : p >= r
<1>1. PriceTicks \subseteq Nat
  BY ConstantsAssumption DEF PriceTicks
<1>2. \E p \in T : \A r \in T : p <= r
  <2>1. PICK p \in T : \A r \in T : <<r, p>> \notin OpToRel(<, Nat)
    BY <1>1, NatLessThanWellFounded, WFMin
  <2>2. \A r \in T : ~(r < p)
    BY <2>1, <1>1 DEF OpToRel
  <2> QED BY <2>2, <1>1
<1>3. \E p \in T : \A r \in T : p >= r
  <2> DEFINE U == {MaxPx - p : p \in T}
  <2>1. U \subseteq Nat /\ U # {}
    <3>1. \A p \in T : MaxPx - p \in Nat
      BY ConstantsAssumption DEF PriceTicks
    <3> QED BY <3>1
  <2>2. PICK u \in U : \A v \in U : <<v, u>> \notin OpToRel(<, Nat)
    BY <2>1, NatLessThanWellFounded, WFMin
  <2>3. \A v \in U : u <= v
    <3> HIDE DEF U
    <3>1. \A v \in U : ~(v < u)
      BY <2>1, <2>2 DEF OpToRel
    <3> QED BY <2>1, <3>1
  <2>4. PICK p \in T : u = MaxPx - p
    OBVIOUS
  <2>5. ASSUME NEW r \in T PROVE p >= r
    <3>1. u <= MaxPx - r
      BY <2>3
    <3> QED BY <3>1, <2>4, <1>1, ConstantsAssumption
  <2> QED BY <2>5
<1> QED BY <1>2, <1>3

\* begin() of a map that is not empty is its best price.
LEMMA BestIsBest ==
  ASSUME NEW s \in Side, levels[s] \subseteq PriceTicks, levels[s] # {}
  PROVE  Best(s) \in levels[s] /\ \A r \in levels[s] : AtLeastAsGood(s, Best(s), r)
<1>1. \E p \in levels[s] : \A r \in levels[s] : AtLeastAsGood(s, p, r)
  BY PricesHaveExtremes DEF AtLeastAsGood
<1> QED BY <1>1 DEF Best
-----------------------------------------------------------------------------
(* Deques *)

\* Dropping the front of a deque (pop_front) loses that element and no other.
LEMMA TailKeeps ==
  ASSUME NEW q \in Seq(Node), q # <<>>
  PROVE  /\ Tail(q) \in Seq(Node)
         /\ \A j \in DOMAIN Tail(q) : \E k \in DOMAIN q : Tail(q)[j] = q[k]
         /\ \A k \in DOMAIN q : k # 1 => \E j \in DOMAIN Tail(q) : Tail(q)[j] = q[k]
<1>1. /\ Tail(q) \in Seq(Node) /\ Len(Tail(q)) = Len(q) - 1
      /\ \A i \in 1 .. Len(Tail(q)) : Tail(q)[i] = q[i + 1]
      /\ DOMAIN Tail(q) = 1 .. Len(Tail(q)) /\ DOMAIN q = 1 .. Len(q)
      /\ Len(q) \in Nat
  BY HeadTailProperties, LenProperties
<1>2. ASSUME NEW j \in DOMAIN Tail(q) PROVE \E k \in DOMAIN q : Tail(q)[j] = q[k]
  <2>1. j + 1 \in DOMAIN q
    BY <1>1
  <2> QED BY <1>1, <2>1
<1>3. ASSUME NEW k \in DOMAIN q, k # 1 PROVE \E j \in DOMAIN Tail(q) : Tail(q)[j] = q[k]
  <2>1. k - 1 \in DOMAIN Tail(q) /\ (k - 1) + 1 = k
    BY <1>1, <1>3
  <2> QED BY <1>1, <2>1
<1> QED BY <1>1, <1>2, <1>3

\* erase_at loses the element at the index and no other.
LEMMA SwapPopKeeps ==
  ASSUME NEW q \in Seq(Node), NEW i \in DOMAIN q
  PROVE  /\ SwapPop(q, i) \in Seq(Node)
         /\ \A j \in DOMAIN SwapPop(q, i) : \E k \in DOMAIN q : SwapPop(q, i)[j] = q[k]
         /\ \A k \in DOMAIN q : k # i => \E j \in DOMAIN SwapPop(q, i) : SwapPop(q, i)[j] = q[k]
         /\ DOMAIN SwapPop(q, i) = 1 .. Len(q) - 1
         /\ \A j \in 1 .. Len(q) - 1 : SwapPop(q, i)[j] = IF j = i THEN q[Len(q)] ELSE q[j]
<1> DEFINE e == [q EXCEPT ![i] = q[Len(q)]]
           n == Len(q)
           r == SubSeq(e, 1, n - 1)
<1>1. n \in Nat /\ i \in 1 .. n /\ DOMAIN q = 1 .. n /\ n \in DOMAIN q /\ q[n] \in Node
  BY LenProperties, ElementOfSeq
<1>2. /\ e \in Seq(Node) /\ Len(e) = n
      /\ \A j \in 1 .. n : e[j] = IF j = i THEN q[n] ELSE q[j]
  BY <1>1, ExceptSeq
<1>3. \A j \in 1 .. n - 1 : e[j] \in Node
  BY <1>1, <1>2, ElementOfSeq
<1> HIDE DEF e
<1>4. /\ r \in Seq(Node) /\ Len(r) = n - 1
      /\ \A j \in 1 .. n - 1 : r[j] = e[j]
  <2>1. /\ r \in Seq(Node)
        /\ Len(r) = IF 1 <= n - 1 THEN n - 1 - 1 + 1 ELSE 0
        /\ \A j \in 1 .. (n - 1) - 1 + 1 : r[j] = e[1 + j - 1]
    BY <1>1, <1>3, SubSeqProperties
  <2>2. (n - 1) - 1 + 1 = n - 1 /\ \A j \in Int : 1 + j - 1 = j
    BY <1>1
  <2> QED BY <1>1, <2>1, <2>2
<1>5. SwapPop(q, i) = r /\ DOMAIN r = 1 .. n - 1
  BY <1>4, LenProperties DEF SwapPop, e
<1> HIDE DEF r
<1>6. ASSUME NEW j \in DOMAIN r PROVE \E k \in DOMAIN q : r[j] = q[k]
  <2>1. j \in 1 .. n - 1 /\ j \in 1 .. n
    BY <1>1, <1>5, <1>6
  <2>2. r[j] = IF j = i THEN q[n] ELSE q[j]
    BY <2>1, <1>2, <1>4
  <2>3. CASE j = i
    BY <2>2, <2>3, <1>1
  <2>4. CASE j # i
    BY <2>1, <2>2, <2>4, <1>1
  <2> QED BY <2>3, <2>4
<1>7. ASSUME NEW k \in DOMAIN q, k # i PROVE \E j \in DOMAIN r : r[j] = q[k]
  <2>1. CASE k = n
    <3>1. i \in 1 .. n - 1
      BY <1>1, <1>7, <2>1
    <3>2. r[i] = q[n]
      BY <3>1, <1>1, <1>2, <1>4
    <3> QED BY <3>1, <3>2, <2>1, <1>5
  <2>2. CASE k # n
    <3>1. k \in 1 .. n - 1
      BY <1>1, <2>2
    <3>2. r[k] = q[k]
      BY <3>1, <1>1, <1>2, <1>4, <1>7
    <3> QED BY <3>1, <3>2, <1>5
  <2> QED BY <2>1, <2>2
<1>8. \A j \in 1 .. n - 1 : r[j] = IF j = i THEN q[n] ELSE q[j]
  BY <1>1, <1>2, <1>4
<1> QED BY <1>4, <1>5, <1>6, <1>7, <1>8

-----------------------------------------------------------------------------
(* Storing a deque *)

\* Whatever sound deque is stored under a price that has one, the maps stay
\* typed, uncrossed, sound and free of empty levels.
LEMMA StoreQueueKeeps ==
  ASSUME TypeOK, Uncrossed, NoPhantomLevel, RestingSound,
         NEW s \in Side, NEW px \in PriceTicks, NEW q \in Seq(Node),
         queue[s][px] # <<>>,
         \A i \in DOMAIN q : SoundNode(q[i], s, px),
         StoreQueue(s, px, q)
  PROVE  /\ levels' \in [Side -> SUBSET PriceTicks]
         /\ queue' \in [Side -> [PriceTicks -> Seq(Node)]]
         /\ queue'[s][px] = q
         /\ \A t \in Side, p \in PriceTicks :
              (t # s \/ p # px) => queue'[t][p] = queue[t][p]
         /\ Uncrossed' /\ NoPhantomLevel' /\ RestingSound'
<1>1. levels \in [Side -> SUBSET PriceTicks] /\ queue \in [Side -> [PriceTicks -> Seq(Node)]]
  BY DEF TypeOK
<1>2. /\ queue' = [queue EXCEPT ![s][px] = q]
      /\ levels' = [levels EXCEPT ![s] = IF q = <<>> THEN levels[s] \ {px} ELSE levels[s]]
  BY DEF StoreQueue
<1>3. levels' \in [Side -> SUBSET PriceTicks] /\ \A t \in Side : levels'[t] \subseteq levels[t]
  BY <1>1, <1>2
<1>4. queue' \in [Side -> [PriceTicks -> Seq(Node)]]
  BY <1>1, <1>2
<1>5. queue'[s][px] = q
  BY <1>1, <1>2
<1>6. ASSUME NEW t \in Side, NEW p \in PriceTicks, t # s \/ p # px
      PROVE  queue'[t][p] = queue[t][p]
  BY <1>1, <1>2, <1>6
<1>7. Uncrossed'
  BY <1>3 DEF Uncrossed, Side
<1>8. NoPhantomLevel'
  <2> SUFFICES ASSUME NEW t \in Side, NEW p \in PriceTicks
               PROVE  p \in levels'[t] <=> queue'[t][p] # <<>>
    BY DEF NoPhantomLevel
  <2>1. CASE t = s /\ p = px
    BY <2>1, <1>1, <1>2, <1>5 DEF NoPhantomLevel
  <2>2. CASE t # s \/ p # px
    <3>1. p \in levels'[t] <=> p \in levels[t]
      BY <2>2, <1>1, <1>2
    <3> QED BY <3>1, <2>2, <1>6 DEF NoPhantomLevel
  <2> QED BY <2>1, <2>2
<1>9. RestingSound'
  <2> SUFFICES ASSUME NEW t \in Side, NEW p \in PriceTicks, NEW i \in DOMAIN queue'[t][p]
               PROVE  SoundNode(queue'[t][p][i], t, p)
    BY DEF RestingSound, SoundNode
  <2>1. CASE t = s /\ p = px
    BY <2>1, <1>5
  <2>2. CASE t # s \/ p # px
    BY <2>2, <1>6 DEF RestingSound, SoundNode
  <2> QED BY <2>1, <2>2
<1> QED BY <1>3, <1>4, <1>5, <1>6, <1>7, <1>8, <1>9

\* The entries of loc_ that a step leaves in place still find their level, if
\* the deque that was stored lost only ids that loc_ forgot.
LEMMA LocStillFinds ==
  ASSUME TypeOK, LocFindsLevel,
         NEW s \in Side, NEW px \in PriceTicks, NEW q,
         queue'[s][px] = q,
         \A t \in Side, p \in PriceTicks : (t # s \/ p # px) => queue'[t][p] = queue[t][p],
         \A id \in OrderId : loc'[id] # NoLoc =>
           /\ loc[id] # NoLoc
           /\ loc'[id].side = loc[id].side /\ loc'[id].px = loc[id].px
           /\ Holds(queue[s][px], id) => Holds(q, id)
  PROVE  LocFindsLevel'
<1> SUFFICES ASSUME NEW id \in OrderId, loc'[id] # NoLoc
             PROVE  Holds(queue'[loc'[id].side][loc'[id].px], id)
  BY DEF LocFindsLevel, Holds
<1>1. loc[id].side \in Side /\ loc[id].px \in PriceTicks
  BY DEF TypeOK, Loc
<1>2. Holds(queue[loc[id].side][loc[id].px], id)
  BY DEF LocFindsLevel, Holds
<1>3. CASE loc[id].side = s /\ loc[id].px = px
  BY <1>2, <1>3
<1>4. CASE loc[id].side # s \/ loc[id].px # px
  <2>1. queue'[loc'[id].side][loc'[id].px] = queue[loc[id].side][loc[id].px]
    BY <1>1, <1>4
  <2> QED BY <2>1, <1>2
<1> QED BY <1>3, <1>4

\* A deque that loc_ points into is not empty.
LEMMA LocLevelExists ==
  ASSUME TypeOK, NoPhantomLevel, LocFindsLevel, NEW id \in OrderId, loc[id] # NoLoc
  PROVE  /\ loc[id].side \in Side /\ loc[id].px \in PriceTicks /\ loc[id].idx \in Nat
         /\ queue[loc[id].side][loc[id].px] \in Seq(Node)
         /\ queue[loc[id].side][loc[id].px] # <<>>
         /\ loc[id].px \in levels[loc[id].side]
<1>1. loc[id].side \in Side /\ loc[id].px \in PriceTicks /\ loc[id].idx \in Nat
  BY DEF TypeOK, Loc
<1>2. queue[loc[id].side][loc[id].px] \in Seq(Node)
  BY <1>1 DEF TypeOK
<1>3. queue[loc[id].side][loc[id].px] # <<>>
  <2> DEFINE q == queue[loc[id].side][loc[id].px]
  <2>1. PICK i \in DOMAIN q : q[i].ord.order_id = id
    BY DEF LocFindsLevel
  <2>2. DOMAIN q = 1 .. Len(q) /\ Len(q) \in Nat
    BY <1>2, LenProperties
  <2>3. Len(<<>>) = 0
    OBVIOUS
  <2> HIDE DEF q
  <2>4. Len(q) # 0
    BY <2>1, <2>2
  <2> QED BY <2>3, <2>4 DEF q
<1> QED BY <1>1, <1>2, <1>3 DEF NoPhantomLevel

-----------------------------------------------------------------------------
(* Pulling an order out of the book: the common part of cancel and replace *)

\* erase_at and the caller's loc_.erase keep the book and loc_ sound, whatever the
\* index was: right, stale but in range, or past the end.
LEMMA PullOutKeeps ==
  ASSUME TypeOK, Uncrossed, NoPhantomLevel, LocFindsLevel, RestingSound,
         NEW id \in OrderId, loc[id] # NoLoc, PullOut(id)
  PROVE  /\ levels' \in [Side -> SUBSET PriceTicks]
         /\ queue' \in [Side -> [PriceTicks -> Seq(Node)]]
         /\ loc' \in [OrderId -> Loc \cup {NoLoc}]
         /\ Uncrossed' /\ NoPhantomLevel' /\ LocFindsLevel' /\ RestingSound'
<1> DEFINE lc == loc[id]
           s  == lc.side
           px == lc.px
           q  == queue[s][px]
           k  == lc.idx + 1
<1>1. /\ lc \in Loc /\ s \in Side /\ px \in PriceTicks /\ lc.idx \in Nat
      /\ q \in Seq(Node) /\ q # <<>> /\ px \in levels[s]
  BY LocLevelExists DEF TypeOK
<1>2. loc \in [OrderId -> Loc \cup {NoLoc}]
  BY DEF TypeOK
<1>3. EraseAt(lc) /\ loc' = [LocAfterErase(lc) EXCEPT ![id] = NoLoc]
  BY DEF PullOut
<1>4. CASE ~InRange(lc)
  <2>1. levels' = levels
    <3>1. levels' = [levels EXCEPT ![s] = levels[s] \cup {px}]
      BY <1>3, <1>4 DEF EraseAt
    <3>2. levels[s] \cup {px} = levels[s]
      BY <1>1
    <3> QED BY <3>1, <3>2 DEF TypeOK
  <2>2. queue' = queue
    BY <1>3, <1>4 DEF EraseAt
  <2>3. loc' = [loc EXCEPT ![id] = NoLoc]
    BY <1>3, <1>4 DEF LocAfterErase, Forget
  <2>4. LocFindsLevel'
    BY <2>2, <2>3, <1>2 DEF LocFindsLevel
  <2> QED
    BY <2>1, <2>2, <2>3, <2>4, <1>2 DEF TypeOK, Uncrossed, NoPhantomLevel, RestingSound
<1>5. CASE InRange(lc)
  <2> DEFINE r      == SwapPop(q, k)
             victim == q[k].ord.order_id
             moved  == q[Len(q)].ord.order_id
             w      == [loc EXCEPT ![victim] = NoLoc]
  <2>1. k \in DOMAIN q /\ Len(q) \in DOMAIN q /\ DOMAIN q = 1 .. Len(q)
    BY <1>1, <1>5, LenProperties DEF InRange
  <2>2. victim \in OrderId /\ moved \in OrderId
    <3>1. q[k] \in Node /\ q[Len(q)] \in Node
      BY <1>1, <2>1, ElementOfSeq
    <3> QED BY <3>1 DEF Node, Order
  <2>3. /\ r \in Seq(Node)
        /\ \A j \in DOMAIN r : \E i \in DOMAIN q : r[j] = q[i]
        /\ \A i \in DOMAIN q : i # k => \E j \in DOMAIN r : r[j] = q[i]
    <3> HIDE DEF q, k
    <3> QED BY <1>1, <2>1, SwapPopKeeps
  <2>4. StoreQueue(s, px, r)
    BY <1>3, <1>5 DEF EraseAt
  <2>5. \A i \in DOMAIN q : SoundNode(q[i], s, px)
    BY <1>1 DEF RestingSound, SoundNode
  <2> HIDE DEF r
  <2>6. \A i \in DOMAIN r : SoundNode(r[i], s, px)
    BY <2>3, <2>5
  <2>7. /\ levels' \in [Side -> SUBSET PriceTicks]
        /\ queue' \in [Side -> [PriceTicks -> Seq(Node)]]
        /\ queue'[s][px] = r
        /\ \A t \in Side, p \in PriceTicks :
             (t # s \/ p # px) => queue'[t][p] = queue[t][p]
        /\ Uncrossed' /\ NoPhantomLevel' /\ RestingSound'
    BY <1>1, <2>3, <2>4, <2>6, StoreQueueKeeps
  <2>8. w \in [OrderId -> Loc \cup {NoLoc}] /\ w[victim] = NoLoc
    BY <1>2, <2>2
  <2>9. \/ loc' = [w EXCEPT ![id] = NoLoc]
        \/ /\ w[moved] # NoLoc
           /\ loc' = [[w EXCEPT ![moved].idx = lc.idx] EXCEPT ![id] = NoLoc]
    BY <1>3, <1>5 DEF LocAfterErase, Forget
  <2>10. /\ loc' \in [OrderId -> Loc \cup {NoLoc}]
         /\ \A d \in OrderId : loc'[d] # NoLoc =>
              /\ loc[d] # NoLoc /\ d # victim
              /\ loc'[d].side = loc[d].side /\ loc'[d].px = loc[d].px
    <3> HIDE DEF victim, moved
    <3>1. CASE loc' = [w EXCEPT ![id] = NoLoc]
      BY <3>1, <2>8, <2>2, <1>2
    <3>2. CASE /\ w[moved] # NoLoc
               /\ loc' = [[w EXCEPT ![moved].idx = lc.idx] EXCEPT ![id] = NoLoc]
      <4>1. w[moved] \in Loc /\ moved # victim /\ w[moved] = loc[moved]
        BY <3>2, <2>8, <2>2, <1>2
      <4>2. [w[moved] EXCEPT !.idx = lc.idx] \in Loc
        BY <4>1, <1>1 DEF Loc
      <4>3. /\ [w[moved] EXCEPT !.idx = lc.idx].side = w[moved].side
            /\ [w[moved] EXCEPT !.idx = lc.idx].px = w[moved].px
        BY <4>1 DEF Loc
      <4>4. loc' = [[w EXCEPT ![moved] = [w[moved] EXCEPT !.idx = lc.idx]] EXCEPT ![id] = NoLoc]
        BY <3>2
      <4> DEFINE m == [w[moved] EXCEPT !.idx = lc.idx]
      <4> HIDE DEF m
      <4>5. loc' = [d \in OrderId |-> IF d = id THEN NoLoc ELSE IF d = moved THEN m ELSE w[d]]
        BY <4>4, <2>8 DEF m
      <4>6. m \in Loc /\ m.side = loc[moved].side /\ m.px = loc[moved].px
        BY <4>1, <4>2, <4>3 DEF m
      <4> QED BY <4>5, <4>6, <4>1, <2>8, <2>2, <1>2, ConstantsAssumption
    <3> QED BY <2>9, <3>1, <3>2
  <2>11. ASSUME NEW d \in OrderId, d # victim, Holds(q, d) PROVE Holds(r, d)
    <3>1. PICK i \in DOMAIN q : q[i].ord.order_id = d
      BY <2>11 DEF Holds
    <3>2. i # k
      BY <3>1, <2>11
    <3>3. PICK j \in DOMAIN r : r[j] = q[i]
      BY <3>2, <2>3
    <3> QED BY <3>1, <3>3 DEF Holds
  <2>12. LocFindsLevel'
    <3>1. \A d \in OrderId : loc'[d] # NoLoc =>
            /\ loc[d] # NoLoc
            /\ loc'[d].side = loc[d].side /\ loc'[d].px = loc[d].px
            /\ Holds(queue[s][px], d) => Holds(r, d)
      BY <2>10, <2>11
    <3> HIDE DEF s, px, victim
    <3> QED BY <1>1, <2>7, <3>1, LocStillFinds
  <2> QED BY <2>7, <2>10, <2>12
<1> QED BY <1>4, <1>5

-----------------------------------------------------------------------------
(* Reports and the matching step *)

\* A report built from typed parts is an ExecReport.
LEMMA ReportTyped ==
  ASSUME NEW id \in OrderId, NEW leaves \in Qty, NEW qty \in Qty, NEW px \in PriceTicks,
         NEW type \in {"New", "Trade", "Canceled", "Replaced"},
         NEW status \in {"New", "PartiallyFilled", "Filled", "Canceled", "Replaced"}
  PROVE  /\ Report(id, type, status, qty, px, leaves) \in ExecReport
         /\ <<Report(id, type, status, qty, px, leaves)>> \in Seq(ExecReport)
<1>1. Report(id, type, status, qty, px, leaves) \in ExecReport
  BY DEF Report, ExecReport
<1> HIDE DEF Report
<1> QED BY <1>1

\* publish_trade reports an ExecReport.
LEMMA TradeReportTyped ==
  ASSUME NEW n \in Node, NEW qty \in Qty, NEW px \in PriceTicks
  PROVE  TradeReport(n, qty, px) \in ExecReport
<1>1. n.ord.order_id \in OrderId /\ n.leaves \in Qty
  BY DEF Node, Order
<1> QED BY <1>1, ReportTyped DEF TradeReport

\* kNoPrice is one of the prices.
LEMMA NoPriceIsAPrice == NoPrice \in PriceTicks
BY ConstantsAssumption DEF NoPrice, PriceTicks

\* What fill does to the maker and to the taker.
LEMMA FillNodes ==
  ASSUME NEW a \in Node, NEW b \in Node, NEW dq,
         dq = IF a.leaves <= b.leaves THEN a.leaves ELSE b.leaves
  PROVE  /\ dq \in Qty
         /\ [a EXCEPT !.leaves = @ - dq] \in Node
         /\ [a EXCEPT !.leaves = @ - dq].ord = a.ord
         /\ [a EXCEPT !.leaves = @ - dq].leaves = a.leaves - dq
         /\ a.leaves - dq \in Nat /\ a.leaves - dq <= a.leaves
         /\ [b EXCEPT !.leaves = @ - dq] \in Node
         /\ [b EXCEPT !.leaves = @ - dq].ord = b.ord
         /\ [b EXCEPT !.leaves = @ - dq].leaves = b.leaves - dq
         /\ b.leaves - dq <= b.leaves
<1>1. a.leaves \in Nat /\ b.leaves \in Nat /\ a.ord \in Order /\ b.ord \in Order
  BY DEF Node, Qty
<1>2. dq \in Nat /\ dq <= a.leaves /\ dq <= b.leaves
  BY <1>1
<1>3. a.leaves - dq \in Nat /\ b.leaves - dq \in Nat
  BY <1>1, <1>2
<1> QED BY <1>1, <1>2, <1>3 DEF Node, Qty

\* One turn of the matching loop at the best price of the other side.
LEMMA FillKeeps ==
  ASSUME IInv, taker \in Node, pc = "match", UNCHANGED <<pc, replacing>>,
         NEW s \in Side, NEW px \in levels[s],
         Fill(s, px)
  PROVE  IInv'
<1> USE DEF IInv
<1> DEFINE q     == queue[s][px]
           dq    == IF q[1].leaves <= taker.leaves THEN q[1].leaves ELSE taker.leaves
           maker == [q[1] EXCEPT !.leaves = @ - dq]
           next  == [taker EXCEPT !.leaves = @ - dq]
<1>1. /\ px \in PriceTicks /\ q \in Seq(Node) /\ q # <<>>
      /\ loc \in [OrderId -> Loc \cup {NoLoc}]
  BY DEF TypeOK, NoPhantomLevel
<1>2. 1 \in DOMAIN q /\ q[1] \in Node /\ DOMAIN q = 1 .. Len(q) /\ Len(q) \in Nat
  BY <1>1, LenProperties, ElementOfSeq
<1>3. q[1].leaves \in Nat /\ taker.leaves \in Nat /\ q[1].ord.order_id \in OrderId
  BY <1>2 DEF Node, Qty, Order
<1>4. /\ dq \in Qty /\ maker \in Node /\ next \in Node
      /\ maker.ord = q[1].ord /\ maker.leaves = q[1].leaves - dq
      /\ maker.leaves \in Nat /\ maker.leaves <= q[1].leaves
      /\ next.ord = taker.ord /\ next.leaves <= taker.leaves
  <2> HIDE DEF q
  <2> QED BY <1>2, FillNodes
<1>5. /\ taker' = next
      /\ out' = <<TradeReport(next, dq, px), TradeReport(maker, dq, px)>>
      /\ \/ /\ maker.leaves = 0
            /\ StoreQueue(s, px, Tail(q))
            /\ loc' = [loc EXCEPT ![maker.ord.order_id] = NoLoc]
         \/ /\ maker.leaves # 0
            /\ StoreQueue(s, px, [q EXCEPT ![1] = maker])
            /\ loc' = loc
  BY DEF Fill
<1>6. \A i \in DOMAIN q : SoundNode(q[i], s, px)
  BY <1>1 DEF RestingSound, SoundNode
<1> HIDE DEF q, dq, maker, next
<1>7. out' \in Seq(ExecReport)
  <2>1. TradeReport(next, dq, px) \in ExecReport /\ TradeReport(maker, dq, px) \in ExecReport
    BY <1>1, <1>4, TradeReportTyped
  <2> QED BY <2>1, <1>5
<1>8. TakerSound' /\ taker' \in Node /\ taker' # NoNode /\ pc' = "match"
  BY <1>4, <1>5, <1>3, ConstantsAssumption DEF TakerSound, Node, Order, Qty
<1>9. ASSUME NEW r \in Seq(Node), StoreQueue(s, px, r),
             \A i \in DOMAIN r : SoundNode(r[i], s, px),
             loc' \in [OrderId -> Loc \cup {NoLoc}],
             \A id \in OrderId : loc'[id] # NoLoc =>
               loc'[id] = loc[id] /\ (Holds(q, id) => Holds(r, id))
      PROVE  IInv'
  <2>1. /\ levels' \in [Side -> SUBSET PriceTicks]
        /\ queue' \in [Side -> [PriceTicks -> Seq(Node)]]
        /\ queue'[s][px] = r
        /\ \A t \in Side, p \in PriceTicks :
             (t # s \/ p # px) => queue'[t][p] = queue[t][p]
        /\ Uncrossed' /\ NoPhantomLevel' /\ RestingSound'
    BY <1>1, <1>9, StoreQueueKeeps DEF q
  <2>2. LocFindsLevel'
    <3>1. \A id \in OrderId : loc'[id] # NoLoc =>
            /\ loc[id] # NoLoc
            /\ loc'[id].side = loc[id].side /\ loc'[id].px = loc[id].px
            /\ Holds(queue[s][px], id) => Holds(r, id)
      BY <1>9 DEF q
    <3> QED BY <1>1, <2>1, <3>1, LocStillFinds
  <2>3. TypeOK'
    BY <2>1, <1>7, <1>8, <1>9 DEF TypeOK
  <2> QED BY <2>1, <2>2, <2>3, <1>8
<1>10. CASE maker.leaves = 0
  <2>1. /\ Tail(q) \in Seq(Node)
        /\ \A j \in DOMAIN Tail(q) : \E k \in DOMAIN q : Tail(q)[j] = q[k]
        /\ \A k \in DOMAIN q : k # 1 => \E j \in DOMAIN Tail(q) : Tail(q)[j] = q[k]
    BY <1>1, TailKeeps
  <2>2. \A i \in DOMAIN Tail(q) : SoundNode(Tail(q)[i], s, px)
    BY <2>1, <1>6
  <2>3. loc' = [loc EXCEPT ![q[1].ord.order_id] = NoLoc]
    BY <1>4, <1>5, <1>10
  <2>4. loc' \in [OrderId -> Loc \cup {NoLoc}]
    BY <2>3, <1>1
  <2>5. \A id \in OrderId : loc'[id] # NoLoc =>
          loc'[id] = loc[id] /\ (Holds(q, id) => Holds(Tail(q), id))
    BY <2>1, <2>3, <1>1, <1>3 DEF Holds
  <2> QED BY <1>5, <1>9, <1>10, <2>1, <2>2, <2>4, <2>5
<1>11. CASE maker.leaves # 0
  <2> DEFINE r == [q EXCEPT ![1] = maker]
  <2>1. /\ r \in Seq(Node) /\ DOMAIN r = DOMAIN q
        /\ \A j \in DOMAIN q : r[j] = IF j = 1 THEN maker ELSE q[j]
    BY <1>1, <1>2, <1>4, ExceptSeq
  <2>2. SoundNode(maker, s, px)
    <3>1. SoundNode(q[1], s, px) /\ q[1].ord.qty \in Nat
      BY <1>2, <1>6 DEF Node, Order, Qty
    <3> QED BY <3>1, <1>3, <1>4, <1>11 DEF SoundNode
  <2>3. \A i \in DOMAIN r : SoundNode(r[i], s, px)
    BY <2>1, <2>2, <1>6
  <2>4. \A id \in OrderId : Holds(q, id) => Holds(r, id)
    BY <2>1, <1>4 DEF Holds
  <2>5. StoreQueue(s, px, r) /\ loc' = loc
    BY <1>5, <1>11
  <2> HIDE DEF r
  <2> QED BY <1>1, <1>9, <2>1, <2>3, <2>4, <2>5
<1> QED BY <1>10, <1>11

\* The opposite side is a side, and another one.
LEMMA OppositeSide == ASSUME NEW s \in Side PROVE Opposite(s) \in Side /\ Opposite(s) # s
BY DEF Opposite, Side

\* The matching step keeps the invariant: no level at its head is empty, so it is
\* always a fill.
LEMMA MatchKeeps == ASSUME IInv, Match PROVE IInv'
<1>1. taker \in Node /\ taker.ord.side \in Side /\ pc = "match"
  BY DEF Match, IInv, TypeOK, Node, Order
<1> DEFINE s == Opposite(taker.ord.side)
<1>2. s \in Side /\ levels[s] \subseteq PriceTicks /\ levels[s] # {}
  BY <1>1, OppositeSide DEF Match, CanMatch, IInv, TypeOK
<1>3. Best(s) \in levels[s]
  BY <1>2, BestIsBest
<1>4. queue[s][Best(s)] # <<>>
  BY <1>2, <1>3 DEF IInv, NoPhantomLevel
<1>5. Fill(s, Best(s)) /\ UNCHANGED <<pc, replacing>>
  BY <1>4 DEF Match
<1> QED BY <1>1, <1>2, <1>3, <1>5, FillKeeps

\* A handler that returns leaves its locals typed.
LEMMA ReturnTyped ==
  ASSUME TypeOK, Return
  PROVE  /\ pc' \in {"idle", "replaced"} /\ taker' = NoNode
         /\ replacing' \in Request \cup {NoRequest}
         /\ pc' = "replaced" => replacing' # NoRequest
BY DEF TypeOK, Return

\* The order that rests crosses nothing: the loop ended with levels left on the
\* other side only because their best, hence every one, is out of its reach.
LEMMA RestKeeps == ASSUME IInv, Rest PROVE IInv'
<1> USE DEF IInv
<1> DEFINE s  == taker.ord.side
           px == taker.ord.price
           q  == queue[s][px]
           r  == Append(q, taker)
<1>1. /\ taker \in Node /\ s \in Side /\ px \in PriceTicks /\ taker.ord.order_id \in OrderId
      /\ taker.leaves \in Nat /\ taker.ord.qty \in Nat /\ taker.leaves <= taker.ord.qty
  BY DEF Rest, TypeOK, Node, Order, Qty, TakerSound
<1>2. /\ levels \in [Side -> SUBSET PriceTicks]
      /\ queue \in [Side -> [PriceTicks -> Seq(Node)]]
      /\ loc \in [OrderId -> Loc \cup {NoLoc}] /\ q \in Seq(Node)
  BY <1>1 DEF TypeOK
<1>3. /\ r \in Seq(Node) /\ r # <<>> /\ Len(q) \in Nat
      /\ DOMAIN r = 1 .. Len(q) + 1 /\ DOMAIN q = 1 .. Len(q)
      /\ \A i \in DOMAIN q : r[i] = q[i]
      /\ r[Len(q) + 1] = taker
  <2> HIDE DEF q
  <2> QED BY <1>1, <1>2, AppendProperties, LenProperties
<1>4. /\ levels' = [levels EXCEPT ![s] = levels[s] \cup {px}]
      /\ queue' = [queue EXCEPT ![s][px] = r]
      /\ loc' = [loc EXCEPT ![taker.ord.order_id] = [side |-> s, px |-> px, idx |-> Len(q)]]
      /\ out' = <<>>
  BY DEF Rest, Enqueue, PutLast
<1> HIDE DEF q, r
<1>5. /\ levels' \in [Side -> SUBSET PriceTicks]
      /\ queue' \in [Side -> [PriceTicks -> Seq(Node)]]
      /\ loc' \in [OrderId -> Loc \cup {NoLoc}]
  <2>1. [side |-> s, px |-> px, idx |-> Len(q)] \in Loc
    BY <1>1, <1>3 DEF Loc
  <2> QED BY <1>1, <1>2, <1>3, <1>4, <2>1
<1>6. TypeOK' /\ TakerSound'
  <2>1. Return
    BY DEF Rest
  <2> QED BY <1>4, <1>5, <2>1, ReturnTyped, ConstantsAssumption DEF TypeOK, TakerSound
<1>7. /\ queue'[s][px] = r
      /\ \A t \in Side, p \in PriceTicks : (t # s \/ p # px) => queue'[t][p] = queue[t][p]
  BY <1>1, <1>2, <1>4
<1>8. NoPhantomLevel'
  <2> SUFFICES ASSUME NEW t \in Side, NEW p \in PriceTicks
               PROVE  p \in levels'[t] <=> queue'[t][p] # <<>>
    BY DEF NoPhantomLevel
  <2>1. CASE t = s /\ p = px
    BY <2>1, <1>1, <1>2, <1>3, <1>4, <1>7
  <2>2. CASE t # s \/ p # px
    <3>1. p \in levels'[t] <=> p \in levels[t]
      BY <2>2, <1>1, <1>2, <1>4
    <3> QED BY <3>1, <2>2, <1>7 DEF NoPhantomLevel
  <2> QED BY <2>1, <2>2
<1>9. RestingSound'
  <2> SUFFICES ASSUME NEW t \in Side, NEW p \in PriceTicks, NEW i \in DOMAIN queue'[t][p]
               PROVE  SoundNode(queue'[t][p][i], t, p)
    BY DEF RestingSound, SoundNode
  <2>1. CASE t # s \/ p # px
    BY <2>1, <1>7 DEF RestingSound, SoundNode
  <2>2. CASE t = s /\ p = px /\ i \in DOMAIN q
    <3>1. SoundNode(q[i], s, px)
      BY <2>2, <1>1 DEF RestingSound, SoundNode, q
    <3>2. queue'[t][p][i] = q[i]
      BY <2>2, <1>3, <1>7
    <3> QED BY <2>2, <3>1, <3>2
  <2>3. CASE t = s /\ p = px /\ i \notin DOMAIN q
    <3>1. i = Len(q) + 1
      BY <2>3, <1>3, <1>7
    <3>2. ~IsMarket(taker.ord) /\ taker.leaves > 0
      BY DEF Rest, HasLeft
    <3> QED BY <3>1, <3>2, <2>3, <1>1, <1>3, <1>7 DEF SoundNode
  <2> QED BY <2>1, <2>2, <2>3
<1>10. LocFindsLevel'
  <2> SUFFICES ASSUME NEW id \in OrderId, loc'[id] # NoLoc
               PROVE  Holds(queue'[loc'[id].side][loc'[id].px], id)
    BY DEF LocFindsLevel, Holds
  <2>1. CASE id = taker.ord.order_id
    <3>1. loc'[id].side = s /\ loc'[id].px = px
      BY <2>1, <1>1, <1>2, <1>4
    <3>2. Len(q) + 1 \in DOMAIN r /\ r[Len(q) + 1].ord.order_id = id
      BY <2>1, <1>3
    <3> QED BY <3>1, <3>2, <1>7 DEF Holds
  <2>2. CASE id # taker.ord.order_id
    <3>1. loc'[id] = loc[id]
      BY <2>2, <1>1, <1>2, <1>4
    <3>2. loc[id].side \in Side /\ loc[id].px \in PriceTicks
      BY <3>1, LocLevelExists
    <3>3. PICK i \in DOMAIN queue[loc[id].side][loc[id].px] :
            queue[loc[id].side][loc[id].px][i].ord.order_id = id
      BY <3>1 DEF LocFindsLevel
    <3>4. CASE loc[id].side = s /\ loc[id].px = px
      <4>1. i \in DOMAIN q /\ q[i].ord.order_id = id
        BY <3>3, <3>4 DEF q
      <4>2. i \in DOMAIN r /\ r[i].ord.order_id = id
        BY <4>1, <1>3
      <4> QED BY <4>2, <3>1, <3>4, <1>7 DEF Holds
    <3>5. CASE loc[id].side # s \/ loc[id].px # px
      <4>1. queue'[loc[id].side][loc[id].px] = queue[loc[id].side][loc[id].px]
        BY <3>2, <3>5, <1>7
      <4> QED BY <4>1, <3>1, <3>3 DEF Holds
    <3> QED BY <3>4, <3>5
  <2> QED BY <2>1, <2>2
<1>11. Uncrossed'
  <2> DEFINE opp == Opposite(s)
  <2>1. opp \in Side /\ opp # s /\ taker.leaves > 0 /\ ~CanMatch
    BY <1>1, OppositeSide DEF Rest, HasLeft
  <2>2. \A r1 \in levels[opp] : ~AtLeastAsGood(opp, r1, px)
    <3> SUFFICES ASSUME NEW r1 \in levels[opp]
                 PROVE  ~AtLeastAsGood(opp, r1, px)
      OBVIOUS
    <3>1. Best(opp) \in levels[opp] /\ AtLeastAsGood(opp, Best(opp), r1)
      BY <1>2, <2>1, BestIsBest
    <3>2. ~IsLimitCross(s, px, Best(opp))
      BY <2>1, <3>1 DEF CanMatch
    <3>3. Best(opp) \in Nat /\ r1 \in Nat /\ px \in Nat
      BY <1>1, <1>2, <2>1, <3>1, ConstantsAssumption DEF PriceTicks
    <3> QED BY <1>1, <3>1, <3>2, <3>3 DEF IsLimitCross, AtLeastAsGood, Opposite, Side
  <2>3. levels'[opp] = levels[opp] /\ levels'[s] = levels[s] \cup {px}
    BY <1>1, <1>2, <1>4, <2>1
  <2>4. levels[opp] \subseteq Nat /\ px \in Nat
    BY <1>1, <1>2, <2>1, ConstantsAssumption DEF PriceTicks
  <2>5. CASE s = "Bid"
    BY <2>2, <2>3, <2>4, <2>5 DEF Opposite, AtLeastAsGood, Uncrossed
  <2>6. CASE s = "Ask"
    BY <2>2, <2>3, <2>4, <2>6 DEF Opposite, AtLeastAsGood, Uncrossed
  <2> QED BY <2>5, <2>6, <1>1 DEF Side
<1> QED BY <1>6, <1>8, <1>9, <1>10, <1>11

-----------------------------------------------------------------------------
(* The entry points and the other steps *)

\* An order that was just accepted has its whole quantity left.
LEMMA AcceptKeeps ==
  ASSUME NEW o \in Order, Accept(o)
  PROVE  /\ taker' \in Node /\ taker' # NoNode /\ pc' = "match"
         /\ out' \in Seq(ExecReport) /\ TakerSound'
<1>1. o.order_id \in OrderId /\ o.qty \in Qty
  BY DEF Order
<1>2. taker' = [ord |-> o, leaves |-> o.qty] /\ pc' = "match"
      /\ out' = <<Report(o.order_id, "New", "New", 0, NoPrice, o.qty)>>
  BY DEF Accept
<1>3. out' \in Seq(ExecReport)
  BY <1>1, <1>2, ReportTyped, NoPriceIsAPrice DEF Qty
<1>4. taker' \in Node /\ TakerSound'
  BY <1>1, <1>2 DEF Node, TakerSound, Qty
<1> QED BY <1>2, <1>3, <1>4, ConstantsAssumption

\* A step that leaves the book alone and keeps the locals typed keeps IInv.
LEMMA BookUntouched ==
  ASSUME IInv, UNCHANGED book, TakerSound',
         pc' \in {"idle", "match", "replaced", "crashed"},
         taker' \in Node \cup {NoNode}, (pc' = "match") <=> (taker' # NoNode),
         replacing' \in Request \cup {NoRequest}, pc' = "replaced" => replacing' # NoRequest,
         out' \in Seq(ExecReport)
  PROVE  IInv'
<1>1. levels' = levels /\ queue' = queue /\ loc' = loc
  BY DEF book
<1>2. TypeOK'
  BY <1>1 DEF IInv, TypeOK
<1>3. Uncrossed' /\ NoPhantomLevel'
  BY <1>1 DEF IInv, Uncrossed, NoPhantomLevel
<1>4. LocFindsLevel'
  BY <1>1 DEF IInv, LocFindsLevel
<1>5. RestingSound'
  BY <1>1 DEF IInv, RestingSound
<1> QED BY <1>2, <1>3, <1>4, <1>5 DEF IInv

\* A NEW keeps the invariant.
LEMMA OnNewKeeps == ASSUME IInv, NEW o \in Orders, OnNew(o) PROVE IInv'
<1>1. o \in Order /\ Accept(o) /\ UNCHANGED book /\ replacing' = replacing
  BY ConstantsAssumption DEF OnNew, book
<1> QED BY <1>1, AcceptKeeps, BookUntouched DEF IInv, TypeOK

\* A handler that returns without touching the book keeps the invariant.
LEMMA ReturnKeeps ==
  ASSUME IInv, UNCHANGED book, Return, out' \in Seq(ExecReport)
  PROVE  IInv'
<1>1. TypeOK
  BY DEF IInv
<1> QED BY <1>1, ReturnTyped, BookUntouched DEF TakerSound

\* Every step inside a handler keeps the invariant.
LEMMA HandlerKeeps == ASSUME IInv, Handler PROVE IInv'
<1>1. CASE Match
  BY <1>1, MatchKeeps
<1>2. CASE Rest
  BY <1>2, RestKeeps
<1>3. CASE Complete
  <2>1. taker \in Node /\ taker.ord.order_id \in OrderId
    BY <1>3 DEF Complete, Completed, IInv, TypeOK, Node, Order
  <2>2. out' \in Seq(ExecReport)
    BY <1>3, <2>1, ReportTyped, NoPriceIsAPrice DEF Complete, Completed, Qty
  <2> QED BY <1>3, <2>2, ReturnKeeps DEF Complete
<1>4. CASE Abandon
  <2>1. out' \in Seq(ExecReport)
    BY <1>4 DEF Abandon
  <2> QED BY <1>4, <2>1, ReturnKeeps DEF Abandon
<1>5. CASE PublishReplaced
  <2>1. replacing \in Request /\ replacing.order_id \in OrderId /\ replacing.leaves \in Qty
    BY <1>5 DEF PublishReplaced, IInv, TypeOK, Request
  <2>2. out' \in Seq(ExecReport)
    BY <1>5, <2>1, ReportTyped, NoPriceIsAPrice DEF PublishReplaced, Qty
  <2>3. UNCHANGED book /\ taker' = taker /\ pc' = "idle" /\ replacing' = NoRequest /\ pc = "replaced"
    BY <1>5 DEF PublishReplaced, book
  <2> QED BY <2>2, <2>3, BookUntouched DEF IInv, TypeOK, TakerSound
<1> QED BY <1>1, <1>2, <1>3, <1>4, <1>5 DEF Handler

\* A cancel keeps the invariant, through a stale index too.
LEMMA OnCancelKeeps == ASSUME IInv, NEW id \in OrderId, OnCancel(id) PROVE IInv'
<1>1. loc[id] # NoLoc /\ PullOut(id) /\ UNCHANGED <<pc, taker, replacing>> /\ pc = "idle"
  BY DEF OnCancel
<1>2. out' \in Seq(ExecReport)
  BY ReportTyped, NoPriceIsAPrice DEF OnCancel, Qty
<1>3. /\ levels' \in [Side -> SUBSET PriceTicks]
      /\ queue' \in [Side -> [PriceTicks -> Seq(Node)]]
      /\ loc' \in [OrderId -> Loc \cup {NoLoc}]
      /\ Uncrossed' /\ NoPhantomLevel' /\ LocFindsLevel' /\ RestingSound'
  BY <1>1, PullOutKeeps DEF IInv
<1> QED BY <1>1, <1>2, <1>3 DEF IInv, TypeOK, TakerSound

\* The leaves of a replaced order, a saturated subtraction, are a quantity.
LEMMA ReplacedLeavesTyped ==
  ASSUME NEW n \in Node, NEW q \in Qty PROVE ReplacedLeaves(n, q) \in Qty
<1>1. n.leaves \in Nat /\ n.ord.qty \in Nat /\ q \in Nat
  BY DEF Node, Order, Qty
<1> QED BY <1>1 DEF ReplacedLeaves, Qty

\* A replace keeps the invariant, through a stale index too, and whatever is read
\* past the end.
LEMMA OnReplaceKeeps ==
  ASSUME IInv, NEW id \in OrderId, NEW px \in PriceTicks, NEW qty \in NewQtys,
         OnReplace(id, px, qty)
  PROVE  IInv'
<1>1. loc[id] # NoLoc /\ PullOut(id)
  BY DEF OnReplace
<1>2. PICK n \in NodeRead(loc[id]) :
        /\ Accept([n.ord EXCEPT !.qty = qty,
                                !.price = IF px # NoPrice THEN px ELSE n.ord.price])
        /\ replacing' = [order_id |-> n.ord.order_id, leaves |-> ReplacedLeaves(n, qty)]
  BY DEF OnReplace
<1>3. n \in Node
  <2>1. CASE InRange(loc[id])
    <3>1. /\ loc[id].side \in Side /\ loc[id].px \in PriceTicks /\ loc[id].idx \in Nat
          /\ queue[loc[id].side][loc[id].px] \in Seq(Node)
      BY <1>1, LocLevelExists DEF IInv
    <3>2. loc[id].idx + 1 \in 1 .. Len(queue[loc[id].side][loc[id].px])
      BY <2>1, <3>1, LenProperties DEF InRange
    <3> QED BY <2>1, <3>1, <3>2, ElementOfSeq DEF NodeRead
  <2>2. CASE ~InRange(loc[id])
    BY <2>2, ConstantsAssumption DEF NodeRead
  <2> QED BY <2>1, <2>2
<1>4. qty \in Qty
  BY ConstantsAssumption
<1> DEFINE o == [n.ord EXCEPT !.qty = qty, !.price = IF px # NoPrice THEN px ELSE n.ord.price]
<1>5. o \in Order /\ Accept(o)
  BY <1>2, <1>3, <1>4 DEF Node, Order
<1>6. replacing' \in Request
  BY <1>2, <1>3, <1>4, ReplacedLeavesTyped DEF Request, Node, Order
<1>7. /\ taker' \in Node /\ taker' # NoNode /\ pc' = "match"
      /\ out' \in Seq(ExecReport) /\ TakerSound'
  <2> HIDE DEF o
  <2> QED BY <1>5, AcceptKeeps
<1>8. /\ levels' \in [Side -> SUBSET PriceTicks]
      /\ queue' \in [Side -> [PriceTicks -> Seq(Node)]]
      /\ loc' \in [OrderId -> Loc \cup {NoLoc}]
      /\ Uncrossed' /\ NoPhantomLevel' /\ LocFindsLevel' /\ RestingSound'
  BY <1>1, PullOutKeeps DEF IInv
<1> QED BY <1>6, <1>7, <1>8 DEF IInv, TypeOK

\* Every step of the engine, and every stutter, keeps the invariant.
LEMMA StepKeeps == ASSUME IInv, [Next]_vars PROVE IInv'
<1>1. CASE UNCHANGED vars
  <2>1. levels' = levels /\ queue' = queue /\ loc' = loc /\ pc' = pc /\ taker' = taker
        /\ replacing' = replacing /\ out' = out
    BY <1>1 DEF vars
  <2> QED BY <2>1, BookUntouched DEF IInv, TypeOK, TakerSound, book
<1>2. ASSUME NEW o \in Orders, OnNew(o) PROVE IInv'
  BY <1>2, OnNewKeeps
<1>3. ASSUME NEW id \in OrderId, Ignore(id) \/ Crash(id) PROVE IInv'
  <2>1. /\ UNCHANGED <<book, taker, replacing>> /\ out' = <<>> /\ pc = "idle"
        /\ pc' \in {"idle", "crashed"}
    BY <1>3 DEF Ignore, Crash, book
  <2>2. out' \in Seq(ExecReport)
    BY <2>1
  <2> QED BY <2>1, <2>2, BookUntouched DEF IInv, TypeOK, TakerSound
<1>4. ASSUME NEW id \in OrderId, OnCancel(id) PROVE IInv'
  BY <1>4, OnCancelKeeps
<1>5. ASSUME NEW id \in OrderId, NEW px \in PriceTicks, NEW qty \in NewQtys,
             OnReplace(id, px, qty)
      PROVE  IInv'
  BY <1>5, OnReplaceKeeps
<1>6. CASE Handler
  BY <1>6, HandlerKeeps
<1> QED BY <1>1, <1>2, <1>3, <1>4, <1>5, <1>6 DEF Next

\* The empty book satisfies the invariant.
LEMMA InitIInv == Init => IInv
<1> SUFFICES ASSUME Init PROVE IInv
  OBVIOUS
<1>1. /\ levels = [s \in Side |-> {}]
      /\ queue = [s \in Side |-> [p \in PriceTicks |-> <<>>]]
      /\ loc = [id \in OrderId |-> NoLoc]
      /\ pc = "idle" /\ taker = NoNode /\ replacing = NoRequest /\ out = <<>>
  BY DEF Init
<1>2. queue \in [Side -> [PriceTicks -> Seq(Node)]] /\ out \in Seq(ExecReport)
  <2>1. <<>> \in Seq(Node) /\ <<>> \in Seq(ExecReport)
    BY EmptySeq
  <2> QED BY <1>1, <2>1
<1>3. TypeOK
  BY <1>1, <1>2 DEF TypeOK
<1>4. Uncrossed /\ NoPhantomLevel /\ LocFindsLevel /\ TakerSound
  BY <1>1 DEF Uncrossed, NoPhantomLevel, LocFindsLevel, TakerSound, Side
<1>5. RestingSound
  BY <1>1 DEF RestingSound
<1> QED BY <1>3, <1>4, <1>5 DEF IInv

-----------------------------------------------------------------------------
(* The theorems *)

\* The inductive invariant holds in every reachable state of the engine.
THEOREM Invariance == Spec => []IInv
<1>1. IInv /\ [Next]_vars => IInv'
  BY StepKeeps
<1> QED BY InitIInv, <1>1, PTL DEF Spec

\* The engine's members and the handler's locals keep their types.
THEOREM TypeCorrect == Spec => []TypeOK
<1>1. IInv => TypeOK
  BY DEF IInv
<1> QED BY Invariance, <1>1, PTL

\* No command sequence, and no step inside a handler, locks or crosses the book.
THEOREM NeverCrossed == Spec => []Uncrossed
<1>1. IInv => Uncrossed
  BY DEF IInv
<1> QED BY Invariance, <1>1, PTL

\* The price maps hold a key exactly while orders rest under it.
THEOREM NoEmptyLevels == Spec => []NoPhantomLevel
<1>1. IInv => NoPhantomLevel
  BY DEF IInv
<1> QED BY Invariance, <1>1, PTL

\* Every entry of loc_ names a deque that holds its order, stale index or not.
THEOREM LocNamesLevel == Spec => []LocFindsLevel
<1>1. IInv => LocFindsLevel
  BY DEF IInv
<1> QED BY Invariance, <1>1, PTL

\* Every resting order is an open limit order under its own side and price.
THEOREM RestingIsSound == Spec => []RestingSound
<1>1. IInv => RestingSound
  BY DEF IInv
<1> QED BY Invariance, <1>1, PTL

\* A fill is published at the best price of the other side, and within the limit.
LEMMA MatchTradesAtBest == ASSUME IInv, Match PROVE NoTradeThrough'
<1> DEFINE s  == Opposite(taker.ord.side)
           px == Best(s)
           q  == queue[s][px]
           dq == IF q[1].leaves <= taker.leaves THEN q[1].leaves ELSE taker.leaves
           next  == [taker EXCEPT !.leaves = @ - dq]
           maker == [q[1] EXCEPT !.leaves = @ - dq]
<1>1. taker \in Node /\ taker.ord.side \in Side /\ pc = "match" /\ levels \in [Side -> SUBSET PriceTicks]
  BY DEF Match, IInv, TypeOK, Node, Order
<1>2. /\ s \in Side /\ levels[s] \subseteq PriceTicks /\ levels[s] # {}
      /\ IsLimitCross(taker.ord.side, taker.ord.price, px)
  BY <1>1, OppositeSide DEF Match, CanMatch, IInv, TypeOK
<1>3. px \in levels[s] /\ \A r \in levels[s] : AtLeastAsGood(s, px, r)
  BY <1>2, BestIsBest
<1>4. queue[s][px] # <<>>
  BY <1>2, <1>3 DEF IInv, NoPhantomLevel
<1>5. Fill(s, px)
  BY <1>4 DEF Match
<1>6. /\ taker' = next
      /\ out' = <<TradeReport(next, dq, px), TradeReport(maker, dq, px)>>
      /\ \E r : StoreQueue(s, px, r)
  BY <1>5 DEF Fill
<1>7. levels'[s] \subseteq levels[s]
  BY <1>1, <1>2, <1>6 DEF StoreQueue
<1>8. taker'.ord = taker.ord
  BY <1>1, <1>6 DEF Node
<1>9. out'[1].last_px = px
  BY <1>6 DEF TradeReport, Report
<1> HIDE DEF next, maker, dq, q, px
<1> QED BY <1>2, <1>3, <1>7, <1>8, <1>9 DEF NoTradeThrough

\* Every fill is published at the best price there was, within the taker's limit.
THEOREM PricePriority == Spec => []NoTradeThrough
<1>1. Init => NoTradeThrough
  BY DEF Init, NoTradeThrough
<1>2. ASSUME IInv, NoTradeThrough, [Next]_vars PROVE NoTradeThrough'
  <2>1. CASE UNCHANGED vars
    BY <1>2, <2>1 DEF NoTradeThrough, vars
  <2>2. CASE Match
    BY <1>2, <2>2, MatchTradesAtBest
  <2>3. ASSUME pc' # "match" \/ out' = <<>> \/ out'[1].exec_type = "New"
        PROVE  NoTradeThrough'
    BY <2>3 DEF NoTradeThrough
  <2>4. ASSUME NEW o, Accept(o) PROVE NoTradeThrough'
    BY <2>3, <2>4 DEF Accept, Report
  <2>5. CASE Rest \/ Complete \/ Abandon
    <3>1. pc' # "match"
      BY <2>5 DEF Rest, Complete, Abandon, Return
    <3> QED BY <3>1, <2>3
  <2>6. CASE PublishReplaced
    BY <2>3, <2>6 DEF PublishReplaced
  <2>7. ASSUME NEW id \in OrderId, Ignore(id) \/ OnCancel(id) \/ Crash(id)
        PROVE  NoTradeThrough'
    BY <2>3, <2>7 DEF Ignore, OnCancel, Crash
  <2>8. ASSUME NEW o \in Orders, OnNew(o) PROVE NoTradeThrough'
    BY <2>4, <2>8 DEF OnNew
  <2>9. ASSUME NEW id \in OrderId, NEW px \in PriceTicks, NEW qty \in NewQtys,
               OnReplace(id, px, qty)
        PROVE  NoTradeThrough'
    BY <2>4, <2>9 DEF OnReplace
  <2> QED BY <1>2, <2>1, <2>2, <2>5, <2>6, <2>7, <2>8, <2>9 DEF Next, Handler
<1> QED BY Invariance, <1>1, <1>2, PTL DEF Spec

-----------------------------------------------------------------------------
(* A turn of the matching loop, in terms of places of the book *)

\* A book of deques.
Book == [Side -> [PriceTicks -> Seq(Node)]]

\* A turn of the matching loop is a fill of the front of the best opposite level.
Filled(s, px, maker, dq) ==
  /\ s = Opposite(taker.ord.side)
  /\ px \in levels[s] /\ \A r \in levels[s] : AtLeastAsGood(s, px, r)
  /\ IsLimitCross(taker.ord.side, taker.ord.price, px)
  /\ queue[s][px] \in Seq(Node) /\ queue[s][px] # <<>> /\ queue[s][px][1] \in Node
  /\ dq = (IF queue[s][px][1].leaves <= taker.leaves THEN queue[s][px][1].leaves ELSE taker.leaves)
  /\ dq > 0
  /\ maker.ord = queue[s][px][1].ord /\ maker.leaves = queue[s][px][1].leaves - dq
  /\ taker'.ord = taker.ord /\ taker'.leaves = taker.leaves - dq
  /\ queue' = [queue EXCEPT ![s][px] =
                 IF maker.leaves = 0 THEN Tail(queue[s][px]) ELSE [queue[s][px] EXCEPT ![1] = maker]]
  /\ out' = <<TradeReport(taker', dq, px), TradeReport(maker, dq, px)>>

\* And there is such a fill in every turn.
LEMMA MatchFills ==
  ASSUME IInv, Match
  PROVE  /\ taker \in Node /\ taker.ord.side \in Side /\ taker.leaves > 0 /\ taker' \in Node
         /\ UNCHANGED <<pc, replacing>>
         /\ \E s \in Side, px \in PriceTicks, maker \in Node, dq \in Nat : Filled(s, px, maker, dq)
<1> DEFINE s  == Opposite(taker.ord.side)
           px == Best(s)
           q  == queue[s][px]
           dq == IF q[1].leaves <= taker.leaves THEN q[1].leaves ELSE taker.leaves
           next  == [taker EXCEPT !.leaves = @ - dq]
           maker == [q[1] EXCEPT !.leaves = @ - dq]
<1>1. /\ taker \in Node /\ taker.ord.side \in Side /\ taker.leaves \in Nat /\ taker.leaves > 0
      /\ levels \in [Side -> SUBSET PriceTicks]
      /\ queue \in [Side -> [PriceTicks -> Seq(Node)]] /\ UNCHANGED <<pc, replacing>>
  BY DEF Match, CanMatch, IInv, TypeOK, Node, Order, Qty
<1>2. /\ s \in Side /\ levels[s] \subseteq PriceTicks /\ levels[s] # {}
      /\ IsLimitCross(taker.ord.side, taker.ord.price, px)
  BY <1>1, OppositeSide DEF Match, CanMatch, IInv, TypeOK
<1>3. px \in levels[s] /\ \A r \in levels[s] : AtLeastAsGood(s, px, r)
  BY <1>2, BestIsBest
<1>4. /\ px \in PriceTicks /\ q \in Seq(Node) /\ q # <<>>
  BY <1>1, <1>2, <1>3 DEF IInv, NoPhantomLevel
<1>5. Fill(s, px)
  BY <1>4 DEF Match
<1>6. 1 \in DOMAIN q /\ q[1] \in Node
  BY <1>4, LenProperties, ElementOfSeq
<1>7. q[1].leaves \in Nat /\ q[1].leaves > 0
  <2>1. q[1].leaves \in 1 .. q[1].ord.qty /\ q[1].ord.qty \in Nat
    BY <1>2, <1>4, <1>6 DEF IInv, RestingSound, Node, Order, Qty
  <2> HIDE DEF q
  <2> QED BY <2>1
<1>8. /\ dq \in Nat /\ dq > 0 /\ maker \in Node /\ next \in Node
      /\ maker.ord = q[1].ord /\ maker.leaves = q[1].leaves - dq
      /\ next.ord = taker.ord /\ next.leaves = taker.leaves - dq
  <2>1. dq > 0
    BY <1>1, <1>7
  <2>2. dq = IF q[1].leaves <= taker.leaves THEN q[1].leaves ELSE taker.leaves
    OBVIOUS
  <2> HIDE DEF q, dq
  <2>3. dq \in Qty /\ maker \in Node /\ next \in Node
    BY <1>1, <1>6, <2>2, FillNodes
  <2>4. /\ maker.ord = q[1].ord /\ maker.leaves = q[1].leaves - dq
        /\ next.ord = taker.ord /\ next.leaves = taker.leaves - dq
    BY <1>1, <1>6, <2>2, FillNodes
  <2> QED BY <2>1, <2>3, <2>4 DEF Qty
<1>9. /\ taker' = next
      /\ out' = <<TradeReport(next, dq, px), TradeReport(maker, dq, px)>>
      /\ StoreQueue(s, px, IF maker.leaves = 0 THEN Tail(q) ELSE [q EXCEPT ![1] = maker])
  BY <1>5 DEF Fill
<1> HIDE DEF next, maker
<1>10. Filled(s, px, maker, dq)
  BY <1>2, <1>3, <1>4, <1>6, <1>8, <1>9 DEF Filled, StoreQueue
<1> QED BY <1>1, <1>2, <1>4, <1>8, <1>9, <1>10

\* Where the nodes of a level that was filled come from.
LEMMA FillSources ==
  ASSUME NEW Q \in Book, NEW s \in Side, NEW p \in PriceTicks, NEW m \in Node, NEW R,
         Q[s][p] # <<>>,
         R[s][p] = IF m.leaves = 0 THEN Tail(Q[s][p]) ELSE [Q[s][p] EXCEPT ![1] = m],
         \A t \in Side, r \in PriceTicks : (t # s \/ r # p) => R[t][r] = Q[t][r]
  PROVE  \A t \in Side, r \in PriceTicks : \A j \in DOMAIN R[t][r] :
           \/ R[t][r][j] = m
           \/ \E i \in DOMAIN Q[t][r] : R[t][r][j] = Q[t][r][i] /\ (t # s \/ r # p \/ i # 1)
<1> DEFINE q == Q[s][p]
           e == R[s][p]
<1>1. \A j \in DOMAIN e : e[j] = m \/ \E i \in DOMAIN q : e[j] = q[i] /\ i # 1
  <2>1. q \in Seq(Node) /\ q # <<>>
        /\ e = IF m.leaves = 0 THEN Tail(q) ELSE [q EXCEPT ![1] = m]
    BY DEF Book
  <2> HIDE DEF q, e
  <2>2. CASE m.leaves = 0
    <3>1. /\ Len(q) \in Nat /\ DOMAIN q = 1 .. Len(q) /\ DOMAIN e = 1 .. Len(q) - 1
          /\ \A i \in 1 .. Len(q) - 1 : e[i] = q[i + 1]
      BY <2>1, <2>2, HeadTailProperties, LenProperties
    <3>2. ASSUME NEW j \in DOMAIN e PROVE j + 1 \in DOMAIN q /\ j + 1 # 1 /\ e[j] = q[j + 1]
      BY <3>1
    <3> QED BY <3>2
  <2>3. CASE m.leaves # 0
    BY <2>1, <2>3
  <2> QED BY <2>2, <2>3
<1> HIDE DEF q, e
<1>2. ASSUME NEW t \in Side, NEW r \in PriceTicks, NEW j \in DOMAIN R[t][r]
      PROVE  \/ R[t][r][j] = m
             \/ \E i \in DOMAIN Q[t][r] : R[t][r][j] = Q[t][r][i] /\ (t # s \/ r # p \/ i # 1)
  <2>1. CASE t = s /\ r = p
    <3>1. R[t][r] = e /\ Q[t][r] = q
      BY <2>1 DEF e, q
    <3> QED BY <1>1, <3>1
  <2>2. CASE t # s \/ r # p
    BY <2>2
  <2> QED BY <2>1, <2>2
<1> QED BY <1>2

\* What a Trade report says.
LEMMA TradeReportIs ==
  ASSUME NEW n, NEW d, NEW p
  PROVE  LET t == TradeReport(n, d, p)
         IN  /\ t.exec_type = "Trade" /\ t.order_id = n.ord.order_id
             /\ t.last_qty = d /\ t.last_px = p /\ t.leaves_qty = n.leaves
BY DEF TradeReport, Report

-----------------------------------------------------------------------------
(* Orders that keep their numbers apart *)

\* No two places of the book hold orders of one number.
Apart(Q) ==
  \A s, t \in Side, p, r \in PriceTicks : \A i \in DOMAIN Q[s][p], j \in DOMAIN Q[t][r] :
    Q[s][p][i].ord.order_id = Q[t][r][j].ord.order_id => s = t /\ p = r /\ i = j

\* A deque whose places come from different places of the deque it replaces.
ComesFrom(r, q, g) ==
  /\ \A j \in DOMAIN r : g[j] \in DOMAIN q /\ r[j].ord = q[g[j]].ord
  /\ \A i, j \in DOMAIN r : g[i] = g[j] => i = j

\* Such a deque keeps the numbers apart.
LEMMA StillApart ==
  ASSUME NEW Q, NEW R, Apart(Q), NEW s \in Side, NEW p \in PriceTicks,
         NEW g, ComesFrom(R[s][p], Q[s][p], g),
         \A t \in Side, r \in PriceTicks : (t # s \/ r # p) => R[t][r] = Q[t][r]
  PROVE  Apart(R)
<1> DEFINE from(t, r, i) == IF t = s /\ r = p THEN g[i] ELSE i
<1>1. ASSUME NEW t \in Side, NEW r \in PriceTicks, NEW i \in DOMAIN R[t][r]
      PROVE  /\ from(t, r, i) \in DOMAIN Q[t][r]
             /\ R[t][r][i].ord = Q[t][r][from(t, r, i)].ord
  BY <1>1 DEF ComesFrom
<1>2. SUFFICES ASSUME NEW t \in Side, NEW u \in Side, NEW r \in PriceTicks, NEW v \in PriceTicks,
                      NEW i \in DOMAIN R[t][r], NEW j \in DOMAIN R[u][v],
                      R[t][r][i].ord.order_id = R[u][v][j].ord.order_id
               PROVE  t = u /\ r = v /\ i = j
  BY DEF Apart
<1>3. t = u /\ r = v /\ from(t, r, i) = from(u, v, j)
  <2> DEFINE x == from(t, r, i)
             y == from(u, v, j)
  <2>1. /\ x \in DOMAIN Q[t][r] /\ y \in DOMAIN Q[u][v]
        /\ Q[t][r][x].ord.order_id = Q[u][v][y].ord.order_id
    BY <1>1, <1>2
  <2> HIDE DEF x, y
  <2>2. t = u /\ r = v /\ x = y
    BY <2>1 DEF Apart
  <2> QED BY <2>2 DEF x, y
<1> QED BY <1>3 DEF ComesFrom

\* A deque that comes from another, with d less at place k.
Takes(r, q, g, k, d) ==
  /\ ComesFrom(r, q, g)
  /\ \A j \in DOMAIN r : r[j].leaves + (IF g[j] = k THEN d ELSE 0) <= q[g[j]].leaves

\* What is left of the nodes of a deque is a quantity.
LEMMA LeavesOf ==
  ASSUME NEW q \in Seq(Node)
  PROVE  \A i \in DOMAIN q : q[i].leaves \in Nat
<1> SUFFICES ASSUME NEW i \in DOMAIN q PROVE q[i].leaves \in Nat
  OBVIOUS
<1>1. q[i] \in Node
  BY ElementOfSeq, LenProperties
<1> QED BY <1>1 DEF Node, Qty

\* pop_front leaves a deque that comes from the old without its front,
LEMMA PoppedTakes ==
  ASSUME NEW q \in Seq(Node), q # <<>>, NEW d \in Nat
  PROVE  \E g : Takes(Tail(q), q, g, 1, d)
<1> DEFINE r == Tail(q)
           g == [j \in DOMAIN r |-> j + 1]
<1>1. /\ Len(q) \in Nat /\ DOMAIN q = 1 .. Len(q) /\ DOMAIN r = 1 .. Len(q) - 1
      /\ \A i \in 1 .. Len(q) - 1 : r[i] = q[i + 1]
  BY HeadTailProperties, LenProperties
<1> HIDE DEF r
<1>2. \A i \in DOMAIN r : i \in Nat /\ i + 1 \in DOMAIN q /\ i + 1 # 1 /\ r[i] = q[i + 1]
  BY <1>1
<1>3. \A i \in DOMAIN q : q[i].leaves \in Nat
  BY LeavesOf
<1>4. Takes(r, q, g, 1, d)
  BY <1>2, <1>3 DEF Takes, ComesFrom
<1> QED BY <1>4 DEF r

\* a fill of the front one that has as much less of it as was filled,
LEMMA FilledTakes ==
  ASSUME NEW q \in Seq(Node), q # <<>>, NEW m \in Node, m.ord = q[1].ord,
         NEW d \in Nat, m.leaves + d = q[1].leaves
  PROVE  \E g : Takes([q EXCEPT ![1] = m], q, g, 1, d)
<1> DEFINE r == [q EXCEPT ![1] = m]
           g == [j \in DOMAIN r |-> j]
<1>1. /\ DOMAIN r = DOMAIN q
      /\ \A i \in DOMAIN q : r[i].ord = q[i].ord /\ (i # 1 => r[i] = q[i]) /\ (i = 1 => r[i] = m)
  OBVIOUS
<1> HIDE DEF r
<1>2. \A i \in DOMAIN q : q[i].leaves \in Nat
  BY LeavesOf
<1>3. \A j \in DOMAIN r : r[j].leaves + (IF j = 1 THEN d ELSE 0) <= q[j].leaves
  BY <1>1, <1>2
<1>4. Takes(r, q, g, 1, d)
  BY <1>1, <1>3 DEF Takes, ComesFrom
<1> QED BY <1>4 DEF r

\* and erase_at one that has no more of anything.
LEMMA ErasedTakes ==
  ASSUME NEW q \in Seq(Node), NEW k \in DOMAIN q, NEW d, d = 0
  PROVE  \E g : Takes(SwapPop(q, k), q, g, k, d)
<1> DEFINE r == SwapPop(q, k)
           n == Len(q)
           g == [j \in DOMAIN r |-> IF j = k THEN n ELSE j]
<1>1. /\ DOMAIN r = 1 .. n - 1
      /\ \A j \in 1 .. n - 1 : r[j] = IF j = k THEN q[n] ELSE q[j]
      /\ n \in Nat /\ DOMAIN q = 1 .. n
  BY SwapPopKeeps, LenProperties
<1> HIDE DEF r, n
<1>2. \A j \in DOMAIN r : j \in 1 .. n /\ n \in 1 .. n /\ j # n
  BY <1>1
<1>3. \A i \in DOMAIN q : q[i].leaves \in Nat
  BY LeavesOf
<1>4. \A j \in DOMAIN r : g[j] \in DOMAIN q /\ r[j] = q[g[j]]
  BY <1>1, <1>2
<1>5. \A i, j \in DOMAIN r : g[i] = g[j] => i = j
  BY <1>1, <1>2
<1> HIDE DEF g
<1>6. Takes(r, q, g, k, d)
  BY <1>3, <1>4, <1>5 DEF Takes, ComesFrom
<1> QED BY <1>6 DEF r

\* A node that has a number of its own joins.
LEMMA AppendedApart ==
  ASSUME NEW Q \in Book, NEW R, Apart(Q), NEW s \in Side, NEW p \in PriceTicks, NEW m \in Node,
         R[s][p] = Append(Q[s][p], m),
         \A t \in Side, r \in PriceTicks : (t # s \/ r # p) => R[t][r] = Q[t][r],
         \A t \in Side, r \in PriceTicks : \A i \in DOMAIN Q[t][r] :
           Q[t][r][i].ord.order_id # m.ord.order_id
  PROVE  /\ Apart(R)
         /\ \A t \in Side, r \in PriceTicks : \A i \in DOMAIN R[t][r] :
              R[t][r][i] = m \/ (i \in DOMAIN Q[t][r] /\ R[t][r][i] = Q[t][r][i])
<1> DEFINE q == Q[s][p]
           e == R[s][p]
<1>1. /\ Len(q) \in Nat /\ DOMAIN q = 1 .. Len(q) /\ DOMAIN e = 1 .. Len(q) + 1
      /\ \A i \in 1 .. Len(q) : e[i] = q[i]
      /\ e[Len(q) + 1] = m
  <2>1. q \in Seq(Node) /\ e = Append(q, m)
    BY DEF Book
  <2> HIDE DEF q, e
  <2> QED BY <2>1, AppendProperties, LenProperties
<1> DEFINE New(t, r, i) == t = s /\ r = p /\ i = Len(q) + 1
<1>2. ASSUME NEW t \in Side, NEW r \in PriceTicks, NEW i \in DOMAIN R[t][r]
      PROVE  /\ New(t, r, i) => R[t][r][i] = m
             /\ ~New(t, r, i) => i \in DOMAIN Q[t][r] /\ R[t][r][i] = Q[t][r][i]
  <2>1. CASE t = s /\ r = p
    <3>1. R[t][r] = e /\ Q[t][r] = q
      BY <2>1
    <3> HIDE DEF e, q
    <3> QED BY <3>1, <1>1, <2>1
  <2>2. CASE t # s \/ r # p
    BY <2>2
  <2> QED BY <2>1, <2>2
<1> HIDE DEF New, e
<1>3. ASSUME NEW t \in Side, NEW r \in PriceTicks, NEW i \in DOMAIN R[t][r]
      PROVE  New(t, r, i) <=> R[t][r][i].ord.order_id = m.ord.order_id
  BY <1>2
<1>4. Apart(R)
  <2> SUFFICES ASSUME NEW t \in Side, NEW u \in Side, NEW r \in PriceTicks, NEW v \in PriceTicks,
                      NEW i \in DOMAIN R[t][r], NEW j \in DOMAIN R[u][v],
                      R[t][r][i].ord.order_id = R[u][v][j].ord.order_id
               PROVE  t = u /\ r = v /\ i = j
    BY DEF Apart
  <2>1. New(t, r, i) <=> New(u, v, j)
    BY <1>3
  <2>2. CASE New(t, r, i)
    BY <2>1, <2>2 DEF New
  <2>3. CASE ~New(t, r, i)
    <3>1. /\ i \in DOMAIN Q[t][r] /\ j \in DOMAIN Q[u][v]
          /\ Q[t][r][i].ord.order_id = Q[u][v][j].ord.order_id
      BY <1>2, <2>1, <2>3
    <3> QED BY <3>1 DEF Apart
  <2> QED BY <2>2, <2>3
<1> QED BY <1>2, <1>4

\* Pulling an order out, be it the wrong one, keeps the numbers apart; it adds none,
\* and leaves none of the order that it took.
LEMMA PulledOut ==
  ASSUME IInv, Apart(queue), NEW id \in OrderId, loc[id] # NoLoc, PullOut(id)
  PROVE  /\ Apart(queue')
         /\ \A t \in Side, p \in PriceTicks : \A j \in DOMAIN queue'[t][p] :
              \E i \in DOMAIN queue[t][p] : queue'[t][p][j] = queue[t][p][i]
         /\ InRange(loc[id]) =>
              LET n == queue[loc[id].side][loc[id].px][loc[id].idx + 1]
              IN  \A t \in Side, p \in PriceTicks : \A j \in DOMAIN queue'[t][p] :
                    queue'[t][p][j].ord.order_id # n.ord.order_id
<1> DEFINE lc == loc[id]
           s  == lc.side
           px == lc.px
           q  == queue[s][px]
           k  == lc.idx + 1
           r  == SwapPop(q, k)
<1>1. /\ s \in Side /\ px \in PriceTicks /\ lc.idx \in Nat /\ q \in Seq(Node) /\ queue \in Book
  BY LocLevelExists DEF IInv, TypeOK, Book
<1>2. CASE ~InRange(lc)
  <2>1. queue' = queue
    BY <1>2 DEF PullOut, EraseAt
  <2> QED BY <2>1, <1>2
<1>3. CASE InRange(lc)
  <2>1. queue' = [queue EXCEPT ![s][px] = r]
    BY <1>3 DEF PullOut, EraseAt, StoreQueue
  <2>2. k \in DOMAIN q
    BY <1>1, <1>3, LenProperties DEF InRange
  <2>3. /\ queue'[s][px] = r
        /\ \A t \in Side, p \in PriceTicks : (t # s \/ p # px) => queue'[t][p] = queue[t][p]
    <3> HIDE DEF r
    <3> QED BY <1>1, <2>1 DEF Book
  <2>4. \A j \in DOMAIN r : \E i \in DOMAIN q : r[j] = q[i] /\ i # k
    <3> HIDE DEF k, q
    <3>1. /\ DOMAIN r = 1 .. Len(q) - 1
          /\ \A j \in 1 .. Len(q) - 1 : r[j] = IF j = k THEN q[Len(q)] ELSE q[j]
          /\ Len(q) \in Nat /\ DOMAIN q = 1 .. Len(q)
      BY <1>1, <2>2, SwapPopKeeps, LenProperties
    <3> DEFINE n == Len(q)
    <3> HIDE DEF r, n
    <3>2. ASSUME NEW j \in DOMAIN r PROVE \E i \in DOMAIN q : r[j] = q[i] /\ i # k
      <4>1. CASE j = k
        <5>1. n \in DOMAIN q /\ n # k /\ r[j] = q[n]
          BY <3>1, <3>2, <4>1 DEF n
        <5> QED BY <5>1
      <4>2. CASE j # k
        <5>1. j \in DOMAIN q /\ r[j] = q[j]
          BY <3>1, <3>2, <4>2 DEF n
        <5> QED BY <4>2, <5>1
      <4> QED BY <4>1, <4>2
    <3> QED BY <3>2
  <2>5. PICK g : ComesFrom(r, q, g)
    <3> HIDE DEF k, q, r
    <3>1. \A d : d = 0 => \E g : Takes(r, q, g, k, d)
      BY <1>1, <2>2, ErasedTakes DEF r
    <3> QED BY <3>1 DEF Takes
  <2> HIDE DEF r
  <2>6. ASSUME NEW t \in Side, NEW p \in PriceTicks, NEW j \in DOMAIN queue'[t][p]
        PROVE  \E i \in DOMAIN queue[t][p] :
                 queue'[t][p][j] = queue[t][p][i] /\ (t # s \/ p # px \/ i # k)
    BY <2>3, <2>4
  <2>7. Apart(queue')
    <3> HIDE DEF s, px
    <3>1. queue[s][px] = q
      BY DEF s, px
    <3> QED BY <1>1, <2>3, <2>5, <3>1, StillApart
  <2>8. ASSUME NEW t \in Side, NEW p \in PriceTicks, NEW j \in DOMAIN queue'[t][p]
        PROVE  queue'[t][p][j].ord.order_id # q[k].ord.order_id
    <3>1. PICK i \in DOMAIN queue[t][p] :
            queue'[t][p][j] = queue[t][p][i] /\ (t # s \/ p # px \/ i # k)
      BY <2>6
    <3> HIDE DEF s, px, k
    <3> QED BY <1>1, <2>2, <3>1 DEF Apart
  <2>9. \A t \in Side, p \in PriceTicks : \A j \in DOMAIN queue'[t][p] :
          \E i \in DOMAIN queue[t][p] : queue'[t][p][j] = queue[t][p][i]
    BY <2>6
  <2> QED BY <2>7, <2>8, <2>9
<1> QED BY <1>2, <1>3
=============================================================================
