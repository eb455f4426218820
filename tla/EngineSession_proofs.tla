------------------------ MODULE EngineSession_proofs ------------------------
(***************************************************************************)
(* What clients can rely on, proved for every set of ids, prices, orders   *)
(* and quantities: on_new by itself implements PriceTimeBook (what the     *)
(* refinement needs besides the invariant of the engine is that the deques *)
(* are in arrival order); the leaves that are reported add up; and nothing *)
(* trades or rests that was not accepted.                                  *)
(***************************************************************************)
EXTENDS EngineSession, EngineBook_proofs, FiniteSetTheorems

\* The number that every resting order is below: that of the order at work, or
\* of the next to come.
Horizon == IF taker = NoNode THEN nextId ELSE taker.ord.order_id

\* The orders of a deque are numbered below n, and in arrival order.
Numbered(q, n) == \A i \in DOMAIN q : q[i].ord.order_id \in Nat /\ q[i].ord.order_id < n
InOrder(q) == \A i, j \in DOMAIN q : i < j => q[i].ord.order_id < q[j].ord.order_id

\* What a session of NEWs keeps: no replace is under way, and what rests in a deque
\* arrived in its order, before the order at work.
NewOnly ==
  /\ replacing = NoRequest
  /\ Horizon \in Nat /\ Horizon <= nextId
  /\ taker # NoNode => taker.ord \in Orders /\ Horizon < nextId
  /\ \A s \in Side, p \in PriceTicks :
       Numbered(queue[s][p], Horizon) /\ InOrder(queue[s][p])
  /\ queue["Bid"][NoPrice] = <<>>

\* The inductive invariant of the refinement.
SInv == IInv /\ nextId \in Nat /\ (commands = {} => NewOnly)

\* What can be seen of a book.
View(Q) == UNION {{Seen(Q[s][p][i]) : i \in DOMAIN Q[s][p]} : s \in Side, p \in PriceTicks}
Kept(Q) == \A s \in Side, p \in PriceTicks : \A i \in DOMAIN Q[s][p] :
             Q[s][p][i].ord.side = s /\ Q[s][p][i].ord.price = p

-----------------------------------------------------------------------------
(* What a step of a deque does to the view *)

\* Every place of the book is in view, and nothing else.
LEMMA InView ==
  ASSUME NEW Q
  PROVE  /\ \A s \in Side, p \in PriceTicks : \A i \in DOMAIN Q[s][p] : Seen(Q[s][p][i]) \in View(Q)
         /\ \A m \in View(Q) : \E s \in Side, p \in PriceTicks : \E i \in DOMAIN Q[s][p] :
              m = Seen(Q[s][p][i])
<1> DEFINE At(s, p) == {Seen(Q[s][p][i]) : i \in DOMAIN Q[s][p]}
<1>1. View(Q) = UNION {At(s, p) : s \in Side, p \in PriceTicks}
  BY DEF View
<1>2. ASSUME NEW s \in Side, NEW p \in PriceTicks, NEW i \in DOMAIN Q[s][p]
      PROVE  Seen(Q[s][p][i]) \in View(Q)
  <2>1. Seen(Q[s][p][i]) \in At(s, p)
    OBVIOUS
  <2> HIDE DEF At
  <2> QED BY <1>1, <2>1
<1>3. ASSUME NEW m \in View(Q)
      PROVE  \E s \in Side, p \in PriceTicks : m \in At(s, p)
  <2> HIDE DEF At
  <2> QED BY <1>1
<1> QED BY <1>2, <1>3

\* What is seen of a node tells its place apart, in a book kept in arrival order.
LEMMA SeenApart ==
  ASSUME NEW Q, Kept(Q), NEW s \in Side, NEW p \in PriceTicks, NEW i \in DOMAIN Q[s][p],
         NEW t \in Side, NEW r \in PriceTicks, NEW j \in DOMAIN Q[t][r],
         Seen(Q[s][p][i]) = Seen(Q[t][r][j])
  PROVE  /\ s = t /\ p = r
         /\ Q[s][p][i].ord.order_id = Q[t][r][j].ord.order_id
<1>1. /\ Q[s][p][i].ord.side = Q[t][r][j].ord.side
      /\ Q[s][p][i].ord.price = Q[t][r][j].ord.price
      /\ Q[s][p][i].ord.order_id = Q[t][r][j].ord.order_id
  BY DEF Seen
<1> QED BY <1>1 DEF Kept

\* pop_front takes out of the view what is seen of the front.
LEMMA ViewPopped ==
  ASSUME NEW Q \in Book, Kept(Q), NEW s \in Side, NEW p \in PriceTicks,
         Q[s][p] # <<>>, InOrder(Q[s][p]),
         \A i \in DOMAIN Q[s][p] : Q[s][p][i].ord.order_id \in Nat
  PROVE  View([Q EXCEPT ![s][p] = Tail(Q[s][p])]) = View(Q) \ {Seen(Q[s][p][1])}
<1> DEFINE q == Q[s][p]
           R == [Q EXCEPT ![s][p] = Tail(q)]
<1>1. /\ q \in Seq(Node) /\ Len(q) \in Nat /\ Len(q) > 0 /\ DOMAIN q = 1 .. Len(q)
      /\ Tail(q) \in Seq(Node) /\ Len(Tail(q)) = Len(q) - 1
      /\ \A i \in 1 .. Len(Tail(q)) : Tail(q)[i] = q[i + 1]
      /\ DOMAIN Tail(q) = 1 .. Len(Tail(q))
  <2>1. q \in Seq(Node)
    BY DEF Book
  <2> QED BY <2>1, HeadTailProperties, LenProperties, EmptySeq
<1>2. /\ R[s][p] = Tail(q)
      /\ \A t \in Side, r \in PriceTicks : (t # s \/ r # p) => R[t][r] = Q[t][r]
  BY DEF Book
<1> HIDE DEF R
<1>3. ASSUME NEW m \in View(R) PROVE m \in View(Q) /\ m # Seen(q[1])
  <2>1. PICK t \in Side, r \in PriceTicks : \E i \in DOMAIN R[t][r] : m = Seen(R[t][r][i])
    BY InView
  <2>2. PICK i \in DOMAIN R[t][r] : m = Seen(R[t][r][i])
    BY <2>1
  <2>3. CASE t = s /\ r = p
    <3>0. i \in 1 .. Len(Tail(q)) /\ m = Seen(Tail(q)[i])
      BY <1>1, <1>2, <2>2, <2>3
    <3>1. i + 1 \in DOMAIN q /\ 1 \in DOMAIN q /\ 1 < i + 1 /\ m = Seen(q[i + 1])
      <4> HIDE DEF q
      <4> QED BY <1>1, <3>0
    <3>2. q[1].ord.order_id \in Nat /\ q[1].ord.order_id < q[i + 1].ord.order_id
      BY <3>1 DEF InOrder
    <3>3. q[i + 1].ord.order_id \in Nat
      BY <3>1
    <3>4. m # Seen(q[1])
      <4>1. m.id = q[i + 1].ord.order_id /\ Seen(q[1]).id = q[1].ord.order_id
        BY <3>1 DEF Seen
      <4> HIDE DEF q
      <4> QED BY <4>1, <3>2, <3>3
    <3> QED BY <3>1, <3>4, InView
  <2>4. CASE t # s \/ r # p
    <3>1. i \in DOMAIN Q[t][r] /\ m = Seen(Q[t][r][i]) /\ 1 \in DOMAIN Q[s][p]
      BY <1>1, <1>2, <2>2, <2>4
    <3> QED BY <3>1, <2>4, InView, SeenApart
  <2> QED BY <2>3, <2>4
<1>4. ASSUME NEW m \in View(Q), m # Seen(q[1]) PROVE m \in View(R)
  <2>1. PICK t \in Side, r \in PriceTicks : \E i \in DOMAIN Q[t][r] : m = Seen(Q[t][r][i])
    BY InView
  <2>2. PICK i \in DOMAIN Q[t][r] : m = Seen(Q[t][r][i])
    BY <2>1
  <2>3. CASE t = s /\ r = p
    <3>1. i \in 1 .. Len(q) /\ i # 1
      BY <1>1, <1>4, <2>2, <2>3
    <3>2. i - 1 \in 1 .. Len(Tail(q)) /\ (i - 1) + 1 = i
      BY <1>1, <3>1
    <3>3. i - 1 \in DOMAIN R[s][p] /\ R[s][p][i - 1] = q[i]
      BY <3>2, <1>1, <1>2
    <3> QED BY <3>3, <2>2, <2>3, InView
  <2>4. CASE t # s \/ r # p
    BY <1>2, <2>2, <2>4, InView
  <2> QED BY <2>3, <2>4
<1> QED BY <1>3, <1>4 DEF R

\* A fill of the front that leaves something of it changes what is seen of it.
LEMMA ViewFilled ==
  ASSUME NEW Q \in Book, Kept(Q), NEW s \in Side, NEW p \in PriceTicks,
         Q[s][p] # <<>>, InOrder(Q[s][p]),
         \A i \in DOMAIN Q[s][p] : Q[s][p][i].ord.order_id \in Nat,
         NEW m \in Node, NEW e,
         DOMAIN e = DOMAIN Q[s][p], e[1] = m,
         \A i \in DOMAIN Q[s][p] : i # 1 => e[i] = Q[s][p][i],
         NEW R, R[s][p] = e,
         \A t \in Side, r \in PriceTicks : (t # s \/ r # p) => R[t][r] = Q[t][r]
  PROVE  View(R) = (View(Q) \ {Seen(Q[s][p][1])}) \cup {Seen(m)}
<1> DEFINE q == Q[s][p]
<1>1. /\ q \in Seq(Node) /\ Len(q) \in Nat /\ 1 \in DOMAIN q /\ DOMAIN q = 1 .. Len(q)
      /\ DOMAIN e = DOMAIN q /\ e[1] = m
      /\ \A i \in DOMAIN q : i # 1 => e[i] = q[i]
  <2>1. q \in Seq(Node)
    BY DEF Book
  <2>2. Len(q) \in Nat /\ Len(q) > 0 /\ DOMAIN q = 1 .. Len(q)
    BY <2>1, LenProperties, EmptySeq
  <2>3. 1 \in DOMAIN q
    <3> HIDE DEF q
    <3> QED BY <2>2
  <2> QED BY <2>1, <2>2, <2>3
<1>2. /\ R[s][p] = e
      /\ \A t \in Side, r \in PriceTicks : (t # s \/ r # p) => R[t][r] = Q[t][r]
  OBVIOUS
<1>3. ASSUME NEW x \in View(R), x # Seen(m) PROVE x \in View(Q) /\ x # Seen(q[1])
  <2>1. PICK t \in Side, r \in PriceTicks : \E i \in DOMAIN R[t][r] : x = Seen(R[t][r][i])
    BY InView
  <2>2. PICK i \in DOMAIN R[t][r] : x = Seen(R[t][r][i])
    BY <2>1
  <2>3. CASE t = s /\ r = p
    <3>1. i \in DOMAIN q /\ i # 1 /\ x = Seen(q[i])
      BY <1>1, <1>2, <1>3, <2>2, <2>3
    <3>2. 1 < i
      BY <3>1, <1>1
    <3>3. q[1].ord.order_id \in Nat /\ q[i].ord.order_id \in Nat
          /\ q[1].ord.order_id < q[i].ord.order_id
      BY <3>1, <3>2, <1>1 DEF InOrder
    <3>4. x # Seen(q[1])
      <4>1. x.id = q[i].ord.order_id /\ Seen(q[1]).id = q[1].ord.order_id
        BY <3>1 DEF Seen
      <4> HIDE DEF q
      <4> QED BY <4>1, <3>3
    <3> QED BY <3>1, <3>4, InView
  <2>4. CASE t # s \/ r # p
    <3>1. i \in DOMAIN Q[t][r] /\ x = Seen(Q[t][r][i]) /\ 1 \in DOMAIN Q[s][p]
      BY <1>1, <1>2, <2>2, <2>4
    <3> QED BY <3>1, <2>4, InView, SeenApart
  <2> QED BY <2>3, <2>4
<1>4. ASSUME NEW x \in View(Q), x # Seen(q[1]) PROVE x \in View(R)
  <2>1. PICK t \in Side, r \in PriceTicks : \E i \in DOMAIN Q[t][r] : x = Seen(Q[t][r][i])
    BY InView
  <2>2. PICK i \in DOMAIN Q[t][r] : x = Seen(Q[t][r][i])
    BY <2>1
  <2>3. CASE t = s /\ r = p
    <3>1. i \in DOMAIN q /\ i # 1
      BY <1>4, <2>2, <2>3
    <3>2. i \in DOMAIN R[s][p] /\ R[s][p][i] = q[i]
      BY <3>1, <1>1, <1>2
    <3> QED BY <3>2, <2>2, <2>3, InView
  <2>4. CASE t # s \/ r # p
    BY <1>2, <2>2, <2>4, InView
  <2> QED BY <2>3, <2>4
<1>5. Seen(m) \in View(R)
  <2>1. 1 \in DOMAIN R[s][p] /\ R[s][p][1] = m
    BY <1>1, <1>2
  <2> QED BY <2>1, InView
<1> QED BY <1>3, <1>4, <1>5

\* push_back adds what is seen of the node.
LEMMA ViewAppended ==
  ASSUME NEW Q \in Book, NEW s \in Side, NEW p \in PriceTicks, NEW m \in Node,
         NEW R, R[s][p] = Append(Q[s][p], m),
         \A t \in Side, r \in PriceTicks : (t # s \/ r # p) => R[t][r] = Q[t][r]
  PROVE  View(R) = View(Q) \cup {Seen(m)}
<1> DEFINE q == Q[s][p]
           e == Append(q, m)
<1>1. /\ q \in Seq(Node) /\ Len(q) \in Nat /\ DOMAIN q = 1 .. Len(q)
      /\ e \in Seq(Node) /\ Len(e) = Len(q) + 1 /\ DOMAIN e = 1 .. Len(e)
      /\ e[Len(q) + 1] = m /\ \A i \in 1 .. Len(q) : e[i] = q[i]
  <2>1. q \in Seq(Node)
    BY DEF Book
  <2> HIDE DEF q
  <2> QED BY <2>1, AppendProperties, LenProperties
<1>2. /\ R[s][p] = e
      /\ \A t \in Side, r \in PriceTicks : (t # s \/ r # p) => R[t][r] = Q[t][r]
  OBVIOUS
<1> HIDE DEF e
<1>3. ASSUME NEW x \in View(R), x # Seen(m) PROVE x \in View(Q)
  <2>1. PICK t \in Side, r \in PriceTicks : \E i \in DOMAIN R[t][r] : x = Seen(R[t][r][i])
    BY InView
  <2>2. PICK i \in DOMAIN R[t][r] : x = Seen(R[t][r][i])
    BY <2>1
  <2>3. CASE t = s /\ r = p
    <3>1. i \in 1 .. Len(q) + 1 /\ i # Len(q) + 1
      BY <1>1, <1>2, <1>3, <2>2, <2>3
    <3>2. i \in DOMAIN q /\ e[i] = q[i]
      BY <3>1, <1>1
    <3> QED BY <3>2, <1>2, <2>2, <2>3, InView
  <2>4. CASE t # s \/ r # p
    BY <1>2, <2>2, <2>4, InView
  <2> QED BY <2>3, <2>4
<1>4. ASSUME NEW x \in View(Q) PROVE x \in View(R)
  <2>1. PICK t \in Side, r \in PriceTicks : \E i \in DOMAIN Q[t][r] : x = Seen(Q[t][r][i])
    BY InView
  <2>2. PICK i \in DOMAIN Q[t][r] : x = Seen(Q[t][r][i])
    BY <2>1
  <2>3. CASE t = s /\ r = p
    <3>1. i \in 1 .. Len(q)
      BY <1>1, <2>2, <2>3
    <3>2. i \in DOMAIN R[s][p] /\ R[s][p][i] = q[i]
      <4> HIDE DEF q
      <4> QED BY <1>1, <1>2, <3>1
    <3> QED BY <3>2, <2>2, <2>3, InView
  <2>4. CASE t # s \/ r # p
    BY <1>2, <2>2, <2>4, InView
  <2> QED BY <2>3, <2>4
<1>5. Seen(m) \in View(R)
  <2>1. Len(q) + 1 \in DOMAIN R[s][p] /\ R[s][p][Len(q) + 1] = m
    BY <1>1, <1>2
  <2> QED BY <2>1, InView
<1> QED BY <1>3, <1>4, <1>5

-----------------------------------------------------------------------------
(* Deques in arrival order *)

\* They stay so when the front leaves,
LEMMA PoppedInOrder ==
  ASSUME NEW q \in Seq(Node), q # <<>>, NEW n, Numbered(q, n), InOrder(q)
  PROVE  Numbered(Tail(q), n) /\ InOrder(Tail(q))
<1> DEFINE r == Tail(q)
<1>1. /\ Len(q) \in Nat /\ DOMAIN q = 1 .. Len(q) /\ DOMAIN r = 1 .. Len(q) - 1
      /\ \A i \in 1 .. Len(q) - 1 : r[i] = q[i + 1]
  BY HeadTailProperties, LenProperties
<1> HIDE DEF r
<1>2. ASSUME NEW i \in DOMAIN r
      PROVE  /\ i \in Nat /\ i + 1 \in DOMAIN q /\ r[i] = q[i + 1]
  BY <1>1
<1>3. Numbered(r, n)
  BY <1>2 DEF Numbered
<1>4. InOrder(r)
  <2> SUFFICES ASSUME NEW i \in DOMAIN r, NEW j \in DOMAIN r, i < j
               PROVE  r[i].ord.order_id < r[j].ord.order_id
    BY DEF InOrder
  <2>1. i + 1 < j + 1
    BY <1>2
  <2> QED BY <1>2, <2>1 DEF InOrder
<1> QED BY <1>3, <1>4 DEF r

\* when part of the front is filled,
LEMMA FilledInOrder ==
  ASSUME NEW q \in Seq(Node), NEW n, Numbered(q, n), InOrder(q),
         NEW m, m.ord = q[1].ord
  PROVE  Numbered([q EXCEPT ![1] = m], n) /\ InOrder([q EXCEPT ![1] = m])
<1> DEFINE r == [q EXCEPT ![1] = m]
<1>1. DOMAIN r = DOMAIN q /\ \A i \in DOMAIN q : r[i].ord = q[i].ord
  OBVIOUS
<1> HIDE DEF r
<1> QED BY <1>1 DEF Numbered, InOrder, r

\* and when a younger order joins.
LEMMA AppendedInOrder ==
  ASSUME NEW q \in Seq(Node), NEW m \in Node, NEW n,
         Numbered(q, m.ord.order_id), InOrder(q),
         m.ord.order_id \in Nat, n \in Nat, m.ord.order_id < n
  PROVE  Numbered(Append(q, m), n) /\ InOrder(Append(q, m))
<1> DEFINE r == Append(q, m)
<1>1. /\ Len(q) \in Nat /\ DOMAIN q = 1 .. Len(q) /\ DOMAIN r = 1 .. Len(q) + 1
      /\ \A i \in 1 .. Len(q) : r[i] = q[i]
      /\ r[Len(q) + 1] = m
  BY AppendProperties, LenProperties
<1> HIDE DEF r
<1>2. ASSUME NEW i \in DOMAIN r, i # Len(q) + 1
      PROVE  /\ i \in DOMAIN q /\ r[i] = q[i]
             /\ r[i].ord.order_id \in Nat /\ r[i].ord.order_id < m.ord.order_id
  BY <1>1, <1>2 DEF Numbered
<1>3. Numbered(r, n)
  <2> SUFFICES ASSUME NEW i \in DOMAIN r
               PROVE  r[i].ord.order_id \in Nat /\ r[i].ord.order_id < n
    BY DEF Numbered
  <2>1. CASE i = Len(q) + 1
    BY <1>1, <2>1
  <2>2. CASE i # Len(q) + 1
    BY <1>2, <2>2
  <2> QED BY <2>1, <2>2
<1>4. InOrder(r)
  <2> SUFFICES ASSUME NEW i \in DOMAIN r, NEW j \in DOMAIN r, i < j
               PROVE  r[i].ord.order_id < r[j].ord.order_id
    BY DEF InOrder
  <2>1. i # Len(q) + 1
    BY <1>1
  <2>2. CASE j = Len(q) + 1
    BY <1>1, <1>2, <2>1, <2>2
  <2>3. CASE j # Len(q) + 1
    BY <1>2, <2>1, <2>3 DEF InOrder
  <2> QED BY <2>2, <2>3
<1> QED BY <1>3, <1>4 DEF r

-----------------------------------------------------------------------------
(* The steps of the engine as a client sees them *)

\* What an order shows of itself is never the mark of there being no order.
LEMMA SeenTyped ==
  ASSUME NEW n \in Node
  PROVE  /\ Seen(n) \in SeenOrder /\ Seen(n) # NoNode
         /\ n.ord \in Order /\ n.ord.side \in Side /\ n.ord.price \in Nat /\ n.leaves \in Nat
<1>1. /\ n.ord \in Order /\ n.leaves \in Nat /\ n.ord.order_id \in OrderId
      /\ n.ord.side \in Side /\ n.ord.price \in PriceTicks
  BY DEF Node, Order, Qty
<1>2. Seen(n) \in SeenOrder
  BY <1>1 DEF Seen, SeenOrder, IsMarket, Qty
<1> QED BY <1>1, <1>2, CommandsAssumption, ConstantsAssumption DEF PriceTicks

\* The view of a smaller node is that of the node, less the difference.
LEMMA SeenLess ==
  ASSUME NEW n \in Node, NEW m \in Node, NEW d, m.ord = n.ord, m.leaves = n.leaves - d
  PROVE  Seen(m) = PT!Less(Seen(n), d)
BY DEF Seen, PT!Less

-----------------------------------------------------------------------------
(* The steps of on_new implement those of PriceTimeBook *)

\* The book is kept under its own sides and prices, as the view needs it.
LEMMA BookKept ==
  ASSUME IInv
  PROVE  /\ queue \in Book /\ Kept(queue)
         /\ SeenResting = View(queue) /\ SeenResting' = View(queue')
BY DEF IInv, TypeOK, RestingSound, Book, Kept, View, SeenResting

\* A turn of the matching loop is a trade with the best and oldest order.
LEMMA MatchTrades ==
  ASSUME SInv, commands = {}, Match
  PROVE  PT!Trade
<1>1. /\ taker \in Node /\ taker.ord.side \in Side /\ taker.leaves > 0 /\ taker' \in Node
  BY MatchFills DEF SInv
<1>2. PICK s \in Side, px \in PriceTicks, maker \in Node, dq \in Nat : Filled(s, px, maker, dq)
  BY MatchFills DEF SInv
<1> DEFINE q == queue[s][px]
           n == q[1]
<1>3. /\ s = Opposite(taker.ord.side)
      /\ px \in levels[s] /\ \A r \in levels[s] : AtLeastAsGood(s, px, r)
      /\ IsLimitCross(taker.ord.side, taker.ord.price, px)
      /\ q \in Seq(Node) /\ q # <<>> /\ n \in Node
      /\ dq = (IF n.leaves <= taker.leaves THEN n.leaves ELSE taker.leaves) /\ dq > 0
      /\ maker.ord = n.ord /\ maker.leaves = n.leaves - dq
      /\ taker'.ord = taker.ord /\ taker'.leaves = taker.leaves - dq
      /\ queue' = [queue EXCEPT ![s][px] =
                      IF maker.leaves = 0 THEN Tail(q) ELSE [q EXCEPT ![1] = maker]]
      /\ out' = <<TradeReport(taker', dq, px), TradeReport(maker, dq, px)>>
  BY <1>2 DEF Filled
<1>4. 1 \in DOMAIN q /\ DOMAIN q = 1 .. Len(q) /\ Len(q) \in Nat
  <2>1. q \in Seq(Node) /\ q # <<>>
    BY <1>3
  <2> HIDE DEF q
  <2> QED BY <2>1, LenProperties, EmptySeq
<1>5. /\ queue \in Book /\ Kept(queue) /\ n.ord.side = s /\ n.ord.price = px
      /\ SeenResting = View(queue) /\ SeenResting' = View(queue')
  BY <1>4, BookKept DEF SInv, Kept
<1>6. InOrder(q) /\ \A i \in DOMAIN q : q[i].ord.order_id \in Nat
  BY DEF SInv, NewOnly, Numbered
<1>7. SeenResting' = (SeenResting \ {Seen(n)}) \cup (IF maker.leaves = 0 THEN {} ELSE {Seen(maker)})
  <2>1. CASE maker.leaves = 0
    <3>1. queue' = [queue EXCEPT ![s][px] = Tail(q)]
      BY <1>3, <2>1
    <3>2. queue \in Book /\ Kept(queue) /\ queue[s][px] # <<>> /\ InOrder(queue[s][px])
          /\ \A i \in DOMAIN queue[s][px] : queue[s][px][i].ord.order_id \in Nat
      BY <1>3, <1>5, <1>6
    <3>3. View(queue') = View(queue) \ {Seen(n)}
      BY <3>1, <3>2, ViewPopped
    <3> QED BY <3>3, <2>1, <1>5
  <2>2. CASE maker.leaves # 0
    <3> DEFINE e == [q EXCEPT ![1] = maker]
    <3>1. /\ queue'[s][px] = e
          /\ \A t \in Side, r \in PriceTicks : (t # s \/ r # px) => queue'[t][r] = queue[t][r]
      BY <1>3, <1>5, <2>2 DEF Book
    <3>2. /\ DOMAIN e = DOMAIN queue[s][px] /\ e[1] = maker
          /\ \A i \in DOMAIN queue[s][px] : i # 1 => e[i] = queue[s][px][i]
      BY <1>4
    <3>3. queue \in Book /\ Kept(queue) /\ queue[s][px] # <<>> /\ InOrder(queue[s][px])
          /\ \A i \in DOMAIN queue[s][px] : queue[s][px][i].ord.order_id \in Nat
      BY <1>3, <1>5, <1>6
    <3> HIDE DEF e
    <3>4. View(queue') = (View(queue) \ {Seen(queue[s][px][1])}) \cup {Seen(maker)}
      BY <3>1, <3>2, <3>3, ViewFilled
    <3> QED BY <3>4, <2>2, <1>5
  <2> QED BY <2>1, <2>2
<1>8. /\ SeenActive = Seen(taker) /\ SeenActive # NoNode /\ SeenActive' = Seen(taker')
      /\ SeenActive' = PT!Less(SeenActive, dq)
  <2>1. taker # NoNode /\ taker' # NoNode
    BY <1>1, ConstantsAssumption
  <2>2. SeenActive = Seen(taker) /\ SeenActive' = Seen(taker')
    BY <2>1 DEF SeenActive
  <2>3. Seen(taker) # NoNode
    BY <1>1, SeenTyped
  <2>4. Seen(taker') = PT!Less(Seen(taker), dq)
    <3>1. /\ taker \in Node /\ taker' \in Node /\ taker'.ord = taker.ord
          /\ taker'.leaves = taker.leaves - dq
      BY <1>1, <1>3
    <3> QED BY <3>1, SeenLess
  <2> QED BY <2>2, <2>3, <2>4
<1>9. SeenTrade' = [taker |-> Seen(taker).id, maker |-> Seen(n).id, px |-> Seen(n).px,
                    qty |-> dq, left |-> Seen(n).leaves - dq]
  <2>1. /\ TradeReport(taker', dq, px).order_id = taker.ord.order_id
        /\ TradeReport(maker, dq, px).order_id = n.ord.order_id
        /\ TradeReport(maker, dq, px).last_px = px
        /\ TradeReport(maker, dq, px).last_qty = dq
        /\ TradeReport(maker, dq, px).leaves_qty = n.leaves - dq
    BY <1>3 DEF TradeReport, Report
  <2>2. Len(out') = 2 /\ out'[1] = TradeReport(taker', dq, px) /\ out'[2] = TradeReport(maker, dq, px)
    BY <1>3
  <2> HIDE DEF n
  <2> QED BY <2>1, <2>2, <1>5 DEF SeenTrade, Seen
<1>10. PT!Crosses(Seen(taker), Seen(n))
  <2>1. NoPrice = 0 /\ px \in Nat /\ taker.ord.price \in Nat
    BY <1>1, ConstantsAssumption, SeenTyped DEF NoPrice, PriceTicks
  <2>2. s # taker.ord.side
    BY <1>1, <1>3, OppositeSide
  <2>3. \/ taker.ord.price = NoPrice
        \/ (IF taker.ord.side = "Bid" THEN taker.ord.price >= px ELSE taker.ord.price <= px)
    <3>1. CASE px # NoPrice
      BY <1>3, <3>1 DEF IsLimitCross
    <3>2. CASE px = NoPrice
      \* A bid of no price would cross every offer here, and PriceTimeBook's would not.
      <4>1. s # "Bid"
        BY <1>3, <3>2 DEF SInv, NewOnly
      <4>2. taker.ord.side = "Bid"
        BY <1>1, <1>2, <2>2, <4>1 DEF Side
      <4> QED BY <2>1, <3>2, <4>2
    <3> QED BY <3>1, <3>2
  <2> HIDE DEF n
  <2> QED BY <2>2, <2>3, <1>5 DEF PT!Crosses, Seen
<1>11. ASSUME NEW x \in SeenResting \ {Seen(n)}, x.side = Seen(n).side
       PROVE  PT!Before(Seen(n), x)
  <2>1. PICK t \in Side, r \in PriceTicks : \E i \in DOMAIN queue[t][r] : x = Seen(queue[t][r][i])
    BY <1>5, InView
  <2>2. PICK i \in DOMAIN queue[t][r] : x = Seen(queue[t][r][i])
    BY <2>1
  <2>3. x.side = t /\ x.px = r /\ x.id = queue[t][r][i].ord.order_id
    <3>1. queue[t][r][i].ord.side = t /\ queue[t][r][i].ord.price = r
      BY <1>5 DEF Kept
    <3> QED BY <2>2, <3>1 DEF Seen
  <2>4. Seen(n).side = s /\ Seen(n).px = px /\ Seen(n).id = n.ord.order_id
    BY <1>5 DEF Seen
  <2>5. t = s
    BY <1>11, <2>3, <2>4
  <2>6. CASE r = px
    <3>1. i \in DOMAIN q /\ i # 1
      BY <2>2, <2>5, <2>6, <1>11
    <3>2. 1 < i
      <4> HIDE DEF q
      <4> QED BY <3>1, <1>4
    <3>3. n.ord.order_id < q[i].ord.order_id
      BY <3>1, <3>2, <1>4, <1>6 DEF InOrder
    <3> QED BY <3>3, <2>3, <2>4, <2>5, <2>6 DEF PT!Before
  <2>7. CASE r # px
    <3>1. r \in levels[s]
      <4>1. queue[t][r] # <<>>
        <5>1. queue[t][r] \in Seq(Node)
          BY DEF SInv, IInv, TypeOK
        <5>2. DOMAIN queue[t][r] = 1 .. Len(queue[t][r])
          BY <5>1, LenProperties
        <5> QED BY <5>2, <2>2, EmptySeq
      <4> QED BY <4>1, <2>5 DEF SInv, IInv, NoPhantomLevel
    <3>2. r \in Nat /\ px \in Nat
      BY ConstantsAssumption DEF PriceTicks
    <3>3. AtLeastAsGood(s, px, r)
      BY <3>1, <1>3
    <3> QED BY <3>2, <3>3, <2>3, <2>4, <2>5, <2>7 DEF PT!Before, AtLeastAsGood
  <2> QED BY <2>6, <2>7
<1>12. Seen(n) \in SeenResting
  BY <1>4, <1>5, InView
<1>13. /\ Seen(n).leaves = n.leaves /\ Seen(taker).leaves = taker.leaves
       /\ n.leaves \in Nat /\ taker.leaves \in Nat
  BY <1>1, <1>3, SeenTyped DEF Seen
<1>14. dq = IF Seen(n).leaves < Seen(taker).leaves THEN Seen(n).leaves ELSE Seen(taker).leaves
  <2> HIDE DEF n
  <2> QED BY <1>3, <1>13
<1>15. Seen(n).leaves = dq <=> maker.leaves = 0
  <2> HIDE DEF n
  <2> QED BY <1>3, <1>13
<1>16. Seen(maker) = PT!Less(Seen(n), dq)
  <2> HIDE DEF n
  <2> QED BY <1>3, SeenLess
<1>17. SeenResting' = (SeenResting \ {Seen(n)}) \cup
                        (IF Seen(n).leaves = dq THEN {} ELSE {PT!Less(Seen(n), dq)})
  BY <1>7, <1>15, <1>16
<1> DEFINE m == Seen(n)
<1> HIDE DEF n, m
<1>18. /\ m \in SeenResting /\ PT!Crosses(SeenActive, m)
       /\ dq = IF m.leaves < SeenActive.leaves THEN m.leaves ELSE SeenActive.leaves
       /\ \A x \in SeenResting \ {m} : x.side = m.side => PT!Before(m, x)
       /\ SeenResting' = (SeenResting \ {m}) \cup (IF m.leaves = dq THEN {} ELSE {PT!Less(m, dq)})
       /\ SeenTrade' = [taker |-> SeenActive.id, maker |-> m.id, px |-> m.px,
                         qty |-> dq, left |-> m.leaves - dq]
  BY <1>8, <1>9, <1>10, <1>11, <1>12, <1>14, <1>17 DEF m
<1> QED BY <1>3, <1>8, <1>18 DEF PT!Trade

\* A NEW is an arrival: its number is above those of all that rest.
LEMMA NewArrives ==
  ASSUME SInv, commands = {}, NEW o \in Orders, SendNew(o)
  PROVE  PT!Arrive
<1>1. /\ pc = "idle" /\ taker = NoNode /\ o.order_id = nextId /\ Accept(o)
      /\ queue' = queue /\ o \in Order
  BY ConstantsAssumption DEF SendNew, OnNew, SInv, IInv, TypeOK
<1>2. taker' \in Node /\ taker' # NoNode
  BY <1>1, AcceptKeeps
<1>3. SeenActive = NoNode /\ SeenActive' = Seen(taker') /\ SeenActive' # NoNode
  <2>1. SeenActive = NoNode /\ SeenActive' = Seen(taker')
    BY <1>1, <1>2 DEF SeenActive
  <2> QED BY <2>1, <1>2, SeenTyped
<1>4. SeenActive'.id = nextId
  <2>1. taker'.ord = o
    BY <1>1 DEF Accept
  <2>2. Seen(taker').id = taker'.ord.order_id
    BY DEF Seen
  <2> QED BY <2>1, <2>2, <1>1, <1>3
<1>5. SeenTrade' = NoNode
  <2>1. Len(out') = 1
    BY <1>1 DEF Accept
  <2> QED BY <2>1 DEF SeenTrade
<1>6. SeenResting' = SeenResting /\ SeenResting = View(queue)
  BY <1>1, BookKept DEF SInv
<1>7. ASSUME NEW m \in SeenResting PROVE m.id < nextId
  <2>1. PICK t \in Side, r \in PriceTicks : \E i \in DOMAIN queue[t][r] : m = Seen(queue[t][r][i])
    BY <1>6, InView
  <2>2. PICK i \in DOMAIN queue[t][r] : m = Seen(queue[t][r][i])
    BY <2>1
  <2>3. m.id = queue[t][r][i].ord.order_id
    BY <2>2 DEF Seen
  <2>4. Numbered(queue[t][r], nextId)
    BY <1>1 DEF SInv, NewOnly, Horizon
  <2> QED BY <2>2, <2>3, <2>4 DEF Numbered
<1> QED BY <1>3, <1>4, <1>5, <1>6, <1>7 DEF PT!Arrive

\* Where the matching loop ends with something left, nothing that rests crosses.
LEMMA NothingCrosses ==
  ASSUME IInv, taker \in Node, taker.leaves > 0, ~CanMatch, NEW m \in SeenResting
  PROVE  ~PT!Crosses(Seen(taker), m)
<1> DEFINE s == taker.ord.side
           opp == Opposite(s)
<1>1. /\ s \in Side /\ opp \in Side /\ opp # s /\ taker.ord.price \in Nat
      /\ levels[opp] \subseteq PriceTicks /\ PriceTicks \subseteq Nat
  BY OppositeSide, SeenTyped, ConstantsAssumption DEF IInv, TypeOK, PriceTicks
<1>2. PICK t \in Side, r \in PriceTicks : \E i \in DOMAIN queue[t][r] : m = Seen(queue[t][r][i])
  BY BookKept, InView
<1>3. PICK i \in DOMAIN queue[t][r] : m = Seen(queue[t][r][i])
  BY <1>2
<1>4. m.side = t /\ m.px = r
  BY <1>3, BookKept DEF Kept, Seen
<1>5. r \in levels[t]
  <2>1. queue[t][r] # <<>>
    <3>1. queue[t][r] \in Seq(Node)
      BY DEF IInv, TypeOK
    <3>2. DOMAIN queue[t][r] = 1 .. Len(queue[t][r])
      BY <3>1, LenProperties
    <3> QED BY <3>2, <1>3, EmptySeq
  <2> QED BY <2>1 DEF IInv, NoPhantomLevel
<1>6. Seen(taker).side = s /\ Seen(taker).px = taker.ord.price
  BY DEF Seen
<1>7. CASE t = s
  BY <1>4, <1>6, <1>7 DEF PT!Crosses
<1>8. CASE t # s
  <2>1. t = opp
    BY <1>1, <1>8 DEF Side
  <2>2. Best(opp) \in levels[opp] /\ AtLeastAsGood(opp, Best(opp), r)
    BY <1>1, <1>5, <2>1, BestIsBest
  <2>3. ~IsLimitCross(s, taker.ord.price, Best(opp))
    BY <2>2 DEF CanMatch
  <2>4. Best(opp) \in Nat /\ r \in Nat
    BY <1>1, <2>2
  <2>5. /\ taker.ord.price # NoPrice
        /\ ~(IF s = "Bid" THEN taker.ord.price >= r ELSE taker.ord.price <= r)
    BY <1>1, <2>2, <2>3, <2>4 DEF IsLimitCross, AtLeastAsGood, Opposite, Side
  <2> QED BY <2>5, <1>4, <1>6 DEF PT!Crosses
<1> QED BY <1>7, <1>8

\* The end of on_new is the end of the abstract order: what is left of it rests
\* if it has a limit.
LEMMA EndFinishes ==
  ASSUME SInv, Rest \/ Complete \/ Abandon
  PROVE  PT!Finish
<1>1. /\ taker \in Node /\ taker # NoNode /\ ~CanMatch /\ taker' = NoNode
      /\ taker.leaves \in Nat /\ Len(out') # 2
  <2>1. taker \in Node /\ taker # NoNode /\ ~CanMatch /\ taker' = NoNode
    BY DEF Rest, Complete, Abandon, Return, SInv, IInv, TypeOK
  <2>2. out' = <<>> \/ out' = <<Completed>>
    BY DEF Rest, Complete, Abandon
  <2>3. Len(out') # 2
    <3> DEFINE c == Completed
    <3> HIDE DEF c
    <3>1. Len(<<>>) = 0 /\ Len(<<c>>) = 1
      OBVIOUS
    <3> QED BY <2>2, <3>1 DEF c
  <2>4. taker.leaves \in Nat
    BY <2>1, SeenTyped
  <2> QED BY <2>1, <2>3, <2>4
<1>2. SeenActive = Seen(taker) /\ SeenActive # NoNode /\ SeenActive' = NoNode
  BY <1>1, SeenTyped DEF SeenActive
<1>3. SeenTrade' = NoNode
  BY <1>1 DEF SeenTrade
<1>4. SeenActive.leaves = taker.leaves /\ SeenActive.limit = ~IsMarket(taker.ord)
  BY <1>2 DEF Seen
<1>5. SeenActive.leaves = 0 \/ \A m \in SeenResting : ~PT!Crosses(SeenActive, m)
  <2>1. CASE taker.leaves = 0
    BY <2>1, <1>4
  <2>2. CASE taker.leaves # 0
    <3>1. taker.leaves > 0
      BY <1>1, <2>2
    <3> QED BY <3>1, <1>1, <1>2, NothingCrosses DEF SInv
  <2> QED BY <2>1, <2>2
<1>6. SeenResting' = SeenResting \cup
                       (IF SeenActive.leaves > 0 /\ SeenActive.limit THEN {SeenActive} ELSE {})
  <2>1. CASE Rest
    <3> DEFINE s == taker.ord.side
               px == taker.ord.price
    <3>1. /\ taker.leaves > 0 /\ ~IsMarket(taker.ord)
          /\ queue' = [queue EXCEPT ![s][px] = Append(queue[s][px], taker)]
      BY <2>1 DEF Rest, HasLeft, Enqueue, PutLast
    <3>2. s \in Side /\ px \in PriceTicks /\ queue \in Book
      BY <1>1, BookKept DEF SInv, Node, Order
    <3> HIDE DEF s, px
    <3>3. /\ queue'[s][px] = Append(queue[s][px], taker)
          /\ \A t \in Side, r \in PriceTicks : (t # s \/ r # px) => queue'[t][r] = queue[t][r]
      BY <3>1, <3>2 DEF Book
    <3>4. View(queue') = View(queue) \cup {Seen(taker)}
      BY <3>2, <3>3, <1>1, ViewAppended
    <3> QED BY <3>1, <3>4, <1>2, <1>4, BookKept DEF SInv
  <2>2. CASE Complete \/ Abandon
    <3>1. queue' = queue /\ ~(taker.leaves > 0 /\ ~IsMarket(taker.ord))
      BY <2>2 DEF Complete, Abandon, book
    <3> QED BY <3>1, <1>4, BookKept DEF SInv
  <2> QED BY <2>1, <2>2
<1> QED BY <1>2, <1>3, <1>5, <1>6 DEF PT!Finish

-----------------------------------------------------------------------------
(* The invariant of a session *)

\* A step of a session is a step of the engine.
LEMMA SessionStepIsStep == ASSUME SessionNext PROVE Next
<1>1. CASE \E o \in Orders : SendNew(o)
  BY <1>1 DEF SendNew, Next
<1>2. CASE \E id \in OrderId : SendCancel(id)
  BY <1>2 DEF SendCancel, Next
<1>3. ASSUME NEW id \in OrderId, NEW px \in EditedPrices, NEW qty \in NewQtys,
             SendReplace(id, px, qty)
      PROVE  Next
  <2>1. px \in PriceTicks
    BY CommandsAssumption
  <2> QED BY <1>3, <2>1 DEF SendReplace, Next
<1> QED BY <1>1, <1>2, <1>3 DEF SessionNext, Next

\* A bid that is to rest has a price.
BidsPriced == \A o \in Orders : o.side = "Bid" /\ o.price = NoPrice => IsMarket(o)

\* A NEW keeps the deques in arrival order, and raises the horizon.
LEMMA NewKeepsOrder ==
  ASSUME SInv, commands = {}, NEW o \in Orders, SendNew(o)
  PROVE  NewOnly'
<1>1. /\ taker = NoNode /\ o.order_id = nextId /\ Accept(o) /\ nextId \in Nat
      /\ queue' = queue /\ replacing' = replacing /\ o \in Order /\ nextId' = nextId + 1
  BY ConstantsAssumption DEF SendNew, OnNew, SInv, IInv, TypeOK
<1>2. taker' # NoNode /\ taker'.ord = o
  BY <1>1, AcceptKeeps DEF Accept
<1>3. Horizon = nextId /\ Horizon' = nextId
  BY <1>1, <1>2 DEF Horizon
<1>4. NewOnly
  BY DEF SInv
<1>5. \A s \in Side, p \in PriceTicks :
        Numbered(queue'[s][p], Horizon') /\ InOrder(queue'[s][p])
  BY <1>1, <1>3, <1>4 DEF NewOnly
<1>6. Horizon' \in Nat /\ Horizon' < nextId' /\ Horizon' <= nextId'
  BY <1>1, <1>3
<1> QED BY <1>1, <1>2, <1>4, <1>5, <1>6 DEF NewOnly

\* A fill keeps the deques in arrival order, and the horizon.
LEMMA MatchKeepsOrder ==
  ASSUME SInv, commands = {}, Match, nextId' = nextId
  PROVE  NewOnly'
<1>1. taker \in Node /\ taker' \in Node /\ UNCHANGED <<pc, replacing>>
  BY MatchFills DEF SInv
<1>2. PICK s \in Side, px \in PriceTicks, maker \in Node, dq \in Nat : Filled(s, px, maker, dq)
  BY MatchFills DEF SInv
<1> DEFINE q == queue[s][px]
           r == IF maker.leaves = 0 THEN Tail(q) ELSE [q EXCEPT ![1] = maker]
<1>3. /\ q \in Seq(Node) /\ q # <<>> /\ maker.ord = q[1].ord /\ taker'.ord = taker.ord
      /\ queue' = [queue EXCEPT ![s][px] = r]
  BY <1>2 DEF Filled
<1>4. /\ NewOnly /\ queue \in Book
  BY BookKept DEF SInv
<1>5. Horizon' = Horizon /\ taker # NoNode /\ taker' # NoNode
  BY <1>1, <1>3, ConstantsAssumption DEF Horizon
<1>6. Numbered(r, Horizon) /\ InOrder(r)
  <2>1. Numbered(q, Horizon) /\ InOrder(q)
    BY <1>4 DEF NewOnly
  <2> HIDE DEF q
  <2> QED BY <2>1, <1>3, PoppedInOrder, FilledInOrder
<1>7. /\ queue'[s][px] = r
      /\ \A t \in Side, p \in PriceTicks : (t # s \/ p # px) => queue'[t][p] = queue[t][p]
  <2> HIDE DEF r
  <2> QED BY <1>3, <1>4 DEF Book
<1>8. \A t \in Side, p \in PriceTicks :
        Numbered(queue'[t][p], Horizon') /\ InOrder(queue'[t][p])
  <2> HIDE DEF r, q
  <2> QED BY <1>4, <1>5, <1>6, <1>7 DEF NewOnly
<1>9. queue'["Bid"][NoPrice] = <<>>
  <2>1. s # "Bid" \/ px # NoPrice
    BY <1>3, <1>4 DEF NewOnly
  <2>2. queue'["Bid"][NoPrice] = queue["Bid"][NoPrice]
    BY <2>1, <1>7, NoPriceIsAPrice DEF Side
  <2> QED BY <2>2, <1>4 DEF NewOnly
<1> QED BY <1>1, <1>3, <1>4, <1>5, <1>8, <1>9 DEF NewOnly

\* What rests at the end of on_new is younger than all that rested before.
LEMMA RestKeepsOrder ==
  ASSUME SInv, commands = {}, BidsPriced, Rest, nextId' = nextId
  PROVE  NewOnly'
<1> DEFINE s  == taker.ord.side
           px == taker.ord.price
           q  == queue[s][px]
           r  == Append(q, taker)
<1>1. /\ taker \in Node /\ taker # NoNode /\ taker' = NoNode /\ replacing' = replacing
      /\ s \in Side /\ px \in PriceTicks /\ ~IsMarket(taker.ord) /\ queue \in Book
      /\ NewOnly /\ nextId \in Nat
  BY BookKept DEF Rest, Return, SInv, IInv, TypeOK, Node, Order
<1>2. queue' = [queue EXCEPT ![s][px] = r]
  BY DEF Rest, Enqueue, PutLast
<1>3. /\ taker.ord \in Orders /\ Horizon = taker.ord.order_id /\ Horizon < nextId
      /\ Horizon \in Nat /\ Horizon' = nextId
  BY <1>1 DEF NewOnly, Horizon
<1>4. Numbered(r, nextId) /\ InOrder(r)
  <2>1. q \in Seq(Node) /\ Numbered(q, taker.ord.order_id) /\ InOrder(q)
    BY <1>1, <1>3 DEF NewOnly, Book
  <2> HIDE DEF q
  <2> QED BY <2>1, <1>1, <1>3, AppendedInOrder
<1>5. /\ queue'[s][px] = r
      /\ \A t \in Side, p \in PriceTicks : (t # s \/ p # px) => queue'[t][p] = queue[t][p]
  <2> HIDE DEF r
  <2> QED BY <1>1, <1>2 DEF Book
<1>6. ASSUME NEW t \in Side, NEW p \in PriceTicks
      PROVE  Numbered(queue'[t][p], nextId) /\ InOrder(queue'[t][p])
  <2>1. CASE t = s /\ p = px
    BY <2>1, <1>4, <1>5
  <2>2. CASE t # s \/ p # px
    <3>1. queue'[t][p] = queue[t][p] /\ Numbered(queue[t][p], Horizon) /\ InOrder(queue[t][p])
      BY <2>2, <1>1, <1>5 DEF NewOnly
    <3>2. Numbered(queue[t][p], nextId)
      BY <3>1, <1>1, <1>3 DEF Numbered
    <3> QED BY <3>1, <3>2
  <2> QED BY <2>1, <2>2
<1>7. queue'["Bid"][NoPrice] = <<>>
  <2>1. s # "Bid" \/ px # NoPrice
    BY <1>1, <1>3 DEF BidsPriced
  <2>2. queue'["Bid"][NoPrice] = queue["Bid"][NoPrice]
    BY <2>1, <1>5, NoPriceIsAPrice DEF Side
  <2> QED BY <2>2, <1>1 DEF NewOnly
<1> QED BY <1>1, <1>3, <1>6, <1>7 DEF NewOnly

\* A handler that ends without resting leaves the deques as they are.
LEMMA DropKeepsOrder ==
  ASSUME SInv, commands = {}, Complete \/ Abandon, nextId' = nextId
  PROVE  NewOnly'
<1>1. /\ taker # NoNode /\ taker' = NoNode /\ replacing' = replacing /\ queue' = queue
      /\ NewOnly /\ nextId \in Nat
  BY DEF Complete, Abandon, Return, SInv, IInv, TypeOK, book
<1>2. Horizon' = nextId /\ Horizon \in Nat /\ Horizon < nextId
  BY <1>1 DEF NewOnly, Horizon
<1>3. \A s \in Side, p \in PriceTicks :
        Numbered(queue'[s][p], nextId) /\ InOrder(queue'[s][p])
  BY <1>1, <1>2 DEF NewOnly, Numbered
<1> QED BY <1>1, <1>2, <1>3 DEF NewOnly

\* In a session of NEWs the handler that runs is on_new.
LEMMA NewOnlyNeverReplaces ==
  ASSUME SInv, commands = {} PROVE ~PublishReplaced
BY DEF SInv, NewOnly, IInv, TypeOK, PublishReplaced

\* Every step of a session, and every stutter, keeps its invariant.
LEMMA SessionStepKeeps ==
  ASSUME SInv, BidsPriced, [SessionNext]_sessionVars PROVE SInv'
<1>1. CASE UNCHANGED sessionVars
  <2>1. /\ UNCHANGED vars /\ nextId' = nextId /\ commands' = commands /\ queue' = queue
        /\ taker' = taker /\ replacing' = replacing
    BY <1>1 DEF sessionVars, history, vars
  <2>2. IInv'
    BY <2>1, StepKeeps DEF SInv
  <2> QED BY <2>1, <2>2 DEF SInv, NewOnly, Horizon
<1>2. CASE SessionNext
  <2>1. IInv'
    BY <1>2, SessionStepIsStep, StepKeeps DEF SInv
  <2>2. commands' = commands
    BY <1>2 DEF SessionNext
  <2>3. nextId' \in Nat
    BY <1>2 DEF SessionNext, SendNew, SendCancel, SendReplace, SInv
  <2>4. ASSUME commands = {} PROVE NewOnly'
    <3>1. ASSUME NEW o \in Orders, SendNew(o) PROVE NewOnly'
      BY <2>4, <3>1, NewKeepsOrder
    <3>2. CASE Handler /\ nextId' = nextId
      BY <2>4, <3>2, MatchKeepsOrder, RestKeepsOrder, DropKeepsOrder, NewOnlyNeverReplaces
         DEF Handler
    <3> QED BY <1>2, <2>4, <3>1, <3>2 DEF SessionNext, SendCancel, SendReplace
  <2> QED BY <2>1, <2>2, <2>3, <2>4 DEF SInv
<1> QED BY <1>1, <1>2

\* Every session begins in it.
LEMMA SessionInitSInv == SessionInit => SInv
<1> SUFFICES ASSUME SessionInit PROVE SInv
  OBVIOUS
<1>1. /\ IInv /\ nextId = 1 /\ taker = NoNode /\ replacing = NoRequest
      /\ queue = [s \in Side |-> [p \in PriceTicks |-> <<>>]]
  BY InitIInv DEF SessionInit, Init
<1>2. Horizon = 1
  BY <1>1 DEF Horizon
<1>3. \A s \in Side, p \in PriceTicks : queue[s][p] = <<>>
  BY <1>1
<1>4. Numbered(<<>>, 1) /\ InOrder(<<>>)
  BY DEF Numbered, InOrder
<1> QED BY <1>1, <1>2, <1>3, <1>4, NoPriceIsAPrice DEF SInv, NewOnly, Side

\* The invariant holds in every state of every session whose bids, if they are to
\* rest, have a price.
THEOREM SessionInvariance ==
  ASSUME BidsPriced PROVE SessionSpec => []SInv
<1>1. SInv /\ [SessionNext]_sessionVars => SInv'
  BY SessionStepKeeps
<1> QED BY SessionInitSInv, <1>1, PTL DEF SessionSpec

\* on_new by itself, whatever mixture of sizes, limit and market orders sweeps its
\* levels, is a price-time priority book: every trade it publishes is with the
\* best and oldest crossing order for all that both have.  The bids that are to
\* rest must have a price: isLimitCross takes kNoPrice on the other side for a
\* price that everything crosses.
THEOREM NewImplementsPriceTime ==
  ASSUME BidsPriced PROVE SessionSpec => ImplementsPriceTime
<1>1. SessionInit => (commands = {} => PT!Init)
  <2> SUFFICES ASSUME SessionInit PROVE PT!Init
    OBVIOUS
  <2>1. /\ queue = [s \in Side |-> [p \in PriceTicks |-> <<>>]] /\ taker = NoNode /\ out = <<>>
    BY DEF SessionInit, Init
  <2>2. SeenResting = {}
    <3>1. \A s \in Side, p \in PriceTicks : DOMAIN queue[s][p] = {}
      BY <2>1
    <3> QED BY <3>1 DEF SeenResting
  <2> QED BY <2>1, <2>2 DEF PT!Init, SeenActive, SeenTrade
<1>2. ASSUME SInv, [SessionNext]_sessionVars
      PROVE  commands = {} => [PT!Next]_(PT!bookVars)
  <2> SUFFICES ASSUME commands = {} PROVE [PT!Next]_(PT!bookVars)
    OBVIOUS
  <2>1. CASE UNCHANGED sessionVars
    <3>1. queue' = queue /\ taker' = taker /\ out' = out
      BY <2>1 DEF sessionVars, vars
    <3> QED BY <3>1 DEF PT!bookVars, SeenResting, SeenActive, SeenTrade
  <2>2. ASSUME NEW o \in Orders, SendNew(o) PROVE PT!Next
    BY <1>2, <2>2, NewArrives DEF PT!Next
  <2>3. CASE Match
    BY <1>2, <2>3, MatchTrades DEF PT!Next
  <2>4. CASE Rest \/ Complete \/ Abandon
    BY <1>2, <2>4, EndFinishes DEF PT!Next
  <2> QED BY <1>2, <2>1, <2>2, <2>3, <2>4, NewOnlyNeverReplaces
          DEF SessionNext, SendCancel, SendReplace, Handler
<1>3. SInv /\ [SessionNext]_sessionVars
        => [commands = {} => [PT!Next]_(PT!bookVars)]_sessionVars
  BY <1>2
<1> QED BY SessionInvariance, <1>1, <1>3, PTL DEF SessionSpec, ImplementsPriceTime

-----------------------------------------------------------------------------
(* Sums as counts of units *)

\* The units of a function to quantities: as many of each element as its quantity.
Units(f) == UNION {{x} \X (1 .. f[x]) : x \in DOMAIN f}

\* A pair is a unit exactly if its number is within the quantity.
LEMMA UnitsAre ==
  ASSUME NEW S, NEW f \in [S -> Nat]
  PROVE  /\ \A w \in Units(f) : w = <<w[1], w[2]>> /\ w[1] \in S /\ w[2] \in 1 .. f[w[1]]
         /\ \A x \in S : \A u \in 1 .. f[x] : <<x, u>> \in Units(f)
<1>1. ASSUME NEW w \in Units(f) PROVE w = <<w[1], w[2]>> /\ w[1] \in S /\ w[2] \in 1 .. f[w[1]]
  <2>1. PICK x \in S : w \in {x} \X (1 .. f[x])
    BY DEF Units
  <2> QED BY <2>1
<1>2. ASSUME NEW x \in S, NEW u \in 1 .. f[x] PROVE <<x, u>> \in Units(f)
  <2>1. <<x, u>> \in {x} \X (1 .. f[x])
    OBVIOUS
  <2> QED BY <2>1 DEF Units
<1> QED BY <1>1, <1>2

\* Elements that go to different elements with no smaller quantities are no more.
LEMMA UnitsInjected ==
  ASSUME NEW S, NEW T, NEW f \in [S -> Nat], NEW h \in [T -> Nat], IsFiniteSet(Units(f)),
         NEW g, \A t \in T : g[t] \in S /\ h[t] <= f[g[t]],
         \A t, v \in T : g[t] = g[v] => t = v
  PROVE  IsFiniteSet(Units(h)) /\ Cardinality(Units(h)) <= Cardinality(Units(f))
<1> DEFINE F == [w \in Units(h) |-> <<g[w[1]], w[2]>>]
<1>1. ASSUME NEW w \in Units(h) PROVE F[w] \in Units(f) /\ F[w][1] = g[w[1]] /\ F[w][2] = w[2]
  <2>1. w[1] \in T /\ w[2] \in 1 .. h[w[1]]
    BY UnitsAre
  <2>2. g[w[1]] \in S /\ w[2] \in 1 .. f[g[w[1]]]
    BY <2>1
  <2> QED BY <2>2, UnitsAre
<1>2. ASSUME NEW w \in Units(h), NEW x \in Units(h), F[w] = F[x] PROVE w = x
  <2>1. w[1] \in T /\ x[1] \in T /\ w = <<w[1], w[2]>> /\ x = <<x[1], x[2]>>
    BY UnitsAre
  <2>2. g[w[1]] = g[x[1]] /\ w[2] = x[2]
    BY <1>1, <1>2
  <2> QED BY <2>1, <2>2
<1>3. F \in Injection(Units(h), Units(f))
  <2>1. F \in [Units(h) -> Units(f)]
    BY <1>1
  <2> QED BY <2>1, <1>2 DEF Injection, IsInjective
<1> HIDE DEF F
<1> QED BY <1>3, FS_Injection

\* One element more adds its quantity.
LEMMA UnitsAdded ==
  ASSUME NEW S, NEW f \in [S -> Nat], IsFiniteSet(Units(f)), NEW x, x \notin S,
         NEW h \in [S \cup {x} -> Nat], \A y \in S : h[y] = f[y]
  PROVE  IsFiniteSet(Units(h)) /\ Cardinality(Units(h)) = Cardinality(Units(f)) + h[x]
<1> DEFINE N == {x} \X (1 .. h[x])
           F == [u \in 1 .. h[x] |-> <<x, u>>]
<1>1. h[x] \in Nat
  OBVIOUS
<1>2. IsFiniteSet(1 .. h[x]) /\ Cardinality(1 .. h[x]) = h[x]
  BY <1>1, FS_Interval
<1>3. F \in Bijection(1 .. h[x], N)
  <2>1. F \in [1 .. h[x] -> N] /\ \A u, v \in 1 .. h[x] : F[u] = F[v] => u = v
    OBVIOUS
  <2>2. \A n \in N : \E u \in 1 .. h[x] : F[u] = n
    OBVIOUS
  <2> QED BY <2>1, <2>2 DEF Bijection, Injection, Surjection, IsInjective
<1>4. IsFiniteSet(N) /\ Cardinality(N) = h[x]
  <2>1. ExistsBijection(1 .. h[x], N)
    BY <1>3 DEF ExistsBijection
  <2> QED BY <1>2, <2>1, FS_Bijection
<1>5. Units(h) = Units(f) \cup N
  <2>1. ASSUME NEW w \in Units(h) PROVE w \in Units(f) \cup N
    <3>1. w = <<w[1], w[2]>> /\ w[1] \in S \cup {x} /\ w[2] \in 1 .. h[w[1]]
      BY UnitsAre
    <3>2. CASE w[1] \in S
      BY <3>1, <3>2, UnitsAre
    <3>3. CASE w[1] = x
      BY <3>1, <3>3
    <3> QED BY <3>1, <3>2, <3>3
  <2>2. ASSUME NEW w \in Units(f) PROVE w \in Units(h)
    <3>1. w = <<w[1], w[2]>> /\ w[1] \in S /\ w[2] \in 1 .. f[w[1]]
      BY UnitsAre
    <3>2. w[1] \in S \cup {x} /\ w[2] \in 1 .. h[w[1]]
      BY <3>1
    <3> QED BY <3>1, <3>2, UnitsAre
  <2>3. ASSUME NEW w \in N PROVE w \in Units(h)
    BY UnitsAre
  <2> QED BY <2>1, <2>2, <2>3
<1>6. Units(f) \cap N = {}
  BY UnitsAre
<1>7. Cardinality(Units(f)) \in Nat
  BY FS_CardinalityType
<1> HIDE DEF N
<1>8. /\ IsFiniteSet(Units(f) \cup N)
      /\ Cardinality(Units(f) \cup N) = Cardinality(Units(f)) + Cardinality(N) - Cardinality({})
  <2> DEFINE U == Units(f)
  <2>1. IsFiniteSet(U) /\ IsFiniteSet(N) /\ U \cap N = {}
    BY <1>4, <1>6
  <2> HIDE DEF U
  <2>2. /\ IsFiniteSet(U \cup N)
        /\ Cardinality(U \cup N) = Cardinality(U) + Cardinality(N) - Cardinality(U \cap N)
    BY <2>1, FS_Union
  <2> QED BY <2>1, <2>2 DEF U
<1> QED BY <1>1, <1>4, <1>5, <1>7, <1>8, FS_EmptySet

\* The same, where moreover one element is left with a given quantity less.
LEMMA UnitsLost ==
  ASSUME NEW S, NEW T, NEW f \in [S -> Nat], NEW h \in [T -> Nat], IsFiniteSet(Units(f)),
         NEW x \in S, NEW d \in Nat, d <= f[x],
         NEW g, \A t \in T : g[t] \in S /\ h[t] <= f[g[t]],
         \A t \in T : g[t] = x => h[t] + d <= f[x],
         \A t, v \in T : g[t] = g[v] => t = v
  PROVE  IsFiniteSet(Units(h)) /\ Cardinality(Units(h)) + d <= Cardinality(Units(f))
<1> DEFINE R == S \ {x}
           fr == [y \in R |-> f[y]]
           e == [y \in S |-> IF y = x THEN f[x] - d ELSE f[y]]
<1>1. fr \in [R -> Nat] /\ e \in [S -> Nat] /\ S = R \cup {x} /\ x \notin R
  <2>1. f[x] - d \in Nat
    OBVIOUS
  <2> QED BY <2>1
<1>2. IsFiniteSet(Units(fr))
  <2>1. \A w \in Units(fr) : w \in Units(f)
    <3> SUFFICES ASSUME NEW w \in Units(fr) PROVE w \in Units(f)
      OBVIOUS
    <3>1. w = <<w[1], w[2]>> /\ w[1] \in R /\ w[2] \in 1 .. fr[w[1]]
      BY <1>1, UnitsAre
    <3> QED BY <3>1, UnitsAre
  <2> QED BY <2>1, FS_Subset
<1>3. /\ Cardinality(Units(f)) = Cardinality(Units(fr)) + f[x]
      /\ IsFiniteSet(Units(e)) /\ Cardinality(Units(e)) = Cardinality(Units(fr)) + (f[x] - d)
  <2>1. \A y \in R : f[y] = fr[y] /\ e[y] = fr[y]
    OBVIOUS
  <2>2. e[x] = f[x] - d
    OBVIOUS
  <2> HIDE DEF fr, e, R
  <2>3. f \in [R \cup {x} -> Nat] /\ e \in [R \cup {x} -> Nat]
    BY <1>1
  <2>4. Cardinality(Units(f)) = Cardinality(Units(fr)) + f[x]
    BY <1>1, <1>2, <2>1, <2>3, UnitsAdded
  <2>5. IsFiniteSet(Units(e)) /\ Cardinality(Units(e)) = Cardinality(Units(fr)) + e[x]
    BY <1>1, <1>2, <2>1, <2>3, UnitsAdded
  <2> QED BY <2>2, <2>4, <2>5
<1>4. \A t \in T : g[t] \in S /\ h[t] <= e[g[t]]
  OBVIOUS
<1> HIDE DEF e, fr
<1>5. IsFiniteSet(Units(h)) /\ Cardinality(Units(h)) <= Cardinality(Units(e))
  BY <1>1, <1>3, <1>4, UnitsInjected
<1>6. /\ Cardinality(Units(h)) \in Nat /\ Cardinality(Units(fr)) \in Nat
  BY <1>2, <1>5, FS_CardinalityType
<1> QED BY <1>3, <1>5, <1>6

\* k sums f over the subsets of S, taking any element first, as MapThenSumSet does.
Sums(k, f, S) == k = [s \in SUBSET S |-> IF s = {} THEN 0
                       ELSE f[CHOOSE x \in s : TRUE] + k[s \ {CHOOSE x \in s : TRUE}]]
\* A function on part of its domain.
Part(f, s) == [x \in s |-> f[x]]

\* The quantities of a part of a finite set are finitely many, and those of one
\* element can be told off.
LEMMA PartSums ==
  ASSUME NEW S, IsFiniteSet(S), NEW f \in [S -> Nat], NEW s \in SUBSET S
  PROVE  /\ IsFiniteSet(Units(Part(f, s)))
         /\ s = {} => Cardinality(Units(Part(f, s))) = 0
         /\ \A x \in s : Cardinality(Units(Part(f, s)))
                           = f[x] + Cardinality(Units(Part(f, s \ {x})))
<1> DEFINE Fin(n) == \E v \in SUBSET S : Cardinality(v) = n /\ ~IsFiniteSet(Units(Part(f, v)))
           Bad == {n \in Nat : Fin(n)}
<1>1. ASSUME NEW v \in SUBSET S
      PROVE  Part(f, v) \in [v -> Nat] /\ IsFiniteSet(v) /\ Cardinality(v) \in Nat
  BY FS_Subset, FS_CardinalityType DEF Part
<1>2. Units(Part(f, {})) = {}
  BY <1>1, UnitsAre
<1>3. ASSUME NEW v \in SUBSET S, NEW x \in v, IsFiniteSet(Units(Part(f, v \ {x})))
      PROVE  /\ IsFiniteSet(Units(Part(f, v)))
             /\ Cardinality(Units(Part(f, v))) = f[x] + Cardinality(Units(Part(f, v \ {x})))
  <2> DEFINE w == v \ {x}
             a == Part(f, w)
             b == Part(f, v)
  <2>1. /\ a \in [w -> Nat] /\ b \in [w \cup {x} -> Nat] /\ x \notin w /\ b[x] = f[x]
        /\ \A y \in w : b[y] = a[y]
    <3>1. v = w \cup {x}
      OBVIOUS
    <3> QED BY <1>1, <3>1 DEF Part
  <2> HIDE DEF a, b, w
  <2>2. IsFiniteSet(Units(a))
    BY <1>3 DEF a, w
  <2>3. IsFiniteSet(Units(b)) /\ Cardinality(Units(b)) = Cardinality(Units(a)) + b[x]
    <3>1. x \notin w /\ a \in [w -> Nat] /\ b \in [w \cup {x} -> Nat] /\ \A y \in w : b[y] = a[y]
      BY <2>1
    <3> QED
      <4>1. SUFFICES ASSUME NEW W, W = w, NEW A \in [W -> Nat], A = a, NEW B \in [W \cup {x} -> Nat], B = b,
                            x \notin W, \A y \in W : B[y] = A[y], IsFiniteSet(Units(A))
                     PROVE  IsFiniteSet(Units(B)) /\ Cardinality(Units(B)) = Cardinality(Units(A)) + B[x]
        BY <2>2, <3>1
      <4> HIDE <4>1
      <4> QED BY <4>1, UnitsAdded
  <2>4. Cardinality(Units(a)) \in Nat /\ f[x] \in Nat
    BY <2>2, FS_CardinalityType
  <2>5. Cardinality(Units(b)) = f[x] + Cardinality(Units(a))
    BY <2>1, <2>3, <2>4
  <2> QED BY <2>3, <2>5 DEF a, b, w
<1>4. Bad = {}
  <2> SUFFICES ASSUME Bad # {} PROVE FALSE
    OBVIOUS
  <2>1. PICK n \in Bad : \A m \in Bad : <<m, n>> \notin OpToRel(<, Nat)
    BY NatLessThanWellFounded, WFMin
  <2>2. n \in Nat /\ \A m \in Bad : ~(m < n)
    BY <2>1 DEF OpToRel
  <2>3. PICK v \in SUBSET S : Cardinality(v) = n /\ ~IsFiniteSet(Units(Part(f, v)))
    BY <2>1
  <2>4. v # {}
    BY <1>2, <2>3, FS_EmptySet
  <2>5. PICK x \in v : TRUE
    BY <2>4
  <2>6. v \ {x} \in SUBSET S /\ Cardinality(v \ {x}) = n - 1 /\ Cardinality(v \ {x}) \in Nat
    BY <1>1, <2>3, FS_RemoveElement
  <2>7. IsFiniteSet(Units(Part(f, v \ {x})))
    <3>1. n - 1 < n /\ n - 1 \in Nat
      BY <2>2, <2>6
    <3>2. n - 1 \notin Bad
      BY <2>2, <3>1
    <3> QED BY <2>6, <3>1, <3>2
  <2> QED BY <1>3, <2>3, <2>7
<1>5. \A v \in SUBSET S : IsFiniteSet(Units(Part(f, v)))
  BY <1>1, <1>4
<1> HIDE DEF Bad
<1>6. \A x \in s : s \ {x} \in SUBSET S
  OBVIOUS
<1> QED BY <1>2, <1>3, <1>5, <1>6, FS_EmptySet

\* Such a sum counts the units.
LEMMA SumIsCount ==
  ASSUME NEW S, IsFiniteSet(S), NEW f \in [S -> Nat]
  PROVE  /\ \E k : Sums(k, f, S)
         /\ \A k : Sums(k, f, S) => k[S] = Cardinality(Units(f))
<1> DEFINE h == [s \in SUBSET S |-> Cardinality(Units(Part(f, s)))]
           c(s) == CHOOSE x \in s : TRUE
<1>1. Sums(h, f, S)
  <2>1. ASSUME NEW s \in SUBSET S
        PROVE  h[s] = IF s = {} THEN 0 ELSE f[c(s)] + h[s \ {c(s)}]
    <3>1. s # {} => c(s) \in s /\ s \ {c(s)} \in SUBSET S
      OBVIOUS
    <3> HIDE DEF c
    <3> QED BY <3>1, PartSums
  <2> QED BY <2>1 DEF Sums
<1>2. ASSUME NEW k, Sums(k, f, S) PROVE k[S] = h[S]
  <2> DEFINE Bad == {n \in Nat : \E s \in SUBSET S : Cardinality(s) = n /\ k[s] # h[s]}
  <2>1. \A s \in SUBSET S : IsFiniteSet(s) /\ Cardinality(s) \in Nat
    BY FS_Subset, FS_CardinalityType
  <2>2. ASSUME Bad # {} PROVE FALSE
    <3>1. PICK n \in Bad : \A m \in Bad : <<m, n>> \notin OpToRel(<, Nat)
      BY <2>2, NatLessThanWellFounded, WFMin
    <3>2. n \in Nat /\ \A m \in Bad : ~(m < n)
      BY <3>1 DEF OpToRel
    <3>3. PICK s \in SUBSET S : Cardinality(s) = n /\ k[s] # h[s]
      BY <3>1
    <3> HIDE DEF h
    <3>4. /\ k[s] = IF s = {} THEN 0 ELSE f[c(s)] + k[s \ {c(s)}]
          /\ h[s] = IF s = {} THEN 0 ELSE f[c(s)] + h[s \ {c(s)}]
      BY <1>1, <1>2 DEF Sums
    <3>5. s # {} /\ c(s) \in s
      BY <3>3, <3>4
    <3> DEFINE v == s \ {c(s)}
    <3>6. v \in SUBSET S /\ Cardinality(v) = n - 1 /\ Cardinality(v) \in Nat
      <4> HIDE DEF c
      <4> QED BY <2>1, <3>3, <3>5, FS_RemoveElement
    <3>7. k[v] = h[v]
      <4>1. n - 1 < n /\ n - 1 \in Nat
        BY <3>2, <3>6
      <4>2. n - 1 \notin Bad
        BY <3>2, <4>1
      <4> HIDE DEF v
      <4> QED BY <3>6, <4>1, <4>2
    <3> QED BY <3>3, <3>4, <3>5, <3>7
  <2>3. S \in SUBSET S
    OBVIOUS
  <2> QED BY <2>1, <2>2, <2>3
<1>3. h[S] = Cardinality(Units(f))
  <2>1. Part(f, S) = f
    BY DEF Part
  <2> QED BY <2>1
<1> QED BY <1>1, <1>2, <1>3
\* S has no element but a and b.
Among(S, a, b) == \A x \in S : x = a \/ x = b

\* Then S is finite,
LEMMA FewFinite ==
  ASSUME NEW a, NEW b, NEW S, Among(S, a, b)
  PROVE  IsFiniteSet(S)
<1>1. IsFiniteSet({a}) /\ {a, b} = {a} \cup {b}
  BY FS_Singleton
<1>2. IsFiniteSet({a, b})
  BY <1>1, FS_AddElement
<1>3. S \in SUBSET {a, b}
  BY DEF Among
<1> QED BY <1>2, <1>3, FS_Subset

\* and the units of a function on S are those of a and those of b.
LEMMA CountOfFew ==
  ASSUME NEW a, NEW b, a # b, NEW S, Among(S, a, b), NEW f \in [S -> Nat]
  PROVE  Cardinality(Units(f)) = (IF a \in S THEN f[a] ELSE 0) + (IF b \in S THEN f[b] ELSE 0)
<1>1. IsFiniteSet(S)
  BY FewFinite
<1> DEFINE C == [s \in SUBSET S |-> Cardinality(Units(Part(f, s)))]
<1>2. ASSUME NEW s \in SUBSET S PROVE /\ s = {} => C[s] = 0
                                      /\ \A x \in s : C[s] = f[x] + C[s \ {x}]
  <2>1. \A x \in s : s \ {x} \in SUBSET S
    OBVIOUS
  <2> QED BY <1>1, <2>1, PartSums
<1>3. Part(f, S) = f
  BY DEF Part
<1>4. C[S] = Cardinality(Units(f))
  BY <1>3
<1> HIDE DEF C
<1>5. C[{}] = 0
  BY <1>2
<1>6. ASSUME NEW x \in S PROVE C[{x}] = f[x] /\ f[x] \in Nat
  <2>1. {x} \ {x} = {} /\ {x} \in SUBSET S /\ x \in {x} /\ f[x] \in Nat
    OBVIOUS
  <2>2. C[{x}] = f[x] + C[{x} \ {x}]
    BY <1>2, <2>1
  <2> QED BY <2>1, <2>2, <1>5
<1>7. CASE a \in S /\ b \in S
  <2>1. S \ {a} = {b} /\ S \in SUBSET S
    BY <1>7 DEF Among
  <2>2. C[S] = f[a] + C[{b}]
    BY <1>2, <1>7, <2>1
  <2> QED BY <2>2, <1>4, <1>6, <1>7
<1>8. CASE a \in S /\ b \notin S
  <2>1. S = {a}
    BY <1>8 DEF Among
  <2> QED BY <2>1, <1>4, <1>6, <1>8
<1>9. CASE a \notin S /\ b \in S
  <2>1. S = {b}
    BY <1>9 DEF Among
  <2> QED BY <2>1, <1>4, <1>6, <1>9
<1>10. CASE a \notin S /\ b \notin S
  <2>1. S = {}
    BY <1>10 DEF Among
  <2> QED BY <2>1, <1>4, <1>5, <1>10
<1> QED BY <1>7, <1>8, <1>9, <1>10

\* x joins S and makes it T.
Joins(x, S, T) == T = S \cup {x} /\ x \notin S

\* The same, for the set that x joins.
LEMMA UnitsJoined ==
  ASSUME NEW S, NEW T, NEW x, Joins(x, S, T),
         NEW f \in [S -> Nat], IsFiniteSet(Units(f)),
         NEW h \in [T -> Nat], \A y \in S : h[y] = f[y]
  PROVE  IsFiniteSet(Units(h)) /\ Cardinality(Units(h)) = Cardinality(Units(f)) + h[x]
<1>1. h \in [S \cup {x} -> Nat] /\ x \notin S
  BY DEF Joins
<1> QED BY <1>1, UnitsAdded

-----------------------------------------------------------------------------
(* What the reports add up to *)

\* What a set of reports adds to the quantity traded, and to that accepted.
SumQty(rs, S) == MapThenSumSet(LAMBDA i : rs[i].last_qty, S)
SumLeaves(rs, S) == MapThenSumSet(LAMBDA i : rs[i].leaves_qty, S)

\* The two sums of Observe, as counts.
LEMMA ReportSums ==
  ASSUME NEW rs, NEW S, IsFiniteSet(S),
         \A i \in S : rs[i].last_qty \in Nat /\ rs[i].leaves_qty \in Nat
  PROVE  /\ SumQty(rs, S) = Cardinality(Units([i \in S |-> rs[i].last_qty]))
         /\ SumLeaves(rs, S) = Cardinality(Units([i \in S |-> rs[i].leaves_qty]))
<1> DEFINE c(s) == CHOOSE x \in s : TRUE
           P(g) == g = [s \in SUBSET S |-> IF s = {} THEN 0 ELSE rs[c(s)].last_qty + g[s \ {c(s)}]]
           k == CHOOSE g : P(g)
           R(g) == g = [s \in SUBSET S |-> IF s = {} THEN 0 ELSE rs[c(s)].leaves_qty + g[s \ {c(s)}]]
           l == CHOOSE g : R(g)
           f == [i \in S |-> rs[i].last_qty]
           e == [i \in S |-> rs[i].leaves_qty]
<1>1. SumQty(rs, S) = k[S]
  BY DEF SumQty, MapThenSumSet, MapThenFoldSet
<1>2. SumLeaves(rs, S) = l[S]
  BY DEF SumLeaves, MapThenSumSet, MapThenFoldSet
<1>3. f \in [S -> Nat] /\ e \in [S -> Nat]
  OBVIOUS
<1>4. ASSUME NEW g PROVE (P(g) <=> Sums(g, f, S)) /\ (R(g) <=> Sums(g, e, S))
  <2>1. ASSUME NEW s \in SUBSET S, s # {}
        PROVE  f[c(s)] = rs[c(s)].last_qty /\ e[c(s)] = rs[c(s)].leaves_qty
    BY <2>1
  <2> HIDE DEF f, e
  <2> QED BY <2>1 DEF Sums
<1>5. P(k) /\ R(l)
  <2>1. (\E g : P(g)) /\ (\E g : R(g))
    <3> HIDE DEF P, R, f, e
    <3> QED BY <1>3, <1>4, SumIsCount
  <2> HIDE DEF P, R
  <2> QED BY <2>1
<1> HIDE DEF P, R, k, l, f, e
<1>6. k[S] = Cardinality(Units(f)) /\ l[S] = Cardinality(Units(e))
  BY <1>3, <1>4, <1>5, SumIsCount
<1> QED BY <1>1, <1>2, <1>6 DEF f, e

\* The sums over one report, or two,
LEMMA SumsOfFew ==
  ASSUME NEW rs, NEW a, NEW b, a # b, NEW S, Among(S, a, b),
         \A i \in S : rs[i].last_qty \in Nat /\ rs[i].leaves_qty \in Nat
  PROVE  /\ SumQty(rs, S) = (IF a \in S THEN rs[a].last_qty ELSE 0) + (IF b \in S THEN rs[b].last_qty ELSE 0)
         /\ SumLeaves(rs, S) = (IF a \in S THEN rs[a].leaves_qty ELSE 0) + (IF b \in S THEN rs[b].leaves_qty ELSE 0)
<1> DEFINE f == [i \in S |-> rs[i].last_qty]
           e == [i \in S |-> rs[i].leaves_qty]
<1>1. f \in [S -> Nat] /\ e \in [S -> Nat]
  OBVIOUS
<1>2. \A i \in S : f[i] = rs[i].last_qty /\ e[i] = rs[i].leaves_qty
  OBVIOUS
<1> HIDE DEF f, e
<1>3. IsFiniteSet(S)
  BY FewFinite
<1>4. SumQty(rs, S) = Cardinality(Units(f)) /\ SumLeaves(rs, S) = Cardinality(Units(e))
  BY <1>3, ReportSums DEF f, e
<1>5. Cardinality(Units(f)) = (IF a \in S THEN f[a] ELSE 0) + (IF b \in S THEN f[b] ELSE 0)
  BY <1>1, CountOfFew
<1>6. Cardinality(Units(e)) = (IF a \in S THEN e[a] ELSE 0) + (IF b \in S THEN e[b] ELSE 0)
  BY <1>1, CountOfFew
<1> QED BY <1>2, <1>4, <1>5, <1>6

\* which are numbered 1 and 2.
LEMMA FewReports ==
  ASSUME NEW rs, NEW S, \A x \in S : x = 1 \/ x = 2,
         \A i \in S : rs[i].last_qty \in Nat /\ rs[i].leaves_qty \in Nat
  PROVE  /\ SumQty(rs, S) = (IF 1 \in S THEN rs[1].last_qty ELSE 0) + (IF 2 \in S THEN rs[2].last_qty ELSE 0)
         /\ SumLeaves(rs, S) = (IF 1 \in S THEN rs[1].leaves_qty ELSE 0) + (IF 2 \in S THEN rs[2].leaves_qty ELSE 0)
<1>1. ASSUME NEW a, NEW b, a = 1, b = 2
      PROVE  /\ SumQty(rs, S) = (IF a \in S THEN rs[a].last_qty ELSE 0) + (IF b \in S THEN rs[b].last_qty ELSE 0)
             /\ SumLeaves(rs, S) = (IF a \in S THEN rs[a].leaves_qty ELSE 0) + (IF b \in S THEN rs[b].leaves_qty ELSE 0)
  <2>1. a # b /\ Among(S, a, b) /\ \A i \in S : rs[i].last_qty \in Nat /\ rs[i].leaves_qty \in Nat
    BY <1>1 DEF Among
  <2> QED BY <2>1, SumsOfFew
<1> QED BY <1>1

\* What report i of rs adds to the quantity traded, and accepted, under id.
Traded(rs, i, id) ==
  IF i \in DOMAIN rs /\ rs[i].order_id = id /\ rs[i].exec_type = "Trade" THEN rs[i].last_qty ELSE 0
Added(rs, i, id) ==
  IF i \in DOMAIN rs /\ rs[i].order_id = id /\ rs[i].exec_type = "New" THEN rs[i].leaves_qty ELSE 0

\* What a step of the history adds, report by report.
LEMMA Observed ==
  ASSUME Observe, NEW id \in OrderId,
         \A i \in DOMAIN out' : (i = 1 \/ i = 2) /\ out'[i].last_qty \in Nat /\ out'[i].leaves_qty \in Nat
  PROVE  /\ executed'[id] = executed[id] + (Traded(out', 1, id) + Traded(out', 2, id))
         /\ accepted'[id] = accepted[id] + (Added(out', 1, id) + Added(out', 2, id))
<1> DEFINE T == ReportsOf(id, "Trade")
           N == ReportsOf(id, "New")
<1>1. executed'[id] = executed[id] + SumQty(out', T) /\ accepted'[id] = accepted[id] + SumLeaves(out', N)
  BY DEF Observe, SumQty, SumLeaves
<1>2. /\ \A i : i \in T <=> i \in DOMAIN out' /\ out'[i].order_id = id /\ out'[i].exec_type = "Trade"
      /\ \A i : i \in N <=> i \in DOMAIN out' /\ out'[i].order_id = id /\ out'[i].exec_type = "New"
  BY DEF ReportsOf
<1> HIDE DEF T, N
<1>3. /\ \A x \in T : x = 1 \/ x = 2
      /\ \A i \in T : out'[i].last_qty \in Nat /\ out'[i].leaves_qty \in Nat
  BY <1>2
<1>4. /\ \A x \in N : x = 1 \/ x = 2
      /\ \A i \in N : out'[i].last_qty \in Nat /\ out'[i].leaves_qty \in Nat
  BY <1>2
<1>5. SumQty(out', T) = (IF 1 \in T THEN out'[1].last_qty ELSE 0) + (IF 2 \in T THEN out'[2].last_qty ELSE 0)
  BY <1>3, FewReports
<1>6. SumLeaves(out', N) = (IF 1 \in N THEN out'[1].leaves_qty ELSE 0) + (IF 2 \in N THEN out'[2].leaves_qty ELSE 0)
  BY <1>4, FewReports
<1>7. /\ Traded(out', 1, id) = IF 1 \in T THEN out'[1].last_qty ELSE 0
      /\ Traded(out', 2, id) = IF 2 \in T THEN out'[2].last_qty ELSE 0
      /\ Added(out', 1, id) = IF 1 \in N THEN out'[1].leaves_qty ELSE 0
      /\ Added(out', 2, id) = IF 2 \in N THEN out'[2].leaves_qty ELSE 0
  BY <1>2 DEF Traded, Added
<1> QED BY <1>1, <1>5, <1>6, <1>7

\* A step that publishes nothing of a trade leaves what was traded.
LEMMA QuietStep ==
  ASSUME Observe, executed \in [OrderId -> Nat],
         \A i \in DOMAIN out' : i = 1 /\ out'[i].last_qty = 0 /\ out'[i].leaves_qty \in Nat
  PROVE  executed' = executed
<1>1. ASSUME NEW id \in OrderId PROVE executed'[id] = executed[id]
  <2>1. executed'[id] = executed[id] + (Traded(out', 1, id) + Traded(out', 2, id))
    BY Observed
  <2>2. Traded(out', 1, id) = 0 /\ Traded(out', 2, id) = 0
    BY DEF Traded
  <2> QED BY <2>1, <2>2
<1> QED BY <1>1 DEF Observe

\* A fill adds its quantity to what both parties traded, and to nobody else's.
LEMMA FillStep ==
  ASSUME Observe, NEW a, NEW b, out' = <<a, b>>, a.exec_type = "Trade", b.exec_type = "Trade",
         a.last_qty \in Nat, b.last_qty \in Nat, a.leaves_qty \in Nat, b.leaves_qty \in Nat,
         NEW id \in OrderId
  PROVE  /\ executed'[id] = executed[id] + ((IF id = a.order_id THEN a.last_qty ELSE 0)
                                            + (IF id = b.order_id THEN b.last_qty ELSE 0))
         /\ accepted'[id] = accepted[id] + 0
<1>1. out'[1] = a /\ out'[2] = b /\ DOMAIN out' = {1, 2}
  OBVIOUS
<1>2. /\ executed'[id] = executed[id] + (Traded(out', 1, id) + Traded(out', 2, id))
      /\ accepted'[id] = accepted[id] + (Added(out', 1, id) + Added(out', 2, id))
  BY <1>1, Observed
<1>3. /\ Traded(out', 1, id) = IF id = a.order_id THEN a.last_qty ELSE 0
      /\ Traded(out', 2, id) = IF id = b.order_id THEN b.last_qty ELSE 0
      /\ Added(out', 1, id) = 0 /\ Added(out', 2, id) = 0
  BY <1>1 DEF Traded, Added
<1> QED BY <1>2, <1>3

-----------------------------------------------------------------------------
(* What a client is told it has left is what it has left *)

\* What is left of an order and what was traded of it is what was asked for.
Tallies(n, ex, as) == n.leaves + ex[n.ord.order_id] = as[n.ord.order_id]

\* What a session without replaces keeps: the accounts of the taker and of all that
\* rests, the numbers apart, and nothing traded under a number still to come.
NoReplaces ==
  /\ replacing = NoRequest
  /\ Horizon \in Nat /\ Horizon <= nextId
  /\ taker # NoNode => Tallies(taker, executed, asked) /\ Horizon < nextId
  /\ \A s \in Side, p \in PriceTicks : Numbered(queue[s][p], Horizon)
  /\ \A s \in Side, p \in PriceTicks : \A i \in DOMAIN queue[s][p] : Tallies(queue[s][p][i], executed, asked)
  /\ Apart(queue)
  /\ \A id \in OrderId : (id \in Nat /\ id >= nextId) => executed[id] = 0

\* The inductive invariant of the accounts.
AInv ==
  /\ IInv
  /\ nextId \in Nat
  /\ "replace" \notin commands =>
       NoReplaces /\ asked \in [OrderId -> Nat] /\ executed \in [OrderId -> Nat]
  /\ LeavesReported

\* A NEW is the first order of its number, and nothing was traded under it.
LEMMA NewTallies ==
  ASSUME AInv, "replace" \notin commands, NEW o \in Orders, SendNew(o), Observe
  PROVE  /\ NoReplaces' /\ executed' = executed
         /\ \A i \in DOMAIN out' : out'[i].exec_type # "Trade"
<1>1. /\ taker = NoNode /\ o.order_id = nextId /\ Accept(o) /\ nextId \in Nat
      /\ queue' = queue /\ replacing' = replacing /\ o \in Order /\ nextId' = nextId + 1
      /\ asked' = [asked EXCEPT ![nextId] = o.qty] /\ NoReplaces
      /\ nextId \in OrderId /\ o.qty \in Nat
  BY ConstantsAssumption DEF SendNew, OnNew, AInv, IInv, TypeOK, Order, Qty
<1>2. taker' # NoNode /\ taker'.ord = o /\ taker'.leaves = o.qty
  BY <1>1, AcceptKeeps DEF Accept
<1>3. Horizon = nextId /\ Horizon' = nextId
  BY <1>1, <1>2 DEF Horizon
<1>4. \A i \in DOMAIN out' : /\ i = 1 /\ out'[i].exec_type # "Trade"
                             /\ out'[i].last_qty = 0 /\ out'[i].leaves_qty \in Nat
  BY <1>1 DEF Accept, Report
<1>5. executed' = executed
  BY <1>4, QuietStep DEF AInv
<1>6. Tallies(taker', executed', asked')
  BY <1>1, <1>2, <1>5 DEF NoReplaces, Tallies, AInv
<1>7. ASSUME NEW s \in Side, NEW p \in PriceTicks, NEW i \in DOMAIN queue'[s][p]
      PROVE  Tallies(queue[s][p][i], executed', asked')
  <2>1. /\ queue[s][p][i].ord.order_id \in Nat /\ queue[s][p][i].ord.order_id < nextId
        /\ Tallies(queue[s][p][i], executed, asked)
    BY <1>1, <1>3 DEF NoReplaces, Numbered
  <2>2. asked'[queue[s][p][i].ord.order_id] = asked[queue[s][p][i].ord.order_id]
    BY <2>1, <1>1 DEF AInv
  <2> QED BY <2>1, <2>2, <1>1, <1>5 DEF Tallies
<1>8. \A s \in Side, p \in PriceTicks : Numbered(queue'[s][p], Horizon')
  BY <1>1, <1>3 DEF NoReplaces
<1>9. \A id \in OrderId : (id \in Nat /\ id >= nextId') => executed'[id] = 0
  BY <1>1, <1>5 DEF NoReplaces
<1>10. Horizon' \in Nat /\ Horizon' < nextId' /\ Horizon' <= nextId'
  BY <1>1, <1>3
<1> QED BY <1>1, <1>2, <1>4, <1>5, <1>6, <1>7, <1>8, <1>9, <1>10 DEF NoReplaces

\* A fill takes from both parties what it adds to what they traded.
LEMMA MatchTallies ==
  ASSUME AInv, "replace" \notin commands, Match, Observe, UNCHANGED <<nextId, asked>>
  PROVE  /\ NoReplaces' /\ executed' \in [OrderId -> Nat]
         /\ \A i \in DOMAIN out' :
              out'[i].leaves_qty + executed'[out'[i].order_id] = asked'[out'[i].order_id]
<1>1. /\ taker \in Node /\ taker' \in Node /\ taker.leaves > 0 /\ UNCHANGED <<pc, replacing>>
      /\ NoReplaces /\ queue \in Book /\ executed \in [OrderId -> Nat]
      /\ asked \in [OrderId -> Nat] /\ nextId \in Nat
  BY MatchFills, BookKept DEF AInv
<1>2. PICK s \in Side, px \in PriceTicks, maker \in Node, dq \in Nat : Filled(s, px, maker, dq)
  BY MatchFills DEF AInv
<1> DEFINE q == queue[s][px]
           r == IF maker.leaves = 0 THEN Tail(q) ELSE [q EXCEPT ![1] = maker]
           n == q[1]
           A == taker.ord.order_id
           B == n.ord.order_id
<1>3. /\ q \in Seq(Node) /\ q # <<>> /\ n \in Node /\ maker.ord = n.ord /\ taker'.ord = taker.ord
      /\ dq = (IF n.leaves <= taker.leaves THEN n.leaves ELSE taker.leaves)
      /\ maker.leaves = n.leaves - dq /\ taker'.leaves = taker.leaves - dq
      /\ queue' = [queue EXCEPT ![s][px] = r]
      /\ out' = <<TradeReport(taker', dq, px), TradeReport(maker, dq, px)>>
  BY <1>2 DEF Filled
<1>4. 1 \in DOMAIN q
  <2> HIDE DEF q
  <2> QED BY <1>3, LenProperties, EmptySeq
<1>5. taker # NoNode /\ taker' # NoNode /\ Horizon = A /\ Horizon' = A
  BY <1>1, <1>3, ConstantsAssumption DEF Horizon
<1>6. /\ A \in OrderId /\ B \in OrderId /\ A \in Nat /\ B \in Nat /\ B < A /\ A < nextId
      /\ Tallies(taker, executed, asked) /\ Tallies(n, executed, asked)
  BY <1>1, <1>3, <1>4, <1>5 DEF NoReplaces, Numbered, Node, Order
<1>7. /\ queue'[s][px] = r
      /\ \A t \in Side, p \in PriceTicks : (t # s \/ p # px) => queue'[t][p] = queue[t][p]
  <2> HIDE DEF r
  <2> QED BY <1>1, <1>3 DEF Book
<1> DEFINE a == TradeReport(taker', dq, px)
           b == TradeReport(maker, dq, px)
<1>8. /\ a.exec_type = "Trade" /\ a.order_id = A /\ a.last_qty = dq /\ a.leaves_qty = taker'.leaves
      /\ b.exec_type = "Trade" /\ b.order_id = B /\ b.last_qty = dq /\ b.leaves_qty = maker.leaves
  <2>1. \A x, y, z : LET t == TradeReport(x, y, z)
                    IN  /\ t.exec_type = "Trade" /\ t.order_id = x.ord.order_id
                        /\ t.last_qty = y /\ t.last_px = z /\ t.leaves_qty = x.leaves
    BY TradeReportIs
  <2>2. A = taker'.ord.order_id /\ B = maker.ord.order_id
    BY <1>3
  <2> HIDE DEF A, B
  <2> QED BY <2>1, <2>2
<1>9. \A id \in OrderId : executed'[id] = executed[id] + (IF id = A \/ id = B THEN dq ELSE 0)
  <2>1. out' = <<a, b>> /\ A # B
    BY <1>3, <1>6
  <2>2. a.leaves_qty \in Nat /\ b.leaves_qty \in Nat
    BY <1>1, <1>8, SeenTyped
  <2> HIDE DEF a, b, A, B
  <2>3. ASSUME NEW id \in OrderId
        PROVE  executed'[id] = executed[id] + ((IF id = A THEN dq ELSE 0) + (IF id = B THEN dq ELSE 0))
    BY <1>8, <2>1, <2>2, FillStep
  <2> QED BY <2>1, <2>3
<1>10. executed' \in [OrderId -> Nat]
  <2>1. executed' = [id \in OrderId |-> executed'[id]]
    BY DEF Observe
  <2>2. \A id \in OrderId : executed'[id] \in Nat
    <3> HIDE DEF A, B
    <3> QED BY <1>1, <1>9
  <2> QED BY <2>1, <2>2
<1>11. /\ maker.leaves + executed'[B] = asked[B] /\ taker'.leaves + executed'[A] = asked[A]
  <2>1. /\ executed'[A] = executed[A] + dq /\ executed'[B] = executed[B] + dq
        /\ taker.leaves + executed[A] = asked[A] /\ n.leaves + executed[B] = asked[B]
    BY <1>6, <1>9 DEF Tallies
  <2>2. /\ taker.leaves \in Nat /\ n.leaves \in Nat /\ executed[A] \in Nat /\ executed[B] \in Nat
    BY <1>1, <1>3, <1>6, SeenTyped
  <2> HIDE DEF A, B, n
  <2> QED BY <1>3, <2>1, <2>2
<1>12. ASSUME NEW t \in Side, NEW p \in PriceTicks, NEW j \in DOMAIN queue'[t][p]
       PROVE  /\ Tallies(queue'[t][p][j], executed', asked')
              /\ queue'[t][p][j].ord.order_id \in Nat /\ queue'[t][p][j].ord.order_id < A
  <2>1. \/ queue'[t][p][j] = maker
        \/ \E i \in DOMAIN queue[t][p] :
             queue'[t][p][j] = queue[t][p][i] /\ (t # s \/ p # px \/ i # 1)
    <3>1. queue'[s][px] = IF maker.leaves = 0 THEN Tail(queue[s][px])
                          ELSE [queue[s][px] EXCEPT ![1] = maker]
      BY <1>7
    <3>2. queue \in Book /\ queue[s][px] # <<>>
      BY <1>1, <1>3
    <3>3. \A u \in Side, v \in PriceTicks : (u # s \/ v # px) => queue'[u][v] = queue[u][v]
      BY <1>7
    <3> QED BY <3>1, <3>2, <3>3, FillSources
  <2>2. CASE queue'[t][p][j] = maker
    BY <2>2, <1>3, <1>6, <1>11 DEF Tallies
  <2>3. ASSUME NEW i \in DOMAIN queue[t][p], queue'[t][p][j] = queue[t][p][i],
               t # s \/ p # px \/ i # 1
        PROVE  /\ Tallies(queue'[t][p][j], executed', asked')
               /\ queue'[t][p][j].ord.order_id \in Nat /\ queue'[t][p][j].ord.order_id < A
    <3> DEFINE C == queue[t][p][i].ord.order_id
    <3>1. C \in Nat /\ C < A /\ Tallies(queue[t][p][i], executed, asked)
      BY <1>1, <1>5 DEF NoReplaces, Numbered
    <3>2. C # B
      BY <1>1, <1>4, <2>3 DEF NoReplaces, Apart
    <3>3. C \in OrderId
      <4>1. queue[t][p] \in Seq(Node)
        BY <1>1 DEF Book
      <4>2. queue[t][p][i] \in Node
        BY <4>1, ElementOfSeq, LenProperties
      <4> QED BY <4>2 DEF Node, Order
    <3>4. executed'[C] = executed[C]
      <4> HIDE DEF C
      <4>1. executed'[C] = executed[C] + 0 /\ executed[C] \in Nat
        <5>1. C # A
          BY <3>1, <1>6
        <5> QED BY <5>1, <3>2, <3>3, <1>1, <1>9
      <4> QED BY <4>1
    <3> QED BY <3>1, <3>4, <2>3 DEF Tallies
  <2> QED BY <2>1, <2>2, <2>3
<1>13. Tallies(taker', executed', asked')
  BY <1>3, <1>11 DEF Tallies
<1>14. Apart(queue')
  <2>1. \E g : ComesFrom(r, q, g)
    <3>1. n.leaves \in Nat /\ maker.leaves + dq = n.leaves
      <4>1. n.leaves \in Nat
        BY <1>3, SeenTyped
      <4> HIDE DEF n
      <4> QED BY <4>1, <1>3
    <3> HIDE DEF q
    <3> QED BY <1>3, <3>1, PoppedTakes, FilledTakes DEF Takes
  <2>2. Apart(queue)
    BY <1>1 DEF NoReplaces
  <2> HIDE DEF r
  <2>3. PICK g : ComesFrom(queue'[s][px], queue[s][px], g)
    BY <2>1, <1>7
  <2> QED BY <2>2, <2>3, <1>7, StillApart
<1>15. \A id \in OrderId : (id \in Nat /\ id >= nextId') => executed'[id] = 0
  <2> SUFFICES ASSUME NEW id \in OrderId, id \in Nat, id >= nextId PROVE executed'[id] = 0
    OBVIOUS
  <2>1. executed[id] = 0 /\ id # A /\ id # B
    BY <1>1, <1>6 DEF NoReplaces
  <2> HIDE DEF A, B
  <2> QED BY <2>1, <1>9
<1>16. NoReplaces'
  <2>1. \A t \in Side, p \in PriceTicks : Numbered(queue'[t][p], Horizon')
    BY <1>5, <1>12 DEF Numbered
  <2>2. Horizon' \in Nat /\ Horizon' <= nextId' /\ Horizon' < nextId'
    BY <1>1, <1>5, <1>6
  <2> QED BY <1>1, <1>12, <1>13, <1>14, <1>15, <2>1, <2>2 DEF NoReplaces
<1>17. ASSUME NEW i \in DOMAIN out'
       PROVE  out'[i].leaves_qty + executed'[out'[i].order_id] = asked'[out'[i].order_id]
  <2>2. out' = <<a, b>>
    BY <1>3
  <2> HIDE DEF a, b, A, B
  <2>3. out'[i] = a \/ out'[i] = b
    BY <2>2
  <2> QED BY <1>8, <2>3, <1>11
<1> QED BY <1>10, <1>16, <1>17

\* A step that changes no account and lets every resting order be one that rested
\* keeps the accounts.
LEMMA ThinnedTallies ==
  ASSUME AInv, NoReplaces, UNCHANGED <<nextId, asked, executed, replacing, taker>>,
         Apart(queue'),
         \A s \in Side, p \in PriceTicks : \A j \in DOMAIN queue'[s][p] :
           \E i \in DOMAIN queue[s][p] : queue'[s][p][j] = queue[s][p][i]
  PROVE  NoReplaces'
<1>1. Horizon' = Horizon
  BY DEF Horizon
<1>2. ASSUME NEW s \in Side, NEW p \in PriceTicks, NEW j \in DOMAIN queue'[s][p]
      PROVE  /\ Tallies(queue'[s][p][j], executed', asked')
             /\ queue'[s][p][j].ord.order_id \in Nat /\ queue'[s][p][j].ord.order_id < Horizon
  <2>1. PICK i \in DOMAIN queue[s][p] : queue'[s][p][j] = queue[s][p][i]
    OBVIOUS
  <2> QED BY <2>1 DEF NoReplaces, Numbered
<1>3. \A s \in Side, p \in PriceTicks : Numbered(queue'[s][p], Horizon')
  BY <1>1, <1>2 DEF Numbered
<1> QED BY <1>1, <1>2, <1>3 DEF NoReplaces

\* A cancel takes an order out of its deque, be it the wrong one, and changes no
\* account.
LEMMA CancelTallies ==
  ASSUME AInv, "replace" \notin commands, NEW id \in OrderId, SendCancel(id), Observe
  PROVE  /\ NoReplaces' /\ executed' = executed
         /\ \A i \in DOMAIN out' : out'[i].exec_type # "Trade"
<1>1. /\ UNCHANGED <<nextId, asked, taker, replacing>> /\ NoReplaces
      /\ \A i \in DOMAIN out' : /\ i = 1 /\ out'[i].exec_type # "Trade"
                                /\ out'[i].last_qty = 0 /\ out'[i].leaves_qty \in Nat
  BY DEF SendCancel, OnCancel, Crash, AInv, Report
<1>2. executed' = executed
  BY <1>1, QuietStep DEF AInv
<1>3. queue' = queue \/ (loc[id] # NoLoc /\ PullOut(id))
  BY DEF SendCancel, OnCancel, Crash
<1>4. CASE queue' = queue
  BY <1>1, <1>2, <1>4, ThinnedTallies DEF NoReplaces
<1>5. CASE loc[id] # NoLoc /\ PullOut(id)
  <2>1. IInv /\ Apart(queue)
    BY <1>1 DEF AInv, NoReplaces
  <2>2. /\ Apart(queue')
        /\ \A s \in Side, p \in PriceTicks : \A j \in DOMAIN queue'[s][p] :
             \E i \in DOMAIN queue[s][p] : queue'[s][p][j] = queue[s][p][i]
    BY <2>1, <1>5, PulledOut
  <2> QED BY <1>1, <1>2, <2>2, ThinnedTallies
<1> QED BY <1>3, <1>4, <1>5

\* What rests at the end of on_new brings its account with it; what is dropped,
\* or complete, leaves none.
LEMMA EndTallies ==
  ASSUME AInv, "replace" \notin commands, Rest \/ Complete \/ Abandon, Observe,
         UNCHANGED <<nextId, asked>>
  PROVE  /\ NoReplaces' /\ executed' = executed
         /\ \A i \in DOMAIN out' :
              out'[i].leaves_qty + executed'[out'[i].order_id] = asked'[out'[i].order_id]
<1>1. /\ taker \in Node /\ taker # NoNode /\ taker' = NoNode /\ replacing' = replacing
      /\ NoReplaces /\ queue \in Book /\ nextId \in Nat
  BY BookKept DEF Rest, Complete, Abandon, Return, AInv, IInv, TypeOK
<1>2. \A i \in DOMAIN out' : i = 1 /\ out'[i] = Completed /\ taker.leaves = 0
  BY DEF Rest, Complete, Abandon
<1>3. Completed.last_qty = 0 /\ Completed.leaves_qty = 0
      /\ Completed.order_id = taker.ord.order_id
  BY DEF Completed, Report
<1>4. executed' = executed
  BY <1>2, <1>3, QuietStep DEF AInv
<1>5. Tallies(taker, executed, asked)
  BY <1>1 DEF NoReplaces
<1>6. \A i \in DOMAIN out' :
        out'[i].leaves_qty + executed'[out'[i].order_id] = asked'[out'[i].order_id]
  BY <1>2, <1>3, <1>4, <1>5 DEF Tallies
<1>7. Horizon' = nextId /\ Horizon = taker.ord.order_id /\ Horizon \in Nat /\ Horizon < nextId
  BY <1>1 DEF NoReplaces, Horizon
<1>8. ASSUME Apart(queue'),
             \A s \in Side, p \in PriceTicks : \A j \in DOMAIN queue'[s][p] :
               \/ queue'[s][p][j] = taker
               \/ j \in DOMAIN queue[s][p] /\ queue'[s][p][j] = queue[s][p][j]
      PROVE  NoReplaces'
  <2>1. ASSUME NEW s \in Side, NEW p \in PriceTicks, NEW j \in DOMAIN queue'[s][p]
        PROVE  /\ Tallies(queue'[s][p][j], executed', asked')
               /\ queue'[s][p][j].ord.order_id \in Nat /\ queue'[s][p][j].ord.order_id < nextId
    <3>1. CASE queue'[s][p][j] = taker
      BY <3>1, <1>4, <1>5, <1>7
    <3>2. CASE j \in DOMAIN queue[s][p] /\ queue'[s][p][j] = queue[s][p][j]
      <4>1. /\ Tallies(queue[s][p][j], executed, asked)
            /\ queue[s][p][j].ord.order_id \in Nat /\ queue[s][p][j].ord.order_id < Horizon
        BY <3>2, <1>1 DEF NoReplaces, Numbered
      <4> QED BY <4>1, <3>2, <1>1, <1>4, <1>7
    <3> QED BY <1>8, <3>1, <3>2
  <2>2. \A s \in Side, p \in PriceTicks : Numbered(queue'[s][p], Horizon')
    BY <2>1, <1>7 DEF Numbered
  <2> QED BY <1>1, <1>4, <1>7, <1>8, <2>1, <2>2 DEF NoReplaces
<1>9. CASE Rest
  <2> DEFINE s  == taker.ord.side
             px == taker.ord.price
  <2>1. s \in Side /\ px \in PriceTicks
    BY <1>1 DEF Node, Order
  <2>2. queue' = [queue EXCEPT ![s][px] = Append(queue[s][px], taker)]
    BY <1>9 DEF Rest, Enqueue, PutLast
  <2> HIDE DEF s, px
  <2>3. /\ queue'[s][px] = Append(queue[s][px], taker)
        /\ \A t \in Side, p \in PriceTicks : (t # s \/ p # px) => queue'[t][p] = queue[t][p]
    BY <1>1, <2>1, <2>2 DEF Book
  <2>4. \A t \in Side, p \in PriceTicks : \A i \in DOMAIN queue[t][p] :
          queue[t][p][i].ord.order_id # taker.ord.order_id
    BY <1>1, <1>7 DEF NoReplaces, Numbered
  <2>5. /\ Apart(queue')
        /\ \A t \in Side, r \in PriceTicks : \A i \in DOMAIN queue'[t][r] :
             \/ queue'[t][r][i] = taker
             \/ i \in DOMAIN queue[t][r] /\ queue'[t][r][i] = queue[t][r][i]
    <3>1. Apart(queue)
      BY <1>1 DEF NoReplaces
    <3> QED BY <3>1, <1>1, <2>1, <2>3, <2>4, AppendedApart
  <2> QED BY <2>5, <1>8, <1>4, <1>6
<1>10. CASE Complete \/ Abandon
  <2>1. queue' = queue
    BY <1>10 DEF Complete, Abandon, book
  <2>2. Apart(queue')
    BY <2>1, <1>1 DEF NoReplaces
  <2> QED BY <2>1, <2>2, <1>8, <1>4, <1>6
<1> QED BY <1>9, <1>10

\* Every step of a session, and every stutter, keeps the accounts.
LEMMA AccountStepKeeps ==
  ASSUME AInv, [SessionNext]_sessionVars PROVE AInv'
<1>1. CASE UNCHANGED sessionVars
  <2>1. /\ UNCHANGED vars /\ nextId' = nextId /\ commands' = commands /\ queue' = queue
        /\ taker' = taker /\ replacing' = replacing /\ out' = out /\ asked' = asked
        /\ executed' = executed
    BY <1>1 DEF sessionVars, history, vars
  <2>2. IInv'
    BY <2>1, StepKeeps DEF AInv
  <2>3. NoReplaces => NoReplaces'
    BY <2>1 DEF NoReplaces, Horizon
  <2> QED BY <2>1, <2>2, <2>3 DEF AInv, LeavesReported
<1>2. CASE SessionNext
  <2>1. IInv' /\ commands' = commands /\ Observe
    BY <1>2, SessionStepIsStep, StepKeeps DEF AInv, SessionNext
  <2>2. nextId' \in Nat
    BY <1>2 DEF SessionNext, SendNew, SendCancel, SendReplace, AInv
  <2>3. ASSUME "replace" \notin commands PROVE asked' \in [OrderId -> Nat]
    <3>1. ASSUME NEW o \in Orders, SendNew(o) PROVE asked' \in [OrderId -> Nat]
      BY <2>3, <3>1, ConstantsAssumption DEF SendNew, AInv, Order, Qty
    <3> QED BY <1>2, <2>3, <3>1 DEF SessionNext, SendCancel, SendReplace, AInv
  <2>4. ASSUME "replace" \notin commands
        PROVE  NoReplaces' /\ LeavesReported' /\ executed' \in [OrderId -> Nat]
    <3>1. ASSUME NEW o \in Orders, SendNew(o)
          PROVE  NoReplaces' /\ LeavesReported' /\ executed' \in [OrderId -> Nat]
      BY <2>1, <2>4, <3>1, NewTallies DEF LeavesReported, AInv
    <3>2. ASSUME NEW id \in OrderId, SendCancel(id)
          PROVE  NoReplaces' /\ LeavesReported' /\ executed' \in [OrderId -> Nat]
      BY <2>1, <2>4, <3>2, CancelTallies DEF LeavesReported, AInv
    <3>3. CASE Handler /\ UNCHANGED <<nextId, asked>>
      <4>1. ~PublishReplaced
        BY <2>4 DEF AInv, NoReplaces, IInv, TypeOK, PublishReplaced
      <4>2. CASE Match
        BY <2>1, <2>4, <3>3, <4>2, MatchTallies DEF LeavesReported
      <4>3. CASE Rest \/ Complete \/ Abandon
        BY <2>1, <2>4, <3>3, <4>3, EndTallies DEF LeavesReported, AInv
      <4> QED BY <3>3, <4>1, <4>2, <4>3 DEF Handler
    <3> QED BY <1>2, <2>4, <3>1, <3>2, <3>3 DEF SessionNext, SendReplace
  <2>5. "replace" \in commands' => LeavesReported'
    BY DEF LeavesReported
  <2> QED BY <2>1, <2>2, <2>3, <2>4, <2>5 DEF AInv
<1> QED BY <1>1, <1>2

\* Every session begins with empty accounts.
LEMMA SessionInitAInv == SessionInit => AInv
<1> SUFFICES ASSUME SessionInit PROVE AInv
  OBVIOUS
<1>1. /\ IInv /\ nextId = 1 /\ taker = NoNode /\ replacing = NoRequest /\ out = <<>>
      /\ queue = [s \in Side |-> [p \in PriceTicks |-> <<>>]]
      /\ asked = [id \in OrderId |-> 0] /\ executed = [id \in OrderId |-> 0]
  BY InitIInv DEF SessionInit, Init
<1>2. Horizon = 1
  BY <1>1 DEF Horizon
<1>3. \A s \in Side, p \in PriceTicks : queue[s][p] = <<>>
  BY <1>1
<1>4. Numbered(<<>>, 1) /\ Apart(queue)
  BY <1>3 DEF Numbered, Apart
<1> QED BY <1>1, <1>2, <1>3, <1>4 DEF AInv, NoReplaces, LeavesReported

\* Without replaces the leaves_qty of every Trade report is what its order asked
\* for less all that was published as traded under its id, though cancels may
\* take the wrong order out.
THEOREM ReportedLeavesAddUp == SessionSpec => []LeavesReported
<1>1. AInv /\ [SessionNext]_sessionVars => AInv'
  BY AccountStepKeeps
<1>2. AInv => LeavesReported
  BY DEF AInv
<1> QED BY SessionInitAInv, <1>1, <1>2, PTL DEF SessionSpec

-----------------------------------------------------------------------------
(* The units that rest under an id *)

\* The places where orders numbered id rest,
Spots(Q, id) ==
  UNION {{<<s, p, i>> : i \in {i \in DOMAIN Q[s][p] : Q[s][p][i].ord.order_id = id}} :
           s \in Side, p \in PriceTicks}
\* what rests there,
LeavesAt(Q, id) == [at \in Spots(Q, id) |-> Q[at[1]][at[2]][at[3]].leaves]
\* and its units.
Held(Q, id) == Units(LeavesAt(Q, id))

\* A spot is a place of an order numbered id.
IsSpot(Q, id, at) ==
  /\ at = <<at[1], at[2], at[3]>> /\ at[1] \in Side /\ at[2] \in PriceTicks
  /\ at[3] \in DOMAIN Q[at[1]][at[2]] /\ Q[at[1]][at[2]][at[3]].ord.order_id = id

LEMMA SpotsAre ==
  ASSUME NEW Q, NEW id
  PROVE  \A at : at \in Spots(Q, id) <=> IsSpot(Q, id, at)
<1>1. ASSUME NEW at \in Spots(Q, id)
      PROVE  IsSpot(Q, id, at)
  <2>1. PICK s \in Side, p \in PriceTicks :
           at \in {<<s, p, i>> : i \in {i \in DOMAIN Q[s][p] : Q[s][p][i].ord.order_id = id}}
    BY DEF Spots
  <2>2. PICK i \in DOMAIN Q[s][p] : at = <<s, p, i>> /\ Q[s][p][i].ord.order_id = id
    BY <2>1
  <2> QED BY <2>2 DEF IsSpot
<1>2. ASSUME NEW at, IsSpot(Q, id, at)
      PROVE  at \in Spots(Q, id)
  <2> DEFINE At(t, r) == {<<t, r, j>> : j \in {j \in DOMAIN Q[t][r] : Q[t][r][j].ord.order_id = id}}
  <2>1. PICK s \in Side, p \in PriceTicks : at \in At(s, p)
    <3>1. at[1] \in Side /\ at[2] \in PriceTicks /\ at \in At(at[1], at[2])
      BY <1>2 DEF IsSpot
    <3> QED BY <3>1
  <2>2. At(s, p) \in {At(t, r) : t \in Side, r \in PriceTicks}
    OBVIOUS
  <2>3. Spots(Q, id) = UNION {At(t, r) : t \in Side, r \in PriceTicks}
    BY DEF Spots
  <2> HIDE DEF At
  <2> QED BY <2>1, <2>2, <2>3
<1> QED BY <1>1, <1>2

\* What rests at a spot is a quantity.
LEMMA LeavesTyped ==
  ASSUME NEW Q \in Book, NEW id
  PROVE  LeavesAt(Q, id) \in [Spots(Q, id) -> Nat]
<1>1. ASSUME NEW at \in Spots(Q, id) PROVE Q[at[1]][at[2]][at[3]].leaves \in Nat
  <2>1. at[1] \in Side /\ at[2] \in PriceTicks /\ at[3] \in DOMAIN Q[at[1]][at[2]]
    BY SpotsAre DEF IsSpot
  <2>2. Q[at[1]][at[2]] \in Seq(Node)
    BY <2>1 DEF Book
  <2>3. Q[at[1]][at[2]][at[3]] \in Node
    BY <2>1, <2>2, ElementOfSeq, LenProperties
  <2> QED BY <2>3 DEF Node, Qty
<1> QED BY <1>1 DEF LeavesAt

\* Then the book has no more of any id, and d less of that of the order at k.
LEMMA HeldTaken ==
  ASSUME NEW Q \in Book, NEW R \in Book, NEW s \in Side, NEW p \in PriceTicks,
         NEW k \in DOMAIN Q[s][p], NEW d \in Nat, d <= Q[s][p][k].leaves,
         NEW g, Takes(R[s][p], Q[s][p], g, k, d),
         \A t \in Side, r \in PriceTicks : (t # s \/ r # p) => R[t][r] = Q[t][r],
         NEW id, IsFiniteSet(Held(Q, id))
  PROVE  /\ IsFiniteSet(Held(R, id))
         /\ Cardinality(Held(R, id)) + (IF Q[s][p][k].ord.order_id = id THEN d ELSE 0)
              <= Cardinality(Held(Q, id))
<1> DEFINE f == LeavesAt(Q, id)
           h == LeavesAt(R, id)
           S == Spots(Q, id)
           T == Spots(R, id)
           G == [at \in T |-> IF at[1] = s /\ at[2] = p THEN <<s, p, g[at[3]]>> ELSE at]
           x == <<s, p, k>>
<1>1. f \in [S -> Nat] /\ h \in [T -> Nat]
  BY LeavesTyped
<1>2. \A at \in S : f[at] = Q[at[1]][at[2]][at[3]].leaves
  BY DEF LeavesAt
<1>3. \A at \in T : h[at] = R[at[1]][at[2]][at[3]].leaves
  BY DEF LeavesAt
<1>4. ASSUME NEW at \in T
      PROVE  G[at] \in S /\ h[at] + (IF G[at] = x THEN d ELSE 0) <= f[G[at]]
  <2>1. /\ at = <<at[1], at[2], at[3]>> /\ at[1] \in Side /\ at[2] \in PriceTicks
        /\ at[3] \in DOMAIN R[at[1]][at[2]] /\ R[at[1]][at[2]][at[3]].ord.order_id = id
    BY SpotsAre DEF IsSpot
  <2>2. CASE at[1] = s /\ at[2] = p
    <3> DEFINE j == at[3]
               i == g[j]
    <3>1. G[at] = <<s, p, i>> /\ j \in DOMAIN R[s][p] /\ R[s][p][j].ord.order_id = id
      BY <2>1, <2>2
    <3>2. /\ i \in DOMAIN Q[s][p] /\ Q[s][p][i].ord.order_id = id
          /\ R[s][p][j].leaves + (IF i = k THEN d ELSE 0) <= Q[s][p][i].leaves
      BY <3>1 DEF Takes, ComesFrom
    <3> HIDE DEF i
    <3>3. <<s, p, i>> \in S
      <4>1. IsSpot(Q, id, <<s, p, i>>)
        BY <3>2 DEF IsSpot
      <4> QED BY <4>1, SpotsAre
    <3>4. f[<<s, p, i>>] = Q[s][p][i].leaves
      BY <3>3, <1>2
    <3>5. h[at] = R[s][p][j].leaves
      BY <1>3, <2>2
    <3>6. (G[at] = x) <=> (i = k)
      BY <3>1
    <3> QED BY <3>1, <3>2, <3>3, <3>4, <3>5, <3>6
  <2>3. CASE at[1] # s \/ at[2] # p
    <3>1. G[at] = at /\ R[at[1]][at[2]] = Q[at[1]][at[2]]
      BY <2>1, <2>3
    <3>2. at \in S
      <4>1. IsSpot(Q, id, at)
        BY <2>1, <3>1 DEF IsSpot
      <4> QED BY <4>1, SpotsAre
    <3>3. f[at] = h[at] /\ h[at] \in Nat
      BY <1>1, <1>2, <1>3, <3>1, <3>2
    <3>4. at # x
      BY <2>3
    <3> QED BY <3>1, <3>2, <3>3, <3>4
  <2> QED BY <2>2, <2>3
<1>5. ASSUME NEW at \in T, NEW u \in T, G[at] = G[u] PROVE at = u
  <2>1. /\ at = <<at[1], at[2], at[3]>> /\ at[3] \in DOMAIN R[at[1]][at[2]]
        /\ u = <<u[1], u[2], u[3]>> /\ u[3] \in DOMAIN R[u[1]][u[2]]
    BY SpotsAre DEF IsSpot
  <2>2. CASE at[1] = s /\ at[2] = p
    <3>1. G[at] = <<s, p, g[at[3]]>>
      BY <2>2
    <3>2. CASE u[1] = s /\ u[2] = p
      <4>1. G[u] = <<s, p, g[u[3]]>>
        BY <3>2
      <4>2. g[at[3]] = g[u[3]]
        BY <1>5, <3>1, <4>1
      <4>3. at[3] = u[3]
        BY <2>1, <2>2, <3>2, <4>2 DEF Takes, ComesFrom
      <4> QED BY <2>1, <2>2, <3>2, <4>3
    <3>3. CASE u[1] # s \/ u[2] # p
      <4>1. G[u] = u
        BY <3>3
      <4> QED BY <1>5, <3>1, <3>3, <4>1
    <3> QED BY <3>2, <3>3
  <2>3. CASE at[1] # s \/ at[2] # p
    <3>1. G[at] = at
      BY <2>3
    <3>2. CASE u[1] = s /\ u[2] = p
      <4>1. G[u] = <<s, p, g[u[3]]>>
        BY <3>2
      <4> QED BY <1>5, <2>3, <3>1, <4>1
    <3>3. CASE u[1] # s \/ u[2] # p
      <4>1. G[u] = u
        BY <3>3
      <4> QED BY <1>5, <3>1, <4>1
    <3> QED BY <3>2, <3>3
  <2> QED BY <2>2, <2>3
<1>6. IsFiniteSet(Units(f))
  BY DEF Held
<1>7. Q[s][p][k].ord.order_id = id => x \in S /\ f[x] = Q[s][p][k].leaves
  <2>1. Q[s][p][k].ord.order_id = id => x \in S
    BY SpotsAre DEF IsSpot
  <2> QED BY <2>1, <1>2
<1>8. Held(R, id) = Units(h) /\ Held(Q, id) = Units(f)
  BY DEF Held
<1> HIDE DEF f, h, S, T, G, x
<1>9. CASE Q[s][p][k].ord.order_id = id
  <2>1. x \in S /\ d <= f[x]
    BY <1>7, <1>9
  <2>2. /\ \A at \in T : G[at] \in S /\ h[at] <= f[G[at]]
        /\ \A at \in T : G[at] = x => h[at] + d <= f[x]
    BY <1>1, <1>4
  <2>3. \A at, u \in T : G[at] = G[u] => at = u
    BY <1>5
  <2>4. IsFiniteSet(Units(h)) /\ Cardinality(Units(h)) + d <= Cardinality(Units(f))
    BY <1>1, <1>6, <2>1, <2>2, <2>3, UnitsLost
  <2> QED BY <1>8, <1>9, <2>4
<1>10. CASE Q[s][p][k].ord.order_id # id
  <2>1. \A at \in T : G[at] \in S /\ h[at] <= f[G[at]]
    BY <1>1, <1>4
  <2>2. IsFiniteSet(Units(h)) /\ Cardinality(Units(h)) <= Cardinality(Units(f))
    BY <1>1, <1>5, <1>6, <2>1, UnitsInjected
  <2>3. Cardinality(Units(h)) \in Nat
    BY <2>2, FS_CardinalityType
  <2> QED BY <1>8, <1>10, <2>2, <2>3
<1> QED BY <1>9, <1>10

\* A node that joins the book brings what it has left to its id.
LEMMA HeldJoined ==
  ASSUME NEW Q \in Book, NEW R \in Book, NEW s \in Side, NEW p \in PriceTicks, NEW m \in Node,
         R[s][p] = Append(Q[s][p], m),
         \A t \in Side, r \in PriceTicks : (t # s \/ r # p) => R[t][r] = Q[t][r],
         NEW id, IsFiniteSet(Held(Q, id))
  PROVE  /\ IsFiniteSet(Held(R, id))
         /\ Cardinality(Held(R, id))
              = Cardinality(Held(Q, id)) + (IF m.ord.order_id = id THEN m.leaves ELSE 0)
<1> DEFINE f == LeavesAt(Q, id)
           h == LeavesAt(R, id)
           S == Spots(Q, id)
           T == Spots(R, id)
           n == Len(Q[s][p])
           x == <<s, p, n + 1>>
<1>1. /\ n \in Nat /\ DOMAIN Q[s][p] = 1 .. n /\ DOMAIN R[s][p] = 1 .. n + 1
      /\ \A i \in 1 .. n : R[s][p][i] = Q[s][p][i]
      /\ R[s][p][n + 1] = m
  <2> DEFINE q == Q[s][p]
             e == R[s][p]
  <2>1. q \in Seq(Node) /\ e = Append(q, m)
    BY DEF Book
  <2> HIDE DEF q, e
  <2>2. /\ Len(q) \in Nat /\ DOMAIN q = 1 .. Len(q) /\ DOMAIN e = 1 .. Len(q) + 1
        /\ \A i \in 1 .. Len(q) : e[i] = q[i]
        /\ e[Len(q) + 1] = m
    BY <2>1, AppendProperties, LenProperties
  <2> QED BY <2>2 DEF q, e
<1>2. f \in [S -> Nat] /\ h \in [T -> Nat]
  BY LeavesTyped
<1>3. /\ \A at \in S : f[at] = Q[at[1]][at[2]][at[3]].leaves
      /\ \A at \in T : h[at] = R[at[1]][at[2]][at[3]].leaves
  BY DEF LeavesAt
<1> HIDE DEF n
<1>4. ASSUME NEW at \in T, at # x
      PROVE  at \in S /\ h[at] = f[at]
  <2>1. /\ at = <<at[1], at[2], at[3]>> /\ at[1] \in Side /\ at[2] \in PriceTicks
        /\ at[3] \in DOMAIN R[at[1]][at[2]] /\ R[at[1]][at[2]][at[3]].ord.order_id = id
    BY SpotsAre DEF IsSpot
  <2>2. /\ at[3] \in DOMAIN Q[at[1]][at[2]]
        /\ R[at[1]][at[2]][at[3]] = Q[at[1]][at[2]][at[3]]
    <3>1. CASE at[1] = s /\ at[2] = p
      <4>1. at[3] \in 1 .. n + 1 /\ at[3] # n + 1
        BY <1>1, <1>4, <2>1, <3>1
      <4>2. at[3] \in 1 .. n
        BY <1>1, <4>1
      <4> QED BY <1>1, <3>1, <4>2
    <3>2. CASE at[1] # s \/ at[2] # p
      BY <2>1, <3>2
    <3> QED BY <3>1, <3>2
  <2>3. at \in S
    <3>1. IsSpot(Q, id, at)
      BY <2>1, <2>2 DEF IsSpot
    <3> QED BY <3>1, SpotsAre
  <2> QED BY <1>3, <2>2, <2>3
<1>5. ASSUME NEW at \in S PROVE at \in T /\ at # x
  <2>1. /\ at = <<at[1], at[2], at[3]>> /\ at[1] \in Side /\ at[2] \in PriceTicks
        /\ at[3] \in DOMAIN Q[at[1]][at[2]] /\ Q[at[1]][at[2]][at[3]].ord.order_id = id
    BY SpotsAre DEF IsSpot
  <2>2. CASE at[1] = s /\ at[2] = p
    <3>1. at[3] \in 1 .. n /\ at[3] \in 1 .. n + 1 /\ at[3] # n + 1
      BY <1>1, <2>1, <2>2
    <3>2. R[at[1]][at[2]][at[3]] = Q[at[1]][at[2]][at[3]] /\ at[3] \in DOMAIN R[at[1]][at[2]]
      BY <1>1, <2>2, <3>1
    <3>3. IsSpot(R, id, at) /\ at # x
      BY <2>1, <3>1, <3>2 DEF IsSpot
    <3> QED BY <3>3, SpotsAre
  <2>3. CASE at[1] # s \/ at[2] # p
    <3>1. R[at[1]][at[2]] = Q[at[1]][at[2]]
      BY <2>1, <2>3
    <3>2. IsSpot(R, id, at) /\ at # x
      BY <2>1, <2>3, <3>1 DEF IsSpot
    <3> QED BY <3>2, SpotsAre
  <2> QED BY <2>2, <2>3
<1>6. m.ord.order_id = id => x \in T /\ h[x] = m.leaves
  <2>1. n + 1 \in DOMAIN R[s][p]
    BY <1>1
  <2>2. m.ord.order_id = id => x \in T
    <3>1. m.ord.order_id = id => IsSpot(R, id, x)
      BY <1>1, <2>1 DEF IsSpot
    <3> QED BY <3>1, SpotsAre
  <2> QED BY <1>1, <1>3, <2>2
<1>7. x \in T => m.ord.order_id = id
  <2>1. x \in T => R[x[1]][x[2]][x[3]].ord.order_id = id
    BY SpotsAre DEF IsSpot
  <2> QED BY <1>1, <2>1
<1>8. Held(R, id) = Units(h) /\ Held(Q, id) = Units(f)
  BY DEF Held
<1> HIDE DEF f, h, S, T, x
<1>9. CASE m.ord.order_id = id
  <2>1. T = S \cup {x} /\ x \notin S
    BY <1>4, <1>5, <1>6, <1>9
  <2>2. h \in [S \cup {x} -> Nat] /\ \A at \in S : h[at] = f[at]
    BY <1>2, <1>4, <1>5, <2>1
  <2>3. IsFiniteSet(Units(h)) /\ Cardinality(Units(h)) = Cardinality(Units(f)) + h[x]
    <3>1. f \in [S -> Nat] /\ h \in [T -> Nat] /\ IsFiniteSet(Units(f))
      BY <1>2, <1>8
    <3>2. \A at \in S : h[at] = f[at]
      BY <2>2
    <3>3. Joins(x, S, T)
      BY <2>1 DEF Joins
    <3> QED BY <3>1, <3>2, <3>3, UnitsJoined
  <2> QED BY <1>6, <1>8, <1>9, <2>3
<1>10. CASE m.ord.order_id # id
  <2>1. T = S
    BY <1>4, <1>5, <1>7, <1>10
  <2>2. f = h
    <3>1. \A at \in S : f[at] = h[at]
      BY <1>4, <1>5
    <3> QED BY <1>2, <2>1, <3>1
  <2>3. Cardinality(Units(f)) \in Nat
    BY <1>8, FS_CardinalityType
  <2> QED BY <1>8, <1>10, <2>2, <2>3
<1> QED BY <1>9, <1>10

\* erase_at leaves no more of any id.
LEMMA HeldErased ==
  ASSUME IInv, NEW x \in OrderId, loc[x] # NoLoc, EraseAt(loc[x]),
         NEW id, IsFiniteSet(Held(queue, id))
  PROVE  IsFiniteSet(Held(queue', id)) /\ Cardinality(Held(queue', id)) <= Cardinality(Held(queue, id))
<1> DEFINE lc == loc[x]
           s  == lc.side
           px == lc.px
           q  == queue[s][px]
           k  == lc.idx + 1
<1>1. /\ s \in Side /\ px \in PriceTicks /\ lc.idx \in Nat /\ q \in Seq(Node) /\ queue \in Book
  BY LocLevelExists, BookKept DEF IInv
<1>2. \/ queue' = queue
      \/ InRange(lc) /\ queue' = [queue EXCEPT ![s][px] = SwapPop(q, k)]
  BY DEF EraseAt, StoreQueue
<1>3. CASE queue' = queue
  <2>1. Cardinality(Held(queue, id)) \in Nat
    BY FS_CardinalityType
  <2> QED BY <2>1, <1>3
<1>4. CASE InRange(lc) /\ queue' = [queue EXCEPT ![s][px] = SwapPop(q, k)]
  <2>1. k \in DOMAIN q
    BY <1>1, <1>4, LenProperties DEF InRange
  <2> DEFINE r == SwapPop(q, k)
  <2> HIDE DEF k, q
  <2>0. PICK d : d = 0
    OBVIOUS
  <2>2. PICK g : Takes(r, q, g, k, d)
    BY <1>1, <2>0, <2>1, ErasedTakes
  <2>3. r \in Seq(Node)
    BY <1>1, <2>1, SwapPopKeeps
  <2> HIDE DEF r
  <2>4. /\ queue'[s][px] = r /\ queue' \in Book
        /\ \A t \in Side, p \in PriceTicks : (t # s \/ p # px) => queue'[t][p] = queue[t][p]
    BY <1>1, <1>4, <2>3 DEF Book, r
  <2>5. queue[s][px] = q
    BY DEF q
  <2> HIDE DEF s, px
  <2>6. d \in Nat /\ d <= queue[s][px][k].leaves
    BY <1>1, <2>0, <2>1, <2>5, LeavesOf
  <2>7. IsFiniteSet(Held(queue', id))
        /\ Cardinality(Held(queue', id)) + (IF queue[s][px][k].ord.order_id = id THEN d ELSE 0)
             <= Cardinality(Held(queue, id))
    <3>1. k \in DOMAIN queue[s][px] /\ Takes(queue'[s][px], queue[s][px], g, k, d)
      BY <2>1, <2>2, <2>4, <2>5
    <3>2. queue \in Book /\ queue' \in Book /\ s \in Side /\ px \in PriceTicks
      BY <1>1, <2>4
    <3>3. \A t \in Side, p \in PriceTicks : (t # s \/ p # px) => queue'[t][p] = queue[t][p]
      BY <2>4
    <3> QED BY <2>6, <3>1, <3>2, <3>3, HeldTaken
  <2>8. Cardinality(Held(queue', id)) \in Nat
    BY <2>7, FS_CardinalityType
  <2> QED BY <2>0, <2>7, <2>8
<1> QED BY <1>2, <1>3, <1>4

-----------------------------------------------------------------------------
(* Nothing trades that was not accepted *)

\* What the taker has left, under id.
InHand(t, id) == IF t # NoNode /\ t.ord.order_id = id THEN t.leaves ELSE 0

\* What was traded, what rests and what is in hand of an id was all accepted.
Covers(Q, t, ex, ac) ==
  \A id \in OrderId : /\ IsFiniteSet(Held(Q, id))
                      /\ ex[id] + (Cardinality(Held(Q, id)) + InHand(t, id)) <= ac[id]

\* The invariant: the sums of AcceptedCovers, kept as counts of units.
CInv ==
  /\ IInv
  /\ accepted \in [OrderId -> Nat] /\ executed \in [OrderId -> Nat]
  /\ Covers(queue, taker, executed, accepted)

\* The sum of Open, as a count.
LEMMA OpenIsCount ==
  ASSUME IInv, NEW id \in OrderId, IsFiniteSet(Held(queue, id))
  PROVE  Open(id) = Cardinality(Held(queue, id)) + InHand(taker, id)
<1> DEFINE f == LeavesAt(queue, id)
           S == NodesOf(id)
           c(s) == CHOOSE x \in s : TRUE
           v(at) == queue[at[1]][at[2]][at[3]].leaves
           P(g) == g = [s \in SUBSET S |-> IF s = {} THEN 0 ELSE v(c(s)) + g[s \ {c(s)}]]
           k == CHOOSE g : P(g)
<1>1. S = Spots(queue, id)
  BY DEF NodesOf, Spots
<1>2. f \in [S -> Nat] /\ \A at \in S : f[at] = v(at)
  <2>1. queue \in Book
    BY BookKept
  <2> QED BY <1>1, <2>1, LeavesTyped DEF LeavesAt
<1>3. Open(id) = k[S] + InHand(taker, id)
  BY DEF Open, InHand, MapThenSumSet, MapThenFoldSet
<1>4. IsFiniteSet(S)
  <2>1. ASSUME NEW at \in S PROVE 1 \in 1 .. f[at]
    <3>1. /\ at[1] \in Side /\ at[2] \in PriceTicks /\ at[3] \in DOMAIN queue[at[1]][at[2]]
      BY <1>1, SpotsAre DEF IsSpot
    <3>2. v(at) > 0
      BY <3>1 DEF IInv, RestingSound
    <3>3. f[at] \in Nat /\ f[at] > 0
      BY <1>2, <3>2
    <3> HIDE DEF f, S
    <3> QED BY <3>3
  <2> DEFINE F == [at \in S |-> <<at, 1>>]
             U == Units(f)
  <2>2. F \in Injection(S, U)
    <3>1. \A at \in S : <<at, 1>> \in U
      <4> HIDE DEF f, S
      <4> QED BY <1>2, <2>1, UnitsAre
    <3> HIDE DEF U, S
    <3> QED BY <3>1 DEF Injection, IsInjective
  <2>3. IsFiniteSet(U)
    BY DEF Held
  <2> HIDE DEF F, U, S
  <2> QED BY <2>2, <2>3, FS_Injection
<1>5. \A g : P(g) <=> Sums(g, f, S)
  <2>1. ASSUME NEW s \in SUBSET S, s # {} PROVE f[c(s)] = v(c(s))
    BY <1>2, <2>1
  <2> HIDE DEF f, v, S
  <2> QED BY <2>1 DEF Sums
<1> HIDE DEF S, v, c
<1>6. P(k)
  <2>1. \E g : P(g)
    <3> HIDE DEF P, f
    <3> QED BY <1>2, <1>4, <1>5, SumIsCount
  <2> HIDE DEF P
  <2> QED BY <2>1
<1> HIDE DEF P, k, f
<1>7. k[S] = Cardinality(Units(f))
  BY <1>2, <1>4, <1>5, <1>6, SumIsCount
<1> QED BY <1>3, <1>7 DEF Held, f

\* A step that publishes neither a New nor a trade of anything leaves the accounts.
LEMMA QuietAccounts ==
  ASSUME Observe, accepted \in [OrderId -> Nat], executed \in [OrderId -> Nat],
         \A i \in DOMAIN out' : /\ i = 1 /\ out'[i].last_qty = 0 /\ out'[i].leaves_qty \in Nat
                                /\ out'[i].exec_type # "New"
  PROVE  executed' = executed /\ accepted' = accepted
<1>1. ASSUME NEW id \in OrderId PROVE executed'[id] = executed[id] /\ accepted'[id] = accepted[id]
  <2>1. /\ executed'[id] = executed[id] + (Traded(out', 1, id) + Traded(out', 2, id))
        /\ accepted'[id] = accepted[id] + (Added(out', 1, id) + Added(out', 2, id))
    BY Observed
  <2>2. /\ Traded(out', 1, id) = 0 /\ Traded(out', 2, id) = 0
        /\ Added(out', 1, id) = 0 /\ Added(out', 2, id) = 0
    BY DEF Traded, Added
  <2> QED BY <2>1, <2>2
<1> QED BY <1>1 DEF Observe

\* A New adds its quantity to what was accepted.
LEMMA NewAccounts ==
  ASSUME Observe, accepted \in [OrderId -> Nat], executed \in [OrderId -> Nat],
         NEW r, out' = <<r>>, r.last_qty = 0, r.leaves_qty \in Nat, r.exec_type = "New"
  PROVE  /\ executed' = executed /\ accepted' \in [OrderId -> Nat]
         /\ \A id \in OrderId : accepted'[id] = accepted[id] + (IF id = r.order_id THEN r.leaves_qty ELSE 0)
<1>1. out'[1] = r /\ DOMAIN out' = {1}
  OBVIOUS
<1>2. ASSUME NEW id \in OrderId
      PROVE  /\ executed'[id] = executed[id]
             /\ accepted'[id] = accepted[id] + (IF id = r.order_id THEN r.leaves_qty ELSE 0)
             /\ accepted'[id] \in Nat
  <2>1. /\ executed'[id] = executed[id] + (Traded(out', 1, id) + Traded(out', 2, id))
        /\ accepted'[id] = accepted[id] + (Added(out', 1, id) + Added(out', 2, id))
    BY <1>1, Observed
  <2>2. /\ Traded(out', 1, id) = 0 /\ Traded(out', 2, id) = 0
        /\ Added(out', 1, id) = IF id = r.order_id THEN r.leaves_qty ELSE 0
        /\ Added(out', 2, id) = 0
    BY <1>1 DEF Traded, Added
  <2> QED BY <2>1, <2>2
<1>3. executed' = [id \in OrderId |-> executed'[id]] /\ accepted' = [id \in OrderId |-> accepted'[id]]
  BY DEF Observe
<1>4. executed' = executed
  BY <1>2, <1>3
<1> QED BY <1>2, <1>3, <1>4

\* What the book is left with, and what is in hand, is accepted.
LEMMA AcceptCovers ==
  ASSUME CInv, Observe, taker = NoNode, NEW o \in Order, Accept(o),
         \A id \in OrderId : /\ IsFiniteSet(Held(queue', id))
                             /\ Cardinality(Held(queue', id)) <= Cardinality(Held(queue, id))
  PROVE  /\ accepted' \in [OrderId -> Nat] /\ executed' \in [OrderId -> Nat]
         /\ Covers(queue', taker', executed', accepted')
<1> DEFINE r == Report(o.order_id, "New", "New", 0, NoPrice, o.qty)
<1>1. /\ out' = <<r>> /\ r.last_qty = 0 /\ r.leaves_qty = o.qty /\ r.exec_type = "New"
      /\ r.order_id = o.order_id /\ o.qty \in Nat /\ taker'.ord = o /\ taker'.leaves = o.qty
  BY DEF Accept, Report, Order, Qty
<1> HIDE DEF r
<1>2. /\ executed' = executed /\ accepted' \in [OrderId -> Nat]
      /\ \A id \in OrderId : accepted'[id] = accepted[id] + (IF id = o.order_id THEN o.qty ELSE 0)
  BY <1>1, NewAccounts DEF CInv
<1>3. ASSUME NEW id \in OrderId
      PROVE  executed'[id] + (Cardinality(Held(queue', id)) + InHand(taker', id)) <= accepted'[id]
  <2> DEFINE H == Cardinality(Held(queue, id))
             J == Cardinality(Held(queue', id))
  <2>1. H \in Nat /\ J \in Nat /\ J <= H /\ executed[id] \in Nat /\ accepted[id] \in Nat
    BY FS_CardinalityType DEF CInv, Covers
  <2>2. executed[id] + (H + 0) <= accepted[id]
    BY DEF CInv, Covers, InHand
  <2>3. InHand(taker', id) = IF id = o.order_id THEN o.qty ELSE 0
    <3>1. taker' # NoNode
      BY AcceptKeeps DEF CInv
    <3> QED BY <3>1, <1>1 DEF InHand
  <2> HIDE DEF H, J
  <2>4. executed'[id] + (J + InHand(taker', id)) <= accepted'[id]
    BY <1>1, <1>2, <2>1, <2>2, <2>3
  <2> QED BY <2>4 DEF J
<1> QED BY <1>2, <1>3 DEF Covers, CInv

\* A step that leaves the accounts, and no more in the book and in hand, stays covered.
LEMMA QuietCovers ==
  ASSUME CInv, executed' = executed, accepted' = accepted,
         \A id \in OrderId :
           /\ IsFiniteSet(Held(queue', id))
           /\ Cardinality(Held(queue', id)) + InHand(taker', id)
                <= Cardinality(Held(queue, id)) + InHand(taker, id),
         \A id \in OrderId : InHand(taker, id) \in Nat /\ InHand(taker', id) \in Nat
  PROVE  Covers(queue', taker', executed', accepted')
<1> SUFFICES ASSUME NEW id \in OrderId
             PROVE  /\ IsFiniteSet(Held(queue', id))
                    /\ executed[id] + (Cardinality(Held(queue', id)) + InHand(taker', id)) <= accepted[id]
  BY DEF Covers
<1> DEFINE H == Cardinality(Held(queue, id))
           J == Cardinality(Held(queue', id))
<1>1. H \in Nat /\ J \in Nat /\ executed[id] \in Nat /\ accepted[id] \in Nat
      /\ J + InHand(taker', id) <= H + InHand(taker, id)
      /\ executed[id] + (H + InHand(taker, id)) <= accepted[id]
  BY FS_CardinalityType DEF CInv, Covers
<1> HIDE DEF H, J
<1>2. executed[id] + (J + InHand(taker', id)) <= accepted[id]
  BY <1>1
<1> QED BY <1>2 DEF J

\* What the taker has left is a quantity.
LEMMA InHandTyped ==
  ASSUME NEW t \in Node \cup {NoNode}
  PROVE  \A id : InHand(t, id) \in Nat
<1> SUFFICES ASSUME NEW id PROVE InHand(t, id) \in Nat
  OBVIOUS
<1>1. CASE t = NoNode
  BY <1>1 DEF InHand
<1>2. CASE t \in Node
  BY <1>2, SeenTyped DEF InHand
<1> QED BY <1>1, <1>2

\* A fill takes from both parties what it adds to what they traded.
LEMMA MatchCovers ==
  ASSUME CInv, Match, Observe
  PROVE  /\ accepted' \in [OrderId -> Nat] /\ executed' \in [OrderId -> Nat]
         /\ Covers(queue', taker', executed', accepted')
<1>1. /\ taker \in Node /\ taker' \in Node /\ queue \in Book /\ queue' \in Book
      /\ taker # NoNode /\ taker' # NoNode
      /\ executed \in [OrderId -> Nat] /\ accepted \in [OrderId -> Nat]
  <2>1. IInv'
    BY MatchKeeps DEF CInv
  <2>2. queue' \in Book
    BY <2>1 DEF IInv, TypeOK, Book
  <2> QED BY <2>2, MatchFills, BookKept, ConstantsAssumption DEF CInv
<1>2. PICK s \in Side, px \in PriceTicks, maker \in Node, dq \in Nat : Filled(s, px, maker, dq)
  BY MatchFills DEF CInv
<1> DEFINE q == queue[s][px]
           r == IF maker.leaves = 0 THEN Tail(q) ELSE [q EXCEPT ![1] = maker]
           n == q[1]
           A == taker.ord.order_id
           B == n.ord.order_id
           a == TradeReport(taker', dq, px)
           b == TradeReport(maker, dq, px)
<1>3. /\ q \in Seq(Node) /\ q # <<>> /\ n \in Node /\ maker.ord = n.ord /\ taker'.ord = taker.ord
      /\ dq = (IF n.leaves <= taker.leaves THEN n.leaves ELSE taker.leaves)
      /\ maker.leaves = n.leaves - dq /\ taker'.leaves = taker.leaves - dq
      /\ queue' = [queue EXCEPT ![s][px] = r]
      /\ out' = <<a, b>>
  BY <1>2 DEF Filled
<1>4. 1 \in DOMAIN q
  <2> HIDE DEF q
  <2> QED BY <1>3, LenProperties, EmptySeq
<1>5. /\ n.leaves \in Nat /\ taker.leaves \in Nat /\ maker.leaves \in Nat /\ taker'.leaves \in Nat
      /\ dq <= n.leaves /\ dq <= taker.leaves /\ maker.leaves + dq = n.leaves
  <2>1. n.leaves \in Nat /\ taker.leaves \in Nat /\ maker.leaves \in Nat /\ taker'.leaves \in Nat
    BY <1>1, <1>3, SeenTyped
  <2> HIDE DEF n
  <2> QED BY <2>1, <1>3
<1>6. /\ queue'[s][px] = r
      /\ \A t \in Side, p \in PriceTicks : (t # s \/ p # px) => queue'[t][p] = queue[t][p]
  <2> HIDE DEF r
  <2> QED BY <1>1, <1>3 DEF Book
<1>7. /\ a.exec_type = "Trade" /\ a.order_id = A /\ a.last_qty = dq /\ a.leaves_qty \in Nat
      /\ b.exec_type = "Trade" /\ b.order_id = B /\ b.last_qty = dq /\ b.leaves_qty \in Nat
  <2>1. \A x, y, z : LET t == TradeReport(x, y, z)
                    IN  /\ t.exec_type = "Trade" /\ t.order_id = x.ord.order_id
                        /\ t.last_qty = y /\ t.last_px = z /\ t.leaves_qty = x.leaves
    BY TradeReportIs
  <2>2. A = taker'.ord.order_id /\ B = maker.ord.order_id
    BY <1>3
  <2> HIDE DEF A, B
  <2> QED BY <2>1, <2>2, <1>5
<1>8. PICK g : Takes(r, q, g, 1, dq)
  <2>1. dq \in Nat /\ maker.leaves + dq = q[1].leaves /\ maker.ord = q[1].ord /\ q \in Seq(Node) /\ q # <<>>
    BY <1>3, <1>5
  <2> HIDE DEF q
  <2> QED BY <2>1, PoppedTakes, FilledTakes
<1> HIDE DEF r, a, b
<1>9. ASSUME NEW id \in OrderId
      PROVE  /\ executed'[id] = executed[id] + ((IF id = A THEN dq ELSE 0) + (IF id = B THEN dq ELSE 0))
             /\ accepted'[id] = accepted[id]
             /\ executed'[id] \in Nat
  <2>1. out' = <<a, b>> /\ a.last_qty \in Nat /\ b.last_qty \in Nat
    BY <1>3, <1>7
  <2>2. /\ executed'[id] = executed[id] + ((IF id = a.order_id THEN a.last_qty ELSE 0)
                                            + (IF id = b.order_id THEN b.last_qty ELSE 0))
        /\ accepted'[id] = accepted[id] + 0
    BY <2>1, <1>7, FillStep
  <2> HIDE DEF A, B
  <2> QED BY <2>2, <1>1, <1>7
<1>10. accepted' \in [OrderId -> Nat] /\ executed' \in [OrderId -> Nat]
  <2>1. /\ executed' = [id \in OrderId |-> executed'[id]]
        /\ accepted' = [id \in OrderId |-> accepted'[id]]
    BY DEF Observe
  <2> QED BY <2>1, <1>1, <1>9
<1>11. ASSUME NEW id \in OrderId
       PROVE  /\ IsFiniteSet(Held(queue', id))
              /\ executed'[id] + (Cardinality(Held(queue', id)) + InHand(taker', id)) <= accepted'[id]
  <2> DEFINE H == Cardinality(Held(queue, id))
             J == Cardinality(Held(queue', id))
  <2>1. IsFiniteSet(Held(queue, id)) /\ executed[id] + (H + InHand(taker, id)) <= accepted[id]
    BY DEF CInv, Covers
  <2>2. IsFiniteSet(Held(queue', id)) /\ J + (IF B = id THEN dq ELSE 0) <= H
    <3>1. ASSUME NEW k, k = 1
          PROVE  IsFiniteSet(Held(queue', id))
                 /\ Cardinality(Held(queue', id)) + (IF queue[s][px][k].ord.order_id = id THEN dq ELSE 0)
                      <= Cardinality(Held(queue, id))
      <4>1. k \in DOMAIN queue[s][px] /\ Takes(queue'[s][px], queue[s][px], g, k, dq)
        BY <1>4, <1>6, <1>8, <3>1
      <4>2. dq <= queue[s][px][k].leaves
        BY <1>5, <3>1
      <4>3. \A t \in Side, p \in PriceTicks : (t # s \/ p # px) => queue'[t][p] = queue[t][p]
        BY <1>6
      <4>4. queue \in Book /\ queue' \in Book /\ IsFiniteSet(Held(queue, id)) /\ dq \in Nat
        BY <1>1, <2>1
      <4>5. k \in DOMAIN queue[s][px]
        BY <4>1
      <4>6. Takes(queue'[s][px], queue[s][px], g, k, dq)
        BY <4>1
      <4> QED BY <4>2, <4>3, <4>4, <4>5, <4>6, HeldTaken
    <3> QED BY <3>1
  <2>3. /\ InHand(taker, id) = IF id = A THEN taker.leaves ELSE 0
        /\ InHand(taker', id) = IF id = A THEN taker.leaves - dq ELSE 0
    BY <1>1, <1>3 DEF InHand
  <2>4. H \in Nat /\ J \in Nat /\ executed[id] \in Nat /\ accepted[id] \in Nat
    BY <1>1, <2>1, <2>2, FS_CardinalityType
  <2>5. executed'[id] + (J + InHand(taker', id)) <= accepted'[id]
    <3> DEFINE ex == executed[id]
               ac == accepted[id]
               x == IF id = A THEN dq ELSE 0
               y == IF id = B THEN dq ELSE 0
    <3>1. /\ ex + (H + InHand(taker, id)) <= ac /\ J + y <= H /\ executed'[id] = ex + (x + y)
          /\ accepted'[id] = ac /\ x \in Nat /\ y \in Nat /\ ex \in Nat /\ ac \in Nat
      BY <1>9, <2>1, <2>2, <2>4
    <3>2. InHand(taker', id) \in Nat /\ InHand(taker, id) \in Nat /\ InHand(taker', id) + x = InHand(taker, id)
      <4> HIDE DEF A
      <4> QED BY <1>5, <2>3
    <3> HIDE DEF x, y, ex, ac, H, J
    <3> QED BY <2>4, <3>1, <3>2
  <2> QED BY <2>2, <2>5
<1> QED BY <1>10, <1>11 DEF Covers

\* What rests at the end of on_new is what was in hand; what is dropped is no longer held.
LEMMA EndCovers ==
  ASSUME CInv, Rest \/ Complete \/ Abandon, Observe
  PROVE  /\ accepted' \in [OrderId -> Nat] /\ executed' \in [OrderId -> Nat]
         /\ Covers(queue', taker', executed', accepted')
<1>1. /\ taker \in Node /\ taker # NoNode /\ taker' = NoNode /\ queue \in Book
      /\ \A i \in DOMAIN out' : i = 1 /\ out'[i] = Completed
  BY BookKept DEF Rest, Complete, Abandon, Return, CInv, IInv, TypeOK
<1>2. /\ Completed.last_qty = 0 /\ Completed.leaves_qty = 0 /\ Completed.exec_type = "Trade"
  BY DEF Completed, Report
<1>3. executed' = executed /\ accepted' = accepted
  BY <1>1, <1>2, QuietAccounts DEF CInv
<1>4. \A id : InHand(taker, id) \in Nat /\ InHand(taker', id) = 0
  BY <1>1, InHandTyped DEF InHand
<1>5. ASSUME NEW id \in OrderId
      PROVE  /\ IsFiniteSet(Held(queue', id))
             /\ Cardinality(Held(queue', id)) <= Cardinality(Held(queue, id)) + InHand(taker, id)
  <2>1. IsFiniteSet(Held(queue, id)) /\ Cardinality(Held(queue, id)) \in Nat
    BY FS_CardinalityType DEF CInv, Covers
  <2>2. CASE Complete \/ Abandon
    <3>1. queue' = queue
      BY <2>2 DEF Complete, Abandon, book
    <3> QED BY <3>1, <2>1, <1>4
  <2>3. CASE Rest
    <3> DEFINE s  == taker.ord.side
               px == taker.ord.price
    <3>1. s \in Side /\ px \in PriceTicks /\ queue' \in Book
      <4>1. IInv'
        BY <2>3, RestKeeps DEF CInv
      <4> QED BY <4>1, <1>1 DEF Node, Order, IInv, TypeOK, Book
    <3>2. queue' = [queue EXCEPT ![s][px] = Append(queue[s][px], taker)]
      BY <2>3 DEF Rest, Enqueue, PutLast
    <3> HIDE DEF s, px
    <3>3. /\ queue'[s][px] = Append(queue[s][px], taker)
          /\ \A t \in Side, p \in PriceTicks : (t # s \/ p # px) => queue'[t][p] = queue[t][p]
      BY <1>1, <3>1, <3>2 DEF Book
    <3>4. /\ IsFiniteSet(Held(queue', id))
          /\ Cardinality(Held(queue', id))
               = Cardinality(Held(queue, id)) + (IF taker.ord.order_id = id THEN taker.leaves ELSE 0)
      BY <1>1, <2>1, <3>1, <3>3, HeldJoined
    <3>5. InHand(taker, id) = IF taker.ord.order_id = id THEN taker.leaves ELSE 0
      BY <1>1 DEF InHand
    <3>6. Cardinality(Held(queue', id)) = Cardinality(Held(queue, id)) + InHand(taker, id)
      BY <3>4, <3>5
    <3> QED BY <3>4, <3>6, <2>1, <1>4
  <2> QED BY <2>2, <2>3
<1>6. \A id \in OrderId :
        /\ IsFiniteSet(Held(queue', id))
        /\ Cardinality(Held(queue', id)) + InHand(taker', id)
             <= Cardinality(Held(queue, id)) + InHand(taker, id)
  <2> SUFFICES ASSUME NEW id \in OrderId
               PROVE  /\ IsFiniteSet(Held(queue', id))
                      /\ Cardinality(Held(queue', id)) + InHand(taker', id)
                           <= Cardinality(Held(queue, id)) + InHand(taker, id)
    OBVIOUS
  <2>1. Cardinality(Held(queue', id)) \in Nat
    BY <1>5, FS_CardinalityType
  <2> QED BY <2>1, <1>4, <1>5
<1>7. Covers(queue', taker', executed', accepted')
  BY <1>3, <1>4, <1>6, QuietCovers
<1> QED BY <1>3, <1>7 DEF CInv

\* A step that leaves the taker and publishes neither a New nor a trade of anything,
\* and takes an order out of the book or leaves it.
LEMMA IdleCovers ==
  ASSUME CInv, Observe, taker' = taker,
         queue' = queue \/ \E x \in OrderId : loc[x] # NoLoc /\ EraseAt(loc[x]),
         \A i \in DOMAIN out' : /\ i = 1 /\ out'[i].last_qty = 0 /\ out'[i].leaves_qty \in Nat
                                /\ out'[i].exec_type # "New"
  PROVE  /\ accepted' \in [OrderId -> Nat] /\ executed' \in [OrderId -> Nat]
         /\ Covers(queue', taker', executed', accepted')
<1>1. executed' = executed /\ accepted' = accepted
  BY QuietAccounts DEF CInv
<1>2. \A id : InHand(taker, id) \in Nat
  BY InHandTyped DEF CInv, IInv, TypeOK
<1>3. ASSUME NEW id \in OrderId
      PROVE  /\ IsFiniteSet(Held(queue', id))
             /\ Cardinality(Held(queue', id)) + InHand(taker', id)
                  <= Cardinality(Held(queue, id)) + InHand(taker, id)
  <2>1. IsFiniteSet(Held(queue, id)) /\ Cardinality(Held(queue, id)) \in Nat
    BY FS_CardinalityType DEF CInv, Covers
  <2>2. IsFiniteSet(Held(queue', id)) /\ Cardinality(Held(queue', id)) <= Cardinality(Held(queue, id))
    BY <2>1, HeldErased DEF CInv
  <2>3. Cardinality(Held(queue', id)) \in Nat
    BY <2>2, FS_CardinalityType
  <2>4. InHand(taker', id) = InHand(taker, id)
    OBVIOUS
  <2> QED BY <1>2, <2>1, <2>2, <2>3, <2>4
<1>4. \A id \in OrderId : InHand(taker, id) \in Nat /\ InHand(taker', id) \in Nat
  BY <1>2
<1>5. Covers(queue', taker', executed', accepted')
  BY <1>1, <1>3, <1>4, QuietCovers
<1> QED BY <1>1, <1>5 DEF CInv

\* Every step of a session, and every stutter, keeps it.
LEMMA CoverStepKeeps ==
  ASSUME CInv, [SessionNext]_sessionVars PROVE CInv'
<1>1. CASE UNCHANGED sessionVars
  <2>1. /\ UNCHANGED vars /\ accepted' = accepted /\ executed' = executed
        /\ queue' = queue /\ taker' = taker
    BY <1>1 DEF sessionVars, history, vars
  <2>2. IInv'
    BY <2>1, StepKeeps DEF CInv
  <2> QED BY <2>1, <2>2 DEF CInv
<1>2. CASE SessionNext
  <2>1. IInv' /\ Observe
    BY <1>2, SessionStepIsStep, StepKeeps DEF CInv, SessionNext
  <2> DEFINE Covered == /\ accepted' \in [OrderId -> Nat] /\ executed' \in [OrderId -> Nat]
                      /\ Covers(queue', taker', executed', accepted')
  <2>2. SUFFICES Covered
    BY <2>1 DEF CInv
  <2> HIDE DEF Covered
  <2>3. \A id \in OrderId : IsFiniteSet(Held(queue, id)) /\ Cardinality(Held(queue, id)) \in Nat
    BY FS_CardinalityType DEF CInv, Covers
  <2>4. ASSUME NEW o \in Orders, SendNew(o) PROVE Covered
    <3>1. taker = NoNode /\ o \in Order /\ Accept(o) /\ queue' = queue
      BY <2>4, ConstantsAssumption DEF SendNew, OnNew, CInv, IInv, TypeOK
    <3>2. \A id \in OrderId : /\ IsFiniteSet(Held(queue', id))
                              /\ Cardinality(Held(queue', id)) <= Cardinality(Held(queue, id))
      BY <2>3, <3>1
    <3> QED BY <2>1, <3>1, <3>2, AcceptCovers DEF Covered
  <2>5. ASSUME NEW x \in OrderId, OnCancel(x) \/ Crash(x) PROVE Covered
    <3>1. /\ taker' = taker
          /\ queue' = queue \/ (loc[x] # NoLoc /\ EraseAt(loc[x]))
          /\ out' = <<>> \/ out' = <<Report(x, "Canceled", "Canceled", 0, NoPrice, 0)>>
      BY <2>5 DEF OnCancel, Crash, PullOut
    <3>2. \A i \in DOMAIN out' : /\ i = 1 /\ out'[i].last_qty = 0 /\ out'[i].leaves_qty \in Nat
                                 /\ out'[i].exec_type # "New"
      BY <3>1 DEF Report
    <3>3. queue' = queue \/ \E y \in OrderId : loc[y] # NoLoc /\ EraseAt(loc[y])
      BY <3>1
    <3> QED BY <2>1, <3>1, <3>2, <3>3, IdleCovers DEF Covered
  <2>6. ASSUME NEW x \in OrderId, NEW px \in EditedPrices, NEW qty \in NewQtys, OnReplace(x, px, qty)
        PROVE  Covered
    <3>1. taker = NoNode /\ loc[x] # NoLoc /\ EraseAt(loc[x]) /\ px \in PriceTicks /\ qty \in Qty
      BY <2>6, CommandsAssumption, ConstantsAssumption DEF OnReplace, PullOut, CInv, IInv, TypeOK
    <3>2. PICK n \in NodeRead(loc[x]) :
            Accept([n.ord EXCEPT !.qty = qty, !.price = IF px # NoPrice THEN px ELSE @])
      BY <2>6 DEF OnReplace
    <3>3. n \in Node
      <4>1. /\ loc[x].side \in Side /\ loc[x].px \in PriceTicks /\ loc[x].idx \in Nat
            /\ queue[loc[x].side][loc[x].px] \in Seq(Node)
        BY <3>1, LocLevelExists DEF CInv, IInv
      <4>2. InRange(loc[x]) => loc[x].idx + 1 \in DOMAIN queue[loc[x].side][loc[x].px]
        BY <4>1, LenProperties DEF InRange
      <4>3. InRange(loc[x]) => queue[loc[x].side][loc[x].px][loc[x].idx + 1] \in Node
        BY <4>1, <4>2, ElementOfSeq, LenProperties
      <4> QED BY <4>3, ConstantsAssumption DEF NodeRead
    <3>4. [n.ord EXCEPT !.qty = qty, !.price = IF px # NoPrice THEN px ELSE @] \in Order
      BY <3>1, <3>3 DEF Node, Order
    <3>5. \A id \in OrderId : /\ IsFiniteSet(Held(queue', id))
                              /\ Cardinality(Held(queue', id)) <= Cardinality(Held(queue, id))
      BY <2>3, <3>1, HeldErased DEF CInv
    <3> QED BY <2>1, <3>1, <3>2, <3>4, <3>5, AcceptCovers DEF Covered
  <2>7. CASE Handler
    <3>1. CASE Match
      BY <2>1, <3>1, MatchCovers DEF Covered
    <3>2. CASE Rest \/ Complete \/ Abandon
      BY <2>1, <3>2, EndCovers DEF Covered
    <3>3. CASE PublishReplaced
      <4>1. /\ taker' = taker /\ queue' = queue /\ replacing.leaves \in Nat
            /\ out' = <<Report(replacing.order_id, "Replaced", "Replaced", 0, NoPrice, replacing.leaves)>>
        BY <3>3 DEF PublishReplaced, CInv, IInv, TypeOK, Request, Qty
      <4>2. \A i \in DOMAIN out' : /\ i = 1 /\ out'[i].last_qty = 0 /\ out'[i].leaves_qty \in Nat
                                   /\ out'[i].exec_type # "New"
        BY <4>1 DEF Report
      <4> QED BY <2>1, <4>1, <4>2, IdleCovers DEF Covered
    <3> QED BY <2>7, <3>1, <3>2, <3>3 DEF Handler
  <2> QED BY <1>2, <2>4, <2>5, <2>6, <2>7 DEF SessionNext, SendCancel, SendReplace
<1> QED BY <1>1, <1>2

\* Every session begins with nothing accepted and nothing held.
LEMMA SessionInitCInv == SessionInit => CInv
<1> SUFFICES ASSUME SessionInit PROVE CInv
  OBVIOUS
<1>1. /\ IInv /\ taker = NoNode /\ queue = [s \in Side |-> [p \in PriceTicks |-> <<>>]]
      /\ accepted = [id \in OrderId |-> 0] /\ executed = [id \in OrderId |-> 0]
  BY InitIInv DEF SessionInit, Init
<1>2. ASSUME NEW id \in OrderId
      PROVE  IsFiniteSet(Held(queue, id)) /\ Cardinality(Held(queue, id)) = 0
  <2>1. \A s \in Side, p \in PriceTicks : DOMAIN queue[s][p] = {}
    BY <1>1
  <2>2. Spots(queue, id) = {}
    BY <2>1, SpotsAre DEF IsSpot
  <2>3. queue \in Book
    BY <1>1, BookKept
  <2>4. Held(queue, id) = {}
    BY <2>2, <2>3, LeavesTyped, UnitsAre DEF Held
  <2> QED BY <2>4, FS_EmptySet
<1>3. Covers(queue, taker, executed, accepted)
  BY <1>1, <1>2 DEF Covers, InHand
<1> QED BY <1>1, <1>3 DEF CInv

\* Nothing trades, and nothing rests, that was not published as New first.
THEOREM NothingTradesUnaccepted == SessionSpec => []AcceptedCovers
<1>1. CInv /\ [SessionNext]_sessionVars => CInv'
  BY CoverStepKeeps
<1>2. CInv => AcceptedCovers
  <2> SUFFICES ASSUME CInv, NEW id \in OrderId PROVE executed[id] + Open(id) <= accepted[id]
    BY DEF AcceptedCovers
  <2>1. IsFiniteSet(Held(queue, id))
        /\ executed[id] + (Cardinality(Held(queue, id)) + InHand(taker, id)) <= accepted[id]
    BY DEF CInv, Covers
  <2>2. Open(id) = Cardinality(Held(queue, id)) + InHand(taker, id)
    BY <2>1, OpenIsCount DEF CInv
  <2> QED BY <2>1, <2>2
<1> QED BY SessionInitCInv, <1>1, <1>2, PTL DEF SessionSpec
=============================================================================
