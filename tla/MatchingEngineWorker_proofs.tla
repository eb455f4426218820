-------------------- MODULE MatchingEngineWorker_proofs --------------------
(***************************************************************************)
(* What the main thread can conclude from the reports it sees, proved for  *)
(* every set of orders, scripts and ring sizes: a report that is still on  *)
(* its way says no more than the engine knows, whatever was dropped.       *)
(*                                                                         *)
(* strict: no command is a replace.  Then what is left of an order only    *)
(* falls; with replaces, an order of which nothing is left stays so.       *)
(***************************************************************************)
EXTENDS MatchingEngineWorker, EngineBook_proofs

\* l may be left of an order of which v was left before.
Follows(strict, l, v) == IF strict THEN l <= v ELSE v = 0 => l = 0

\* A report that the view keeps.
Tells(r, id) == r.order_id = id /\ r.exec_type \in {"New", "Trade"}

\* The reports rs say that v is left of an order.
Says(rs, id, v) == \E i \in DOMAIN rs : Tells(rs[i], id) /\ rs[i].leaves_qty = v

\* n is an order at work: in the book, or in the hand of on_new.
At(Q, s, p, n) == \E i \in DOMAIN Q[s][p] : Q[s][p][i] = n
Open(Q, t, n) == (t # NoNode /\ n = t) \/ \E s \in Side, p \in PriceTicks : At(Q, s, p, n)

\* The orders at work have ids of their own.
Distinct(Q, t) ==
  /\ Apart(Q)
  /\ t # NoNode => \A s \in Side, p \in PriceTicks : \A i \in DOMAIN Q[s][p] :
                     Q[s][p][i].ord.order_id # t.ord.order_id

\* What is left of the orders at work under id may follow v.
Within(strict, Q, t, id, v) ==
  \A n \in Node : Open(Q, t, n) /\ n.ord.order_id = id => Follows(strict, n.leaves, v)

\* Reports in the order in which they were made.
InTurn(strict, rs) ==
  \A i, j \in DOMAIN rs : \A id \in OrderId :
    i < j /\ Tells(rs[i], id) /\ Tells(rs[j], id) => Follows(strict, rs[j].leaves_qty, rs[i].leaves_qty)

\* v was, or will be, told the main thread as what is left of an order.
Told(V, X, P, id, v) == v \in V[id] \/ Says(X, id, v) \/ Says(P, id, v)

\* What the main thread saw, what is in the ring and what is to be pushed, in the
\* order in which it was said.
InStep(strict, V, X, P) ==
  /\ InTurn(strict, X) /\ InTurn(strict, P)
  /\ \A id \in OrderId, v \in Qty, w \in Qty :
       /\ v \in V[id] /\ (Says(X, id, w) \/ Says(P, id, w)) => Follows(strict, w, v)
       /\ Says(X, id, v) /\ Says(P, id, w) => Follows(strict, w, v)

\* An order id enters with one of these commands; each with one at most.
IsNew(cmd, id) == cmd.kind = "new" /\ cmd.order.order_id = id
Comes(cmds, id) == \E i \in DOMAIN cmds : IsNew(cmds[i], id)
EntersOnce(cmds) ==
  \A i, j \in DOMAIN cmds : \A id \in OrderId : IsNew(cmds[i], id) /\ IsNew(cmds[j], id) => i = j
OnceEach == \A sc \in Scripts : EntersOnce(sc)
NoReplace(cmds) == \A i \in DOMAIN cmds : cmds[i].kind # "replace"

\* Nothing is said, and nothing at work, of an order that is still to come.
Unheard(V, X, P, Q, t, id) ==
  /\ \A v \in Qty : ~Told(V, X, P, id, v)
  /\ \A n \in Node : Open(Q, t, n) => n.ord.order_id # id

\* The inductive invariant of the pipeline.
WInv(strict) ==
  /\ IInv /\ PipelineTypeOK
  /\ Distinct(queue, taker)
  /\ EntersOnce(orderRing) /\ EntersOnce(script)
  /\ strict => NoReplace(orderRing) /\ NoReplace(script)
  /\ \A id \in OrderId : Comes(orderRing, id) => ~Comes(script, id)
  /\ \A id \in OrderId : Comes(orderRing, id) \/ Comes(script, id) =>
       Unheard(view, execRing, pending, queue, taker, id)
  /\ InStep(strict, view, execRing, pending)
  /\ \A id \in OrderId, v \in Qty :
       Told(view, execRing, pending, id, v) => Within(strict, queue, taker, id, v)

-----------------------------------------------------------------------------
(* What a step of the engine does to the orders at work *)

\* Each order at work, and each report that tells of one, comes of an order that was
\* at work before, or of the one in new; and no report says less than is left.
Moves(strict, new) ==
  /\ Distinct(queue', taker')
  /\ \A m \in Node : Open(queue', taker', m) =>
       \/ m.ord.order_id \in new
       \/ \E n \in Node : /\ Open(queue, taker, n) /\ n.ord.order_id = m.ord.order_id
                          /\ Follows(strict, m.leaves, n.leaves)
  /\ \A i \in DOMAIN out' : \A id \in OrderId : Tells(out'[i], id) =>
       /\ \/ id \in new
          \/ \E n \in Node : /\ Open(queue, taker, n) /\ n.ord.order_id = id
                             /\ Follows(strict, out'[i].leaves_qty, n.leaves)
       /\ Within(strict, queue', taker', id, out'[i].leaves_qty)
  /\ InTurn(strict, out')

\* Less may follow, and what may follow in two steps may follow in one.
LEMMA LessFollows ==
  ASSUME NEW strict \in BOOLEAN, NEW l \in Nat, NEW v \in Nat, l <= v
  PROVE  Follows(strict, l, v)
BY DEF Follows

LEMMA FollowsOn ==
  ASSUME NEW strict \in BOOLEAN, NEW l \in Nat, NEW u \in Nat, NEW v \in Nat,
         Follows(strict, l, u), Follows(strict, u, v)
  PROVE  Follows(strict, l, v)
BY DEF Follows

\* What is in the book and in the hand is a node.
LEMMA OpenTyped ==
  ASSUME IInv, NEW n, Open(queue, taker, n)
  PROVE  n \in Node /\ n.ord.order_id \in OrderId /\ n.leaves \in Nat
<1>1. n \in Node
  <2>1. CASE taker # NoNode /\ n = taker
    BY <2>1 DEF IInv, TypeOK
  <2>2. CASE ~(taker # NoNode /\ n = taker)
    <3>1. PICK s \in Side, p \in PriceTicks : At(queue, s, p, n)
      BY <2>2 DEF Open
    <3>2. queue[s][p] \in Seq(Node)
      BY DEF IInv, TypeOK
    <3> QED BY <3>1, <3>2, ElementOfSeq, LenProperties DEF At
  <2> QED BY <2>1, <2>2
<1> QED BY <1>1 DEF Node, Order, Qty

\* A step that adds no order and tells nothing.
LEMMA ThinMoves ==
  ASSUME IInv, IInv', NEW strict \in BOOLEAN, Distinct(queue', taker'),
         \A m \in Node : Open(queue', taker', m) => Open(queue, taker, m),
         \A i \in DOMAIN out' : out'[i].exec_type \notin {"New", "Trade"}
  PROVE  Moves(strict, {})
<1>1. \A i \in DOMAIN out' : \A id \in OrderId : ~Tells(out'[i], id)
  BY DEF Tells
<1>2. InTurn(strict, out')
  BY <1>1 DEF InTurn
<1>3. ASSUME NEW m \in Node, Open(queue', taker', m) PROVE Follows(strict, m.leaves, m.leaves)
  <2>1. m.leaves \in Nat
    BY DEF Node, Qty
  <2> QED BY <2>1, LessFollows
<1> QED BY <1>1, <1>2, <1>3 DEF Moves

\* A new order is alone under its id.
LEMMA NewMoves ==
  ASSUME IInv, NEW strict \in BOOLEAN, Distinct(queue, taker), NEW o \in Orders, OnNew(o),
         \A n \in Node : Open(queue, taker, n) => n.ord.order_id # o.order_id
  PROVE  Moves(strict, {o.order_id})
<1>1. /\ taker = NoNode /\ queue' = queue /\ o \in Order /\ o.qty \in Nat /\ o.order_id \in OrderId
      /\ taker' = [ord |-> o, leaves |-> o.qty] /\ taker' \in Node /\ taker' # NoNode
      /\ taker'.ord = o /\ taker'.leaves = o.qty
  BY ConstantsAssumption, AcceptKeeps DEF OnNew, Accept, IInv, TypeOK, Order, Qty
<1>2. /\ DOMAIN out' = {1} /\ out'[1].order_id = o.order_id /\ out'[1].exec_type = "New"
      /\ out'[1].leaves_qty = o.qty
  BY DEF OnNew, Accept, Report
<1>3. ASSUME NEW s \in Side, NEW p \in PriceTicks, NEW i \in DOMAIN queue[s][p]
      PROVE  queue[s][p][i].ord.order_id # o.order_id
  <2>1. Open(queue, taker, queue[s][p][i])
    BY DEF Open, At
  <2> QED BY <2>1, OpenTyped
<1>4. Distinct(queue', taker')
  BY <1>1, <1>3 DEF Distinct
<1>5. ASSUME NEW m \in Node, Open(queue', taker', m)
      PROVE  m = taker' \/ (Open(queue, taker, m) /\ m.ord.order_id # o.order_id)
  BY <1>1, <1>5 DEF Open
<1>6. ASSUME NEW m \in Node PROVE Follows(strict, m.leaves, m.leaves)
  <2>1. m.leaves \in Nat
    BY DEF Node, Qty
  <2> QED BY <2>1, LessFollows
<1>7. Within(strict, queue', taker', o.order_id, o.qty)
  BY <1>1, <1>5, <1>6 DEF Within
<1>8. InTurn(strict, out')
  BY <1>2 DEF InTurn
<1> QED BY <1>1, <1>2, <1>4, <1>5, <1>6, <1>7, <1>8 DEF Moves, Tells

\* The book untouched or an order pulled out of it, and nobody at work.
LEMMA CancelMoves ==
  ASSUME IInv, NEW strict \in BOOLEAN, Distinct(queue, taker), NEW id \in OrderId,
         OnCancel(id) \/ Ignore(id) \/ Crash(id), IInv'
  PROVE  Moves(strict, {})
<1>1. /\ taker' = taker /\ taker = NoNode
      /\ \A i \in DOMAIN out' : out'[i].exec_type \notin {"New", "Trade"}
  BY DEF OnCancel, Ignore, Crash, Report, IInv, TypeOK
<1>2. /\ Apart(queue')
      /\ \A t \in Side, p \in PriceTicks : \A j \in DOMAIN queue'[t][p] :
           \E i \in DOMAIN queue[t][p] : queue'[t][p][j] = queue[t][p][i]
  <2>1. CASE OnCancel(id)
    BY <2>1, PulledOut DEF OnCancel, Distinct
  <2>2. CASE Ignore(id) \/ Crash(id)
    BY <2>2 DEF Ignore, Crash, Distinct
  <2> QED BY <2>1, <2>2
<1>3. \A m \in Node : Open(queue', taker', m) => Open(queue, taker, m)
  BY <1>1, <1>2 DEF Open, At
<1>4. Distinct(queue', taker')
  BY <1>1, <1>2 DEF Distinct
<1> QED BY <1>1, <1>3, <1>4, ThinMoves

\* What a replace takes out of the book is at work in its place, and of what was in
\* the book something was left.
LEMMA ReplaceMoves ==
  ASSUME IInv, NEW strict \in BOOLEAN, ~strict, GarbageNode = {}, Distinct(queue, taker),
         NEW id \in OrderId, NEW px \in PriceTicks, NEW qty \in NewQtys, OnReplace(id, px, qty),
         IInv'
  PROVE  Moves(strict, {})
<1> DEFINE lc == loc[id]
           n  == queue[lc.side][lc.px][lc.idx + 1]
<1>1. /\ InRange(lc) /\ PullOut(id) /\ loc[id] # NoLoc
      /\ \E o : o.order_id = n.ord.order_id /\ o.qty = qty /\ Accept(o)
  <2>1. PICK m \in NodeRead(lc) :
          Accept([m.ord EXCEPT !.qty = qty, !.price = IF px # NoPrice THEN px ELSE @])
    BY DEF OnReplace
  <2>2. InRange(lc) /\ m = n
    BY <2>1 DEF NodeRead
  <2> DEFINE o == [m.ord EXCEPT !.qty = qty, !.price = IF px # NoPrice THEN px ELSE @]
  <2>3. n \in Node
    <3>1. /\ queue[lc.side][lc.px] \in Seq(Node) /\ lc.idx \in Nat
      BY LocLevelExists DEF OnReplace, IInv
    <3>2. lc.idx + 1 \in DOMAIN queue[lc.side][lc.px]
      BY <2>2, <3>1, LenProperties DEF InRange
    <3> QED BY <3>1, <3>2, ElementOfSeq, LenProperties
  <2>4. o.order_id = n.ord.order_id /\ o.qty = qty
    BY <2>2, <2>3 DEF Node, Order
  <2> HIDE DEF o
  <2> QED BY <2>1, <2>2, <2>4 DEF OnReplace, o
<1>2. /\ n \in Node /\ n.leaves \in Nat /\ n.leaves # 0 /\ Open(queue, taker, n)
      /\ lc.side \in Side /\ lc.px \in PriceTicks
  <2>1. /\ queue[lc.side][lc.px] \in Seq(Node) /\ lc.idx \in Nat
        /\ lc.side \in Side /\ lc.px \in PriceTicks
    BY LocLevelExists DEF OnReplace, IInv
  <2>2. lc.idx + 1 \in DOMAIN queue[lc.side][lc.px]
    BY <1>1, <2>1, LenProperties DEF InRange
  <2>3. n.leaves \in 1 .. n.ord.qty
    BY <2>1, <2>2 DEF IInv, RestingSound
  <2>4. n \in Node
    BY <2>1, <2>2, ElementOfSeq, LenProperties
  <2>5. n.ord.qty \in Nat
    BY <2>4 DEF Node, Order, Qty
  <2>6. Open(queue, taker, n)
    BY <2>1, <2>2 DEF Open, At
  <2> HIDE DEF n
  <2> QED BY <2>1, <2>3, <2>4, <2>5, <2>6
<1>3. PICK o : o.order_id = n.ord.order_id /\ o.qty = qty /\ Accept(o)
  BY <1>1
<1>4. /\ taker' = [ord |-> o, leaves |-> qty] /\ taker'.ord = o /\ taker'.leaves = qty
      /\ DOMAIN out' = {1} /\ out'[1].order_id = n.ord.order_id /\ out'[1].exec_type = "New"
      /\ out'[1].leaves_qty = qty /\ qty \in Nat /\ taker = NoNode
  <2>1. taker' = [ord |-> o, leaves |-> qty]
    BY <1>3 DEF Accept
  <2>2. out' = <<Report(n.ord.order_id, "New", "New", 0, NoPrice, qty)>>
    BY <1>3 DEF Accept
  <2>3. qty \in Nat
    BY ConstantsAssumption DEF Qty
  <2>4. taker = NoNode
    BY DEF OnReplace, IInv, TypeOK
  <2> HIDE DEF n
  <2>5. /\ DOMAIN out' = {1} /\ out'[1].order_id = n.ord.order_id
        /\ out'[1].exec_type = "New" /\ out'[1].leaves_qty = qty
    BY <2>2 DEF Report
  <2> QED BY <2>1, <2>3, <2>4, <2>5
<1>5. /\ Apart(queue')
      /\ \A t \in Side, p \in PriceTicks : \A j \in DOMAIN queue'[t][p] :
           /\ \E i \in DOMAIN queue[t][p] : queue'[t][p][j] = queue[t][p][i]
           /\ queue'[t][p][j].ord.order_id # n.ord.order_id
  <2>1. Apart(queue) /\ PullOut(id) /\ loc[id] # NoLoc /\ InRange(loc[id])
    BY <1>1 DEF Distinct
  <2>2. /\ Apart(queue')
        /\ \A t \in Side, p \in PriceTicks : \A j \in DOMAIN queue'[t][p] :
             \E i \in DOMAIN queue[t][p] : queue'[t][p][j] = queue[t][p][i]
    BY <2>1, PulledOut
  <2>3. \A t \in Side, p \in PriceTicks : \A j \in DOMAIN queue'[t][p] :
          queue'[t][p][j].ord.order_id # n.ord.order_id
    BY <2>1, PulledOut
  <2> HIDE DEF n
  <2> QED BY <2>2, <2>3
<1> HIDE DEF n
<1>6. Distinct(queue', taker')
  BY <1>3, <1>4, <1>5 DEF Distinct
<1>7. ASSUME NEW m \in Node, Open(queue', taker', m)
      PROVE  m = taker' \/ (Open(queue, taker, m) /\ m.ord.order_id # n.ord.order_id)
  BY <1>5, <1>7 DEF Open, At
<1>8. ASSUME NEW m \in Node PROVE Follows(strict, m.leaves, m.leaves)
  <2>1. m.leaves \in Nat
    BY DEF Node, Qty
  <2> QED BY <2>1, LessFollows
<1>9. Follows(strict, qty, n.leaves) /\ Follows(strict, qty, qty)
  BY <1>2 DEF Follows
<1>10. Within(strict, queue', taker', n.ord.order_id, qty)
  BY <1>4, <1>7, <1>9 DEF Within
<1>11. InTurn(strict, out')
  BY <1>4 DEF InTurn
<1>12. taker'.ord.order_id = n.ord.order_id
  BY <1>3, <1>4
<1> QED BY <1>2, <1>4, <1>6, <1>7, <1>8, <1>9, <1>10, <1>11, <1>12 DEF Moves, Tells

\* A fill leaves less of both parties, says so, and has them under two ids.
LEMMA MatchMoves ==
  ASSUME IInv, NEW strict \in BOOLEAN, Distinct(queue, taker), Match
  PROVE  Moves(strict, {})
<1>1. /\ taker \in Node /\ taker' \in Node /\ queue \in Book
      /\ taker # NoNode /\ taker' # NoNode
  BY MatchFills, ConstantsAssumption DEF IInv, TypeOK, Book
<1>2. PICK s \in Side, px \in PriceTicks, maker \in Node, dq \in Nat : Filled(s, px, maker, dq)
  BY MatchFills
<1> DEFINE q == queue[s][px]
           r == IF maker.leaves = 0 THEN Tail(q) ELSE [q EXCEPT ![1] = maker]
           n == q[1]
           A == taker.ord.order_id
           B == n.ord.order_id
           a == TradeReport(taker', dq, px)
           b == TradeReport(maker, dq, px)
<1>3. /\ q \in Seq(Node) /\ q # <<>> /\ n \in Node /\ maker.ord = n.ord /\ taker'.ord = taker.ord
      /\ dq = (IF n.leaves <= taker.leaves THEN n.leaves ELSE taker.leaves)
      /\ maker.leaves = n.leaves - dq /\ taker'.leaves = taker.leaves - dq
      /\ queue' = [queue EXCEPT ![s][px] = r]
      /\ out' = <<a, b>>
  BY <1>2 DEF Filled
<1>4. 1 \in DOMAIN q
  <2> HIDE DEF q
  <2> QED BY <1>3, LenProperties, EmptySeq
<1>5. /\ n.leaves \in Nat /\ taker.leaves \in Nat /\ maker.leaves \in Nat /\ taker'.leaves \in Nat
      /\ A \in OrderId /\ B \in OrderId
  BY <1>1, <1>3 DEF Node, Order, Qty
<1>6. /\ maker.leaves <= n.leaves /\ taker'.leaves <= taker.leaves
      /\ maker.ord.order_id = B /\ taker'.ord.order_id = A
  <2> HIDE DEF n
  <2> QED BY <1>3, <1>5 DEF n
<1>7. /\ queue'[s][px] = r
      /\ \A t \in Side, p \in PriceTicks : (t # s \/ p # px) => queue'[t][p] = queue[t][p]
  <2> HIDE DEF r
  <2> QED BY <1>1, <1>3 DEF Book
<1>8. A # B
  BY <1>1, <1>4 DEF Distinct
<1>9. /\ a.order_id = A /\ a.leaves_qty = taker'.leaves
      /\ b.order_id = B /\ b.leaves_qty = maker.leaves
  <2>1. \A x, y, z : LET t == TradeReport(x, y, z)
                    IN  t.order_id = x.ord.order_id /\ t.leaves_qty = x.leaves
    BY TradeReportIs
  <2> HIDE DEF A, B
  <2> QED BY <2>1, <1>6
<1>10. Open(queue, taker, taker) /\ Open(queue, taker, n)
  BY <1>1, <1>4 DEF Open, At
<1>11. ASSUME NEW t \in Side, NEW p \in PriceTicks, NEW j \in DOMAIN queue'[t][p]
       PROVE  \/ queue'[t][p][j] = maker
              \/ \E i \in DOMAIN queue[t][p] :
                   queue'[t][p][j] = queue[t][p][i] /\ (t # s \/ p # px \/ i # 1)
  <2>1. queue'[s][px] = IF maker.leaves = 0 THEN Tail(queue[s][px])
                        ELSE [queue[s][px] EXCEPT ![1] = maker]
    BY <1>7
  <2>2. queue[s][px] # <<>>
    BY <1>3
  <2>3. \A u \in Side, v \in PriceTicks : (u # s \/ v # px) => queue'[u][v] = queue[u][v]
    BY <1>7
  <2> QED BY <1>1, <2>1, <2>2, <2>3, FillSources
<1>12. ASSUME NEW t \in Side, NEW p \in PriceTicks, NEW i \in DOMAIN queue[t][p],
              t # s \/ p # px \/ i # 1
       PROVE  queue[t][p][i].ord.order_id \notin {A, B} /\ Open(queue, taker, queue[t][p][i])
  <2>1. queue[t][p][i].ord.order_id # A
    BY <1>1 DEF Distinct
  <2>2. queue[t][p][i].ord.order_id # B
    BY <1>4, <1>12 DEF Distinct, Apart
  <2> QED BY <2>1, <2>2 DEF Open, At
<1>13. Apart(queue')
  <2>1. \E g : ComesFrom(r, q, g)
    <3>1. n.leaves \in Nat /\ maker.leaves + dq = n.leaves
      <4> HIDE DEF n
      <4> QED BY <1>3, <1>5
    <3> HIDE DEF q
    <3> QED BY <1>3, <3>1, PoppedTakes, FilledTakes DEF Takes
  <2> HIDE DEF r
  <2>2. PICK g : ComesFrom(queue'[s][px], queue[s][px], g)
    BY <2>1, <1>7
  <2> QED BY <2>2, <1>7, StillApart DEF Distinct
<1> HIDE DEF A, B, n, q, r, a, b
<1>14. Distinct(queue', taker')
  BY <1>6, <1>8, <1>11, <1>12, <1>13 DEF Distinct
<1>15. ASSUME NEW m \in Node, Open(queue', taker', m)
       PROVE  m = taker' \/ m = maker \/ (Open(queue, taker, m) /\ m.ord.order_id \notin {A, B})
  <2>1. CASE m = taker'
    BY <2>1
  <2>2. CASE \E t \in Side, p \in PriceTicks : At(queue', t, p, m)
    <3>1. PICK t \in Side, p \in PriceTicks : At(queue', t, p, m)
      BY <2>2
    <3>2. PICK j \in DOMAIN queue'[t][p] : queue'[t][p][j] = m
      BY <3>1 DEF At
    <3> QED BY <3>2, <1>11, <1>12
  <2> QED BY <1>15, <2>1, <2>2 DEF Open
<1>16. ASSUME NEW m \in Node PROVE Follows(strict, m.leaves, m.leaves)
  <2>1. m.leaves \in Nat
    BY DEF Node, Qty
  <2> QED BY <2>1, LessFollows
<1>17. Follows(strict, taker'.leaves, taker.leaves) /\ Follows(strict, maker.leaves, n.leaves)
  BY <1>5, <1>6, LessFollows
<1>18. /\ Within(strict, queue', taker', A, taker'.leaves)
       /\ Within(strict, queue', taker', B, maker.leaves)
  BY <1>1, <1>6, <1>8, <1>15, <1>16 DEF Within
<1>19. ASSUME NEW i \in DOMAIN out', NEW id \in OrderId, Tells(out'[i], id)
       PROVE  (i = 1 /\ out'[i] = a /\ id = A) \/ (i = 2 /\ out'[i] = b /\ id = B)
  BY <1>3, <1>9, <1>19 DEF Tells
<1>20. InTurn(strict, out')
  BY <1>8, <1>19 DEF InTurn
<1>21. \A i \in DOMAIN out' : \A id \in OrderId : Tells(out'[i], id) =>
         /\ \E m \in Node : /\ Open(queue, taker, m) /\ m.ord.order_id = id
                            /\ Follows(strict, out'[i].leaves_qty, m.leaves)
         /\ Within(strict, queue', taker', id, out'[i].leaves_qty)
  <2>1. n \in Node /\ n.ord.order_id = B /\ taker.ord.order_id = A
    BY <1>3 DEF A, B
  <2> QED BY <1>1, <1>9, <1>10, <1>17, <1>18, <1>19, <2>1
<1>22. ASSUME NEW m \in Node, Open(queue', taker', m)
       PROVE  \E k \in Node : /\ Open(queue, taker, k) /\ k.ord.order_id = m.ord.order_id
                              /\ Follows(strict, m.leaves, k.leaves)
  <2>1. n \in Node /\ n.ord.order_id = B /\ taker.ord.order_id = A
    BY <1>3 DEF A, B
  <2>2. m = taker' \/ m = maker \/ (Open(queue, taker, m) /\ m.ord.order_id \notin {A, B})
    BY <1>22, <1>15
  <2> QED BY <1>1, <1>6, <1>10, <1>16, <1>17, <2>1, <2>2
<1> QED BY <1>14, <1>20, <1>21, <1>22 DEF Moves

\* What rests was in the hand before.
LEMMA RestMoves ==
  ASSUME IInv, IInv', NEW strict \in BOOLEAN, Distinct(queue, taker), Rest
  PROVE  Moves(strict, {})
<1>1. /\ taker \in Node /\ taker # NoNode /\ taker' = NoNode /\ queue \in Book /\ out' = <<>>
  BY DEF Rest, Return, IInv, TypeOK, Book
<1> DEFINE s  == taker.ord.side
           px == taker.ord.price
<1>2. s \in Side /\ px \in PriceTicks
  BY <1>1 DEF Node, Order
<1>3. queue' = [queue EXCEPT ![s][px] = Append(queue[s][px], taker)]
  BY DEF Rest, Enqueue, PutLast
<1> HIDE DEF s, px
<1>4. /\ queue'[s][px] = Append(queue[s][px], taker)
      /\ \A t \in Side, p \in PriceTicks : (t # s \/ p # px) => queue'[t][p] = queue[t][p]
  BY <1>1, <1>2, <1>3 DEF Book
<1>5. \A t \in Side, p \in PriceTicks : \A i \in DOMAIN queue[t][p] :
        queue[t][p][i].ord.order_id # taker.ord.order_id
  BY <1>1 DEF Distinct
<1>6. /\ Apart(queue')
      /\ \A t \in Side, r \in PriceTicks : \A i \in DOMAIN queue'[t][r] :
           \/ queue'[t][r][i] = taker
           \/ i \in DOMAIN queue[t][r] /\ queue'[t][r][i] = queue[t][r][i]
  <2>1. Apart(queue)
    BY DEF Distinct
  <2> QED BY <2>1, <1>1, <1>2, <1>4, <1>5, AppendedApart
<1>7. \A m \in Node : Open(queue', taker', m) => Open(queue, taker, m)
  BY <1>1, <1>6 DEF Open, At
<1>8. Distinct(queue', taker')
  BY <1>1, <1>6 DEF Distinct
<1> QED BY <1>1, <1>7, <1>8, ThinMoves

\* The second report of a taker that is filled repeats that nothing is left.
LEMMA CompleteMoves ==
  ASSUME IInv, NEW strict \in BOOLEAN, Distinct(queue, taker), Complete
  PROVE  Moves(strict, {})
<1>1. /\ taker \in Node /\ taker # NoNode /\ taker' = NoNode /\ queue' = queue
      /\ taker.leaves = 0 /\ Open(queue, taker, taker)
      /\ DOMAIN out' = {1} /\ out'[1].order_id = taker.ord.order_id /\ out'[1].leaves_qty = 0
  BY DEF Complete, Completed, Report, Return, IInv, TypeOK, book, Open
<1>2. Distinct(queue', taker')
  BY <1>1 DEF Distinct
<1>3. ASSUME NEW m \in Node, Open(queue', taker', m)
      PROVE  Open(queue, taker, m) /\ m.ord.order_id # taker.ord.order_id
  BY <1>1, <1>3 DEF Open, At, Distinct
<1>4. ASSUME NEW m \in Node PROVE Follows(strict, m.leaves, m.leaves)
  <2>1. m.leaves \in Nat
    BY DEF Node, Qty
  <2> QED BY <2>1, LessFollows
<1>5. Within(strict, queue', taker', taker.ord.order_id, 0)
  BY <1>3 DEF Within
<1>6. InTurn(strict, out')
  BY <1>1 DEF InTurn
<1>7. Follows(strict, 0, taker.leaves)
  BY <1>1 DEF Follows
<1> QED BY <1>1, <1>2, <1>3, <1>4, <1>5, <1>6, <1>7 DEF Moves, Tells

\* Every step inside a handler.
LEMMA HandlerMoves ==
  ASSUME IInv, IInv', NEW strict \in BOOLEAN, Distinct(queue, taker), Handler
  PROVE  Moves(strict, {})
<1>1. CASE Abandon
  <2>1. queue' = queue /\ taker' = NoNode /\ out' = <<>>
    BY <1>1 DEF Abandon, Return, book
  <2>2. Distinct(queue', taker') /\ \A m \in Node : Open(queue', taker', m) => Open(queue, taker, m)
    BY <2>1 DEF Distinct, Open
  <2> QED BY <2>1, <2>2, ThinMoves
<1>2. CASE PublishReplaced
  <2>1. queue' = queue /\ taker' = taker /\ \A i \in DOMAIN out' : out'[i].exec_type = "Replaced"
    BY <1>2 DEF PublishReplaced, Report
  <2>2. Distinct(queue', taker') /\ \A m \in Node : Open(queue', taker', m) => Open(queue, taker, m)
    BY <2>1
  <2>3. \A i \in DOMAIN out' : out'[i].exec_type \notin {"New", "Trade"}
    BY <2>1
  <2> QED BY <2>2, <2>3, ThinMoves
<1> QED BY <1>1, <1>2, MatchMoves, RestMoves, CompleteMoves DEF Handler

-----------------------------------------------------------------------------
(* What a step of the engine adds to what is told *)

\* What the engine says next follows all that was said, and what is left follows it.
LEMMA MovesTell ==
  ASSUME NEW strict \in BOOLEAN, WInv(strict), IInv', NEW new, Moves(strict, new),
         \A id \in new \cap OrderId : Unheard(view, execRing, pending, queue, taker, id)
  PROVE  /\ InStep(strict, view, execRing, out')
         /\ \A id \in OrderId, v \in Qty :
              Told(view, execRing, out', id, v) => Within(strict, queue', taker', id, v)
         /\ \A id \in OrderId \ new : Unheard(view, execRing, pending, queue, taker, id) =>
              Unheard(view, execRing, out', queue', taker', id)
<1> DEFINE Heard(id, v) == v \in view[id] \/ Says(execRing, id, v)
<1>1. ASSUME NEW id \in OrderId, NEW v \in Qty, Heard(id, v)
      PROVE  id \notin new /\ Within(strict, queue, taker, id, v)
  BY <1>1 DEF WInv, Told, Unheard
<1>2. ASSUME NEW id \in OrderId, id \notin new, NEW m \in Node, Open(queue', taker', m), m.ord.order_id = id
      PROVE  \E n \in Node : /\ Open(queue, taker, n) /\ n.ord.order_id = id
                             /\ Follows(strict, m.leaves, n.leaves)
  BY <1>2 DEF Moves
<1>3. ASSUME NEW id \in OrderId, NEW w, Says(out', id, w)
      PROVE  /\ w \in Nat /\ Within(strict, queue', taker', id, w)
             /\ id \notin new => \E n \in Node : /\ Open(queue, taker, n) /\ n.ord.order_id = id
                                                 /\ Follows(strict, w, n.leaves)
  <2>1. PICK i \in DOMAIN out' : Tells(out'[i], id) /\ out'[i].leaves_qty = w
    BY <1>3 DEF Says
  <2>2. out'[i] \in ExecReport
    <3>1. out' \in Seq(ExecReport)
      BY DEF IInv, TypeOK
    <3> QED BY <3>1, ElementOfSeq, LenProperties
  <2> QED BY <2>1, <2>2 DEF Moves, ExecReport, Qty
<1>4. \A n \in Node : n.leaves \in Nat
  BY DEF Node, Qty
<1>5. ASSUME NEW id \in OrderId, NEW v \in Qty, Heard(id, v) PROVE Within(strict, queue', taker', id, v)
  <2> SUFFICES ASSUME NEW m \in Node, Open(queue', taker', m), m.ord.order_id = id
               PROVE  Follows(strict, m.leaves, v)
    BY DEF Within
  <2>1. PICK n \in Node : /\ Open(queue, taker, n) /\ n.ord.order_id = id
                          /\ Follows(strict, m.leaves, n.leaves)
    BY <1>1, <1>2, <1>5
  <2>2. Follows(strict, n.leaves, v)
    BY <1>1, <1>5, <2>1 DEF Within
  <2> QED BY <1>4, <2>1, <2>2, FollowsOn DEF Qty
<1>6. ASSUME NEW id \in OrderId, NEW v \in Qty, Heard(id, v), NEW w, Says(out', id, w)
      PROVE  Follows(strict, w, v)
  <2>1. PICK n \in Node : /\ Open(queue, taker, n) /\ n.ord.order_id = id
                          /\ Follows(strict, w, n.leaves)
    BY <1>1, <1>3, <1>6
  <2>2. Follows(strict, n.leaves, v)
    BY <1>1, <1>6, <2>1 DEF Within
  <2> QED BY <1>3, <1>4, <1>6, <2>1, <2>2, FollowsOn DEF Qty
<1>7. InStep(strict, view, execRing, out')
  <2>1. InTurn(strict, execRing) /\ InTurn(strict, out')
    BY DEF WInv, InStep, Moves
  <2>2. ASSUME NEW id \in OrderId, NEW v \in Qty, NEW w \in Qty
        PROVE  /\ v \in view[id] /\ (Says(execRing, id, w) \/ Says(out', id, w)) => Follows(strict, w, v)
               /\ Says(execRing, id, v) /\ Says(out', id, w) => Follows(strict, w, v)
    BY <1>6 DEF WInv, InStep
  <2> QED BY <2>1, <2>2 DEF InStep
<1>8. ASSUME NEW id \in OrderId, NEW v \in Qty, Told(view, execRing, out', id, v)
      PROVE  Within(strict, queue', taker', id, v)
  BY <1>3, <1>5, <1>8 DEF Told
<1>9. ASSUME NEW id \in OrderId, id \notin new, Unheard(view, execRing, pending, queue, taker, id)
      PROVE  Unheard(view, execRing, out', queue', taker', id)
  BY <1>2, <1>3, <1>9 DEF Unheard, Told
<1> QED BY <1>7, <1>8, <1>9

-----------------------------------------------------------------------------
(* The rings *)

\* What is left of a queue whose front is taken.
LEMMA Popped ==
  ASSUME NEW S, NEW q \in Seq(S), q # <<>>
  PROVE  /\ Head(q) \in S /\ Head(q) = q[1] /\ 1 \in DOMAIN q
         /\ Tail(q) \in Seq(S) /\ Len(q) \in Nat /\ Len(Tail(q)) \in Nat /\ Len(Tail(q)) + 1 = Len(q)
         /\ \A i \in DOMAIN Tail(q) : i \in Nat /\ i + 1 \in DOMAIN q /\ 1 < i + 1 /\ Tail(q)[i] = q[i + 1]
<1>1. /\ Len(q) \in Nat /\ DOMAIN q = 1 .. Len(q) /\ Len(q) # 0
  BY LenProperties, EmptySeq
<1>2. /\ Head(q) = q[1] /\ Tail(q) \in Seq(S) /\ Len(Tail(q)) = Len(q) - 1
      /\ \A i \in 1 .. Len(Tail(q)) : Tail(q)[i] = q[i + 1]
      /\ DOMAIN Tail(q) = 1 .. Len(Tail(q))
  BY HeadTailProperties, LenProperties
<1>3. 1 \in DOMAIN q
  BY <1>1
<1>4. q[1] \in S
  BY <1>3, ElementOfSeq, LenProperties
<1> DEFINE r == Tail(q)
           n == Len(q)
<1>5. n \in Nat /\ n # 0 /\ DOMAIN q = 1 .. n /\ DOMAIN r = 1 .. n - 1 /\ Len(r) = n - 1
      /\ \A i \in 1 .. n - 1 : r[i] = q[i + 1]
  BY <1>1, <1>2
<1> HIDE DEF r, n
<1>6. /\ Len(r) \in Nat /\ Len(r) + 1 = n
      /\ \A i \in DOMAIN r : i \in Nat /\ i + 1 \in DOMAIN q /\ 1 < i + 1 /\ r[i] = q[i + 1]
  BY <1>5
<1> QED BY <1>2, <1>3, <1>4, <1>6, <1>5 DEF r, n

\* What a queue holds to which an element is added.
LEMMA Pushed ==
  ASSUME NEW S, NEW q \in Seq(S), NEW x \in S
  PROVE  /\ Append(q, x) \in Seq(S) /\ Len(q) \in Nat /\ Len(Append(q, x)) = Len(q) + 1
         /\ \A i \in DOMAIN Append(q, x) : /\ i \in Nat
                                           /\ \/ i \in DOMAIN q /\ Append(q, x)[i] = q[i]
                                              \/ i = Len(q) + 1 /\ Append(q, x)[i] = x
         /\ \A i \in DOMAIN q : i \in Nat /\ i < Len(q) + 1
<1>1. /\ Len(q) \in Nat /\ DOMAIN q = 1 .. Len(q)
      /\ Append(q, x) \in Seq(S) /\ Len(Append(q, x)) = Len(q) + 1
      /\ \A i \in 1 .. Len(q) : Append(q, x)[i] = q[i]
      /\ Append(q, x)[Len(q) + 1] = x
  BY AppendProperties, LenProperties
<1> DEFINE r == Append(q, x)
           n == Len(q)
<1>2. n \in Nat /\ DOMAIN q = 1 .. n /\ DOMAIN r = 1 .. n + 1 /\ r[n + 1] = x
      /\ \A i \in 1 .. n : r[i] = q[i]
  BY <1>1, LenProperties
<1> HIDE DEF r, n
<1>3. ASSUME NEW i \in DOMAIN r
      PROVE  i \in Nat /\ ((i \in DOMAIN q /\ r[i] = q[i]) \/ (i = n + 1 /\ r[i] = x))
  BY <1>2
<1>4. \A i \in DOMAIN q : i \in Nat /\ i < n + 1
  BY <1>2
<1> QED BY <1>1, <1>3, <1>4 DEF r, n

\* The reports that remain when the first is taken are later ones.
LEMMA PoppedReports ==
  ASSUME NEW strict, NEW rs \in Seq(ExecReport), rs # <<>>, InTurn(strict, rs)
  PROVE  /\ InTurn(strict, Tail(rs))
         /\ \A id \in OrderId, w \in Qty : Says(Tail(rs), id, w) =>
              /\ Says(rs, id, w)
              /\ Tells(Head(rs), id) => Follows(strict, w, Head(rs).leaves_qty)
         /\ \A id \in OrderId : Tells(Head(rs), id) => Says(rs, id, Head(rs).leaves_qty)
         /\ Head(rs) \in ExecReport /\ Tail(rs) \in Seq(ExecReport)
<1> DEFINE r == Tail(rs)
           h == Head(rs)
<1>1. /\ h \in ExecReport /\ h = rs[1] /\ 1 \in DOMAIN rs /\ r \in Seq(ExecReport)
      /\ \A i \in DOMAIN r : i \in Nat /\ i + 1 \in DOMAIN rs /\ 1 < i + 1 /\ r[i] = rs[i + 1]
  BY Popped
<1> HIDE DEF r, h
<1>2. InTurn(strict, r)
  BY <1>1 DEF InTurn
<1>3. ASSUME NEW id \in OrderId, NEW w \in Qty, Says(r, id, w)
      PROVE  Says(rs, id, w) /\ (Tells(h, id) => Follows(strict, w, h.leaves_qty))
  <2>1. PICK i \in DOMAIN r : Tells(r[i], id) /\ r[i].leaves_qty = w
    BY <1>3 DEF Says
  <2>2. i + 1 \in DOMAIN rs /\ 1 < i + 1 /\ Tells(rs[i + 1], id) /\ rs[i + 1].leaves_qty = w
    BY <1>1, <2>1
  <2> DEFINE k == i + 1
  <2> HIDE DEF k
  <2>3. k \in DOMAIN rs /\ 1 < k /\ Tells(rs[k], id) /\ rs[k].leaves_qty = w
    BY <2>2 DEF k
  <2> QED BY <1>1, <2>3 DEF Says, InTurn
<1>4. \A id \in OrderId : Tells(h, id) => Says(rs, id, h.leaves_qty)
  BY <1>1 DEF Says
<1> QED BY <1>1, <1>2, <1>3, <1>4 DEF r, h

\* A later report may be added.
LEMMA PushedReports ==
  ASSUME NEW strict, NEW rs \in Seq(ExecReport), NEW x \in ExecReport, InTurn(strict, rs),
         \A id \in OrderId, v \in Qty : Says(rs, id, v) /\ Tells(x, id) => Follows(strict, x.leaves_qty, v)
  PROVE  /\ InTurn(strict, Append(rs, x))
         /\ \A id \in OrderId, w \in Qty : Says(Append(rs, x), id, w) =>
              Says(rs, id, w) \/ (Tells(x, id) /\ w = x.leaves_qty)
<1> DEFINE r == Append(rs, x)
           n == Len(rs)
<1>1. /\ n \in Nat /\ \A i \in DOMAIN rs : i \in Nat /\ i < n + 1
      /\ \A i \in DOMAIN r : /\ i \in Nat
                             /\ \/ i \in DOMAIN rs /\ r[i] = rs[i]
                                \/ i = n + 1 /\ r[i] = x
  BY Pushed
<1> HIDE DEF r, n
<1>2. \A i \in DOMAIN rs : rs[i].leaves_qty \in Qty
  <2> SUFFICES ASSUME NEW i \in DOMAIN rs PROVE rs[i].leaves_qty \in Qty
    OBVIOUS
  <2>1. rs[i] \in ExecReport
    BY ElementOfSeq, LenProperties
  <2> QED BY <2>1 DEF ExecReport
<1>3. InTurn(strict, r)
  <2> SUFFICES ASSUME NEW i \in DOMAIN r, NEW j \in DOMAIN r, NEW id \in OrderId,
                      i < j, Tells(r[i], id), Tells(r[j], id)
               PROVE  Follows(strict, r[j].leaves_qty, r[i].leaves_qty)
    BY DEF InTurn
  <2>1. i \in DOMAIN rs /\ r[i] = rs[i]
    BY <1>1
  <2>2. CASE j \in DOMAIN rs /\ r[j] = rs[j]
    BY <2>1, <2>2 DEF InTurn
  <2>3. CASE r[j] = x
    <3>1. Says(rs, id, rs[i].leaves_qty)
      BY <2>1 DEF Says
    <3> QED BY <1>2, <2>1, <2>3, <3>1
  <2> QED BY <1>1, <2>2, <2>3
<1>4. ASSUME NEW id \in OrderId, NEW w \in Qty, Says(r, id, w)
      PROVE  Says(rs, id, w) \/ (Tells(x, id) /\ w = x.leaves_qty)
  BY <1>1, <1>4 DEF Says
<1> QED BY <1>3, <1>4 DEF r

\* What the main thread shows was in the ring, and what is left there is later.
LEMMA ShowTells ==
  ASSUME NEW strict \in BOOLEAN, WInv(strict), ShowReport
  PROVE  /\ InStep(strict, view', execRing', pending')
         /\ \A id \in OrderId, v \in Qty :
              Told(view', execRing', pending', id, v) => Told(view, execRing, pending, id, v)
<1> DEFINE er == Head(execRing)
<1>1. /\ execRing \in Seq(ExecReport) /\ execRing # <<>> /\ view \in [OrderId -> SUBSET Qty]
      /\ execRing' = Tail(execRing) /\ pending' = pending
      /\ view' = IF er.exec_type \in {"New", "Trade"} THEN [view EXCEPT ![er.order_id] = {er.leaves_qty}]
                 ELSE view
      /\ InStep(strict, view, execRing, pending)
  BY DEF ShowReport, WInv, PipelineTypeOK, workerVars
<1>2. /\ InTurn(strict, execRing')
      /\ \A id \in OrderId, w \in Qty : Says(execRing', id, w) =>
           /\ Says(execRing, id, w)
           /\ Tells(er, id) => Follows(strict, w, er.leaves_qty)
      /\ \A id \in OrderId : Tells(er, id) => Says(execRing, id, er.leaves_qty)
      /\ er \in ExecReport
  BY <1>1, PoppedReports DEF InStep
<1>3. ASSUME NEW id \in OrderId, NEW v \in view'[id]
      PROVE  v \in view[id] \/ (Tells(er, id) /\ v = er.leaves_qty)
  BY <1>1, <1>2, <1>3 DEF Tells, ExecReport
<1> HIDE DEF er
<1>4. InStep(strict, view', execRing', pending')
  BY <1>1, <1>2, <1>3 DEF InStep
<1>5. \A id \in OrderId, v \in Qty :
        Told(view', execRing', pending', id, v) => Told(view, execRing, pending, id, v)
  BY <1>1, <1>2, <1>3 DEF Told
<1> QED BY <1>4, <1>5

\* A report that is pushed is later than those in the ring; one may be dropped.
LEMMA PushTells ==
  ASSUME NEW strict \in BOOLEAN, WInv(strict), PushReport
  PROVE  /\ InStep(strict, view', execRing', pending')
         /\ \A id \in OrderId, v \in Qty :
              Told(view', execRing', pending', id, v) => Told(view, execRing, pending, id, v)
<1> DEFINE er == Head(pending)
<1>1. /\ execRing \in Seq(ExecReport) /\ pending \in Seq(ExecReport) /\ pending # <<>>
      /\ execRing' = Append(execRing, er) \/ execRing' = execRing
      /\ view' = view /\ pending' = Tail(pending)
      /\ InStep(strict, view, execRing, pending)
  BY DEF PushReport, WInv, PipelineTypeOK, mainVars
<1>2. /\ InTurn(strict, pending')
      /\ \A id \in OrderId, w \in Qty : Says(pending', id, w) =>
           /\ Says(pending, id, w)
           /\ Tells(er, id) => Follows(strict, w, er.leaves_qty)
      /\ \A id \in OrderId : Tells(er, id) => Says(pending, id, er.leaves_qty)
      /\ er \in ExecReport
  BY <1>1, PoppedReports DEF InStep
<1> HIDE DEF er
<1>3. er.leaves_qty \in Qty
  BY <1>2 DEF ExecReport
<1>4. /\ InTurn(strict, execRing')
      /\ \A id \in OrderId, w \in Qty : Says(execRing', id, w) =>
           Says(execRing, id, w) \/ (Tells(er, id) /\ w = er.leaves_qty)
  <2>1. CASE execRing' = Append(execRing, er)
    <3>1. \A id \in OrderId, v \in Qty :
            Says(execRing, id, v) /\ Tells(er, id) => Follows(strict, er.leaves_qty, v)
      BY <1>1, <1>2, <1>3 DEF InStep
    <3> QED BY <1>1, <1>2, <2>1, <3>1, PushedReports DEF InStep
  <2>2. CASE execRing' = execRing
    BY <1>1, <2>2 DEF InStep
  <2> QED BY <1>1, <2>1, <2>2
<1>5. InStep(strict, view', execRing', pending')
  BY <1>1, <1>2, <1>3, <1>4 DEF InStep
<1>6. \A id \in OrderId, v \in Qty :
        Told(view', execRing', pending', id, v) => Told(view, execRing, pending, id, v)
  BY <1>1, <1>2, <1>3, <1>4 DEF Told
<1> QED BY <1>5, <1>6

\* A command that is submitted is one of the script, and gone from there, even if
\* the ring does not take it.
LEMMA SubmitCommands ==
  ASSUME NEW strict \in BOOLEAN, WInv(strict), Submit
  PROVE  /\ EntersOnce(orderRing') /\ EntersOnce(script')
         /\ strict => NoReplace(orderRing') /\ NoReplace(script')
         /\ \A id \in OrderId : Comes(orderRing', id) => ~Comes(script', id)
         /\ \A id \in OrderId : Comes(orderRing', id) \/ Comes(script', id) =>
              Comes(orderRing, id) \/ Comes(script, id)
<1> DEFINE cmd == Head(script)
           rest == Tail(script)
           n == Len(orderRing)
<1>1. /\ script \in Seq(Command) /\ script # <<>> /\ orderRing \in Seq(Command)
      /\ script' = rest
      /\ orderRing' = Append(orderRing, cmd) \/ orderRing' = orderRing
      /\ EntersOnce(orderRing) /\ EntersOnce(script)
      /\ strict => NoReplace(orderRing) /\ NoReplace(script)
      /\ \A id \in OrderId : Comes(orderRing, id) => ~Comes(script, id)
  BY DEF Submit, WInv, PipelineTypeOK
<1>2. /\ cmd \in Command /\ cmd = script[1] /\ 1 \in DOMAIN script
      /\ \A i \in DOMAIN rest : i \in Nat /\ i + 1 \in DOMAIN script /\ 1 < i + 1 /\ rest[i] = script[i + 1]
  BY <1>1, Popped
<1> HIDE DEF cmd, rest
<1>3. /\ n \in Nat /\ \A i \in DOMAIN orderRing : i \in Nat /\ i < n + 1
      /\ \A i \in DOMAIN orderRing' : \/ i \in DOMAIN orderRing /\ orderRing'[i] = orderRing[i]
                                      \/ i = n + 1 /\ orderRing'[i] = cmd
  <2>1. /\ n \in Nat /\ \A i \in DOMAIN orderRing : i \in Nat /\ i < n + 1
        /\ \A i \in DOMAIN Append(orderRing, cmd) :
             \/ i \in DOMAIN orderRing /\ Append(orderRing, cmd)[i] = orderRing[i]
             \/ i = n + 1 /\ Append(orderRing, cmd)[i] = cmd
    BY <1>1, <1>2, Pushed
  <2> HIDE DEF n
  <2>2. CASE orderRing' = Append(orderRing, cmd)
    BY <2>1, <2>2
  <2>3. CASE orderRing' = orderRing
    BY <2>1, <2>3
  <2> QED BY <1>1, <2>1, <2>2, <2>3
<1> HIDE DEF n
<1>4. EntersOnce(rest) /\ (strict => NoReplace(rest))
  <2>1. ASSUME NEW i \in DOMAIN rest, NEW j \in DOMAIN rest, NEW id \in OrderId,
               IsNew(rest[i], id), IsNew(rest[j], id)
        PROVE  i = j
    <3>1. i + 1 = j + 1
      BY <1>1, <1>2, <2>1 DEF EntersOnce
    <3> QED BY <1>2, <3>1
  <2> QED BY <1>1, <1>2, <2>1 DEF EntersOnce, NoReplace
<1>5. ASSUME NEW id \in OrderId, Comes(rest, id) PROVE Comes(script, id) /\ ~IsNew(cmd, id)
  <2>1. PICK i \in DOMAIN rest : IsNew(rest[i], id)
    BY <1>5 DEF Comes
  <2>2. i + 1 \in DOMAIN script /\ IsNew(script[i + 1], id) /\ i + 1 # 1
    BY <1>2, <2>1
  <2> QED BY <1>1, <1>2, <2>2 DEF Comes, EntersOnce
<1>6. ASSUME NEW id \in OrderId, Comes(orderRing', id) PROVE Comes(orderRing, id) \/ IsNew(cmd, id)
  BY <1>3, <1>6 DEF Comes
<1>7. \A id \in OrderId : IsNew(cmd, id) => Comes(script, id)
  BY <1>2 DEF Comes
<1>8. EntersOnce(orderRing')
  <2>1. ASSUME NEW i \in DOMAIN orderRing', NEW j \in DOMAIN orderRing', NEW id \in OrderId,
               IsNew(orderRing'[i], id), IsNew(orderRing'[j], id)
        PROVE  i = j
    <3>1. ASSUME NEW k \in DOMAIN orderRing, IsNew(orderRing[k], id) PROVE ~IsNew(cmd, id)
      BY <1>1, <1>7, <3>1 DEF Comes
    <3> QED BY <1>1, <1>3, <2>1, <3>1 DEF EntersOnce
  <2> QED BY <2>1 DEF EntersOnce
<1>9. strict => NoReplace(orderRing')
  BY <1>1, <1>2, <1>3 DEF NoReplace
<1>10. script' = rest
  BY <1>1
<1>11. ASSUME NEW id \in OrderId PROVE Comes(orderRing', id) => ~Comes(script', id)
  BY <1>1, <1>5, <1>6, <1>10
<1>12. ASSUME NEW id \in OrderId, Comes(orderRing', id) \/ Comes(script', id)
       PROVE  Comes(orderRing, id) \/ Comes(script, id)
  BY <1>5, <1>6, <1>7, <1>10, <1>12
<1> QED BY <1>4, <1>8, <1>9, <1>10, <1>11, <1>12

\* A command that the worker takes comes no more.
LEMMA PopCommands ==
  ASSUME NEW strict \in BOOLEAN, WInv(strict), orderRing # <<>>, orderRing' = Tail(orderRing)
  PROVE  /\ EntersOnce(orderRing') /\ (strict => NoReplace(orderRing'))
         /\ \A id \in OrderId : Comes(orderRing', id) => Comes(orderRing, id)
         /\ \A id \in OrderId : IsNew(Head(orderRing), id) =>
              Comes(orderRing, id) /\ ~Comes(orderRing', id) /\ ~Comes(script, id)
         /\ Head(orderRing) \in Command /\ (strict => Head(orderRing).kind # "replace")
<1> DEFINE cmd == Head(orderRing)
           rest == Tail(orderRing)
<1>1. /\ orderRing \in Seq(Command) /\ orderRing' = rest
      /\ EntersOnce(orderRing) /\ (strict => NoReplace(orderRing))
      /\ \A id \in OrderId : Comes(orderRing, id) => ~Comes(script, id)
  BY DEF WInv, PipelineTypeOK
<1>2. /\ cmd \in Command /\ cmd = orderRing[1] /\ 1 \in DOMAIN orderRing
      /\ \A i \in DOMAIN rest : /\ i \in Nat /\ i + 1 \in DOMAIN orderRing /\ 1 < i + 1
                                /\ rest[i] = orderRing[i + 1]
  BY <1>1, Popped
<1> HIDE DEF cmd, rest
<1>3. EntersOnce(rest) /\ (strict => NoReplace(rest))
  <2>1. ASSUME NEW i \in DOMAIN rest, NEW j \in DOMAIN rest, NEW id \in OrderId,
               IsNew(rest[i], id), IsNew(rest[j], id)
        PROVE  i = j
    <3>1. i + 1 = j + 1
      BY <1>1, <1>2, <2>1 DEF EntersOnce
    <3> QED BY <1>2, <3>1
  <2> QED BY <1>1, <1>2, <2>1 DEF EntersOnce, NoReplace
<1>4. ASSUME NEW id \in OrderId, Comes(rest, id) PROVE Comes(orderRing, id) /\ ~IsNew(cmd, id)
  <2>1. PICK i \in DOMAIN rest : IsNew(rest[i], id)
    BY <1>4 DEF Comes
  <2>2. i + 1 \in DOMAIN orderRing /\ IsNew(orderRing[i + 1], id) /\ i + 1 # 1
    BY <1>2, <2>1
  <2> QED BY <1>1, <1>2, <2>2 DEF Comes, EntersOnce
<1>5. \A id \in OrderId : IsNew(cmd, id) => Comes(orderRing, id)
  BY <1>2 DEF Comes
<1>6. strict => cmd.kind # "replace"
  BY <1>1, <1>2 DEF NoReplace
<1> QED BY <1>1, <1>2, <1>3, <1>4, <1>5, <1>6 DEF cmd

-----------------------------------------------------------------------------
(* The steps of the pipeline *)

\* What a command the worker takes makes the engine do.
LEMMA DispatchIsStep ==
  ASSUME NEW cmd \in Command, Dispatch(cmd)
  PROVE  \/ \E o \in Orders : IsNew(cmd, o.order_id) /\ OnNew(o)
         \/ \E id \in OrderId : OnCancel(id) \/ Ignore(id) \/ Crash(id)
         \/ /\ cmd.kind = "replace"
            /\ \E id \in OrderId, px \in PriceTicks, qty \in NewQtys : OnReplace(id, px, qty)
<1>1. \/ cmd.kind = "new" /\ cmd.order \in Orders
      \/ cmd.kind = "cancel" /\ cmd.order_id \in OrderId
      \/ cmd.kind = "replace" /\ cmd.order_id \in OrderId /\ cmd.price \in PriceTicks /\ cmd.qty \in NewQtys
  BY DEF Command
<1>2. CASE cmd.kind = "new" /\ cmd.order \in Orders
  <2>1. OnNew(cmd.order)
    BY <1>2 DEF Dispatch
  <2> QED BY <1>2, <2>1 DEF IsNew
<1>3. CASE cmd.kind = "cancel" /\ cmd.order_id \in OrderId
  <2>1. OnCancel(cmd.order_id) \/ Crash(cmd.order_id) \/ Ignore(cmd.order_id)
    BY <1>3 DEF Dispatch
  <2> QED BY <1>3, <2>1
<1>4. CASE cmd.kind = "replace" /\ cmd.order_id \in OrderId /\ cmd.price \in PriceTicks /\ cmd.qty \in NewQtys
  <2>1. OnReplace(cmd.order_id, cmd.price, cmd.qty) \/ Crash(cmd.order_id) \/ Ignore(cmd.order_id)
    BY <1>4 DEF Dispatch
  <2> QED BY <1>4, <2>1
<1> QED BY <1>1, <1>2, <1>3, <1>4

\* Every step of the pipeline is one of the engine, or leaves it alone.
LEMMA PipelineStepIsStep ==
  ASSUME PipelineTypeOK, [PipelineNext]_pipelineVars
  PROVE  [Next]_vars
<1>1. CASE PopCommand
  <2>1. Head(orderRing) \in Command
    BY <1>1, Popped DEF PopCommand, PipelineTypeOK
  <2>2. Dispatch(Head(orderRing))
    BY <1>1 DEF PopCommand
  <2>3. Next
    BY <2>1, <2>2, DispatchIsStep DEF Next
  <2> QED BY <2>3
<1>2. CASE EngineStep
  BY <1>2 DEF EngineStep, Next
<1>3. CASE UNCHANGED pipelineVars
  BY <1>3 DEF pipelineVars, engineVars
<1>4. CASE PipelineNext /\ ~PopCommand /\ ~EngineStep
  BY <1>4 DEF PipelineNext, Main, Worker, Submit, Submitted, ShowReport, RaiseStop, Join, Exit,
              Continue, PopNothing, PushReport, HandlerDone, engineVars
<1> QED BY <1>1, <1>2, <1>3, <1>4

\* Types, ring sizes and the place of the worker are kept.
LEMMA TypesKeep ==
  ASSUME PipelineTypeOK, IInv, IInv', [PipelineNext]_pipelineVars
  PROVE  PipelineTypeOK'
<1>1. out' \in Seq(ExecReport) /\ OrderCap \in Nat /\ ExecCap \in Nat
  BY WorkerAssumption DEF IInv, TypeOK
<1>2. CASE Submit
  <2>1. /\ script \in Seq(Command) /\ script # <<>> /\ orderRing \in Seq(Command)
        /\ Len(orderRing) <= OrderCap /\ Len(orderRing) \in Nat
    BY <1>2, LenProperties DEF Submit, PipelineTypeOK
  <2>2. Head(script) \in Command /\ Tail(script) \in Seq(Command)
    BY <2>1, Popped
  <2>3. /\ Append(orderRing, Head(script)) \in Seq(Command)
        /\ Len(Append(orderRing, Head(script))) = Len(orderRing) + 1
    BY <2>1, <2>2, Pushed
  <2>4. orderRing' \in Seq(Command) /\ Len(orderRing') <= OrderCap
    <3>1. orderRing' = IF Len(orderRing) < OrderCap THEN Append(orderRing, Head(script)) ELSE orderRing
      BY <1>2 DEF Submit
    <3> QED BY <1>1, <2>1, <2>3, <3>1
  <2> QED BY <1>2, <2>2, <2>4 DEF Submit, PipelineTypeOK, workerVars, engineVars, vars
<1>3. CASE ShowReport
  <2>1. execRing \in Seq(ExecReport) /\ execRing # <<>> /\ unseen \in Nat
        /\ Len(execRing) + unseen <= ExecCap
    BY <1>3 DEF ShowReport, PipelineTypeOK
  <2>2. /\ Head(execRing) \in ExecReport /\ Tail(execRing) \in Seq(ExecReport)
        /\ Len(Tail(execRing)) \in Nat /\ Len(Tail(execRing)) + 1 = Len(execRing)
    BY <2>1, Popped
  <2>3. execRing' = Tail(execRing) /\ unseen' = unseen + 1
    BY <1>3 DEF ShowReport
  <2>4. unseen' \in Nat /\ Len(execRing') + unseen' <= ExecCap
    BY <1>1, <2>1, <2>2, <2>3
  <2>5. view' \in [OrderId -> SUBSET Qty]
    BY <1>3, <2>2 DEF ShowReport, PipelineTypeOK, ExecReport
  <2>6. \A id \in OrderId : \A v, w \in view'[id] : v = w
    BY <1>3, <2>2 DEF ShowReport, PipelineTypeOK, ExecReport
  <2> QED BY <1>3, <2>2, <2>3, <2>4, <2>5, <2>6 DEF ShowReport, PipelineTypeOK, workerVars, engineVars, vars
<1>4. CASE PushReport
  <2>1. /\ pending \in Seq(ExecReport) /\ pending # <<>> /\ execRing \in Seq(ExecReport)
        /\ Len(execRing) \in Nat /\ unseen \in Nat /\ Len(execRing) + unseen <= ExecCap
        /\ unseen' \in 0 .. unseen
        /\ execRing' = IF Len(execRing) + unseen' < ExecCap THEN Append(execRing, Head(pending)) ELSE execRing
    BY <1>4, LenProperties DEF PushReport, PipelineTypeOK
  <2>2. Head(pending) \in ExecReport /\ Tail(pending) \in Seq(ExecReport)
    BY <2>1, Popped
  <2>3. /\ Append(execRing, Head(pending)) \in Seq(ExecReport)
        /\ Len(Append(execRing, Head(pending))) = Len(execRing) + 1
    BY <2>1, <2>2, Pushed
  <2>4. execRing' \in Seq(ExecReport) /\ Len(execRing') + unseen' <= ExecCap /\ unseen' \in Nat
    BY <1>1, <2>1, <2>3
  <2>5. pending' = Tail(pending)
    BY <1>4 DEF PushReport
  <2> QED BY <1>4, <2>2, <2>4, <2>5 DEF PushReport, PipelineTypeOK, mainVars
<1>5. CASE PopCommand
  <2>1. Tail(orderRing) \in Seq(Command) /\ Len(Tail(orderRing)) <= OrderCap
    <3>1. /\ orderRing \in Seq(Command) /\ orderRing # <<>> /\ Len(orderRing) <= OrderCap
      BY <1>5 DEF PopCommand, PipelineTypeOK
    <3>2. /\ Tail(orderRing) \in Seq(Command) /\ Len(Tail(orderRing)) \in Nat
          /\ Len(Tail(orderRing)) + 1 = Len(orderRing)
      BY <3>1, Popped
    <3> QED BY <1>1, <3>1, <3>2
  <2> QED BY <1>1, <1>5, <2>1 DEF PopCommand, PipelineTypeOK, mainVars
<1>6. CASE EngineStep
  BY <1>1, <1>6 DEF EngineStep, PipelineTypeOK, mainVars, ringsVars
<1>7. CASE Submitted \/ RaiseStop \/ Join
  BY <1>7 DEF Submitted, RaiseStop, Join, PipelineTypeOK, ringsVars, workerVars, engineVars, vars
<1>8. CASE Exit \/ Continue \/ PopNothing \/ HandlerDone
  BY <1>8 DEF Exit, Continue, PopNothing, HandlerDone, PipelineTypeOK, mainVars, ringsVars, engineVars, vars
<1>9. CASE UNCHANGED pipelineVars
  BY <1>9 DEF pipelineVars, PipelineTypeOK, mainVars, ringsVars, workerVars, engineVars, vars
<1> QED BY <1>2, <1>3, <1>4, <1>5, <1>6, <1>7, <1>8, <1>9 DEF PipelineNext, Main, Worker

\* A step that leaves the engine, and adds no command and nothing told.
LEMMA EngineAlone ==
  ASSUME NEW strict \in BOOLEAN, WInv(strict), IInv', PipelineTypeOK', queue' = queue, taker' = taker,
         EntersOnce(orderRing'), EntersOnce(script'),
         strict => NoReplace(orderRing') /\ NoReplace(script'),
         \A id \in OrderId : Comes(orderRing', id) => ~Comes(script', id),
         \A id \in OrderId : Comes(orderRing', id) \/ Comes(script', id) =>
           Comes(orderRing, id) \/ Comes(script, id),
         InStep(strict, view', execRing', pending'),
         \A id \in OrderId, v \in Qty :
           Told(view', execRing', pending', id, v) => Told(view, execRing, pending, id, v)
  PROVE  WInv(strict)'
<1>1. \A id \in OrderId : Unheard(view, execRing, pending, queue, taker, id) =>
        Unheard(view', execRing', pending', queue', taker', id)
  BY DEF Unheard
<1>2. \A id \in OrderId : Comes(orderRing', id) \/ Comes(script', id) =>
        Unheard(view', execRing', pending', queue', taker', id)
  BY <1>1 DEF WInv
<1>3. \A id \in OrderId, v \in Qty :
        Told(view', execRing', pending', id, v) => Within(strict, queue', taker', id, v)
  BY DEF WInv
<1>4. Distinct(queue', taker')
  BY DEF WInv
<1> QED BY <1>2, <1>3, <1>4 DEF WInv

\* The steps of the worker that move the engine: the command it takes is the last to
\* enter its id.
LEMMA PopKeeps ==
  ASSUME NEW strict \in BOOLEAN, strict \/ GarbageNode = {}, WInv(strict), IInv', PipelineTypeOK',
         PopCommand
  PROVE  WInv(strict)'
<1> DEFINE cmd == Head(orderRing)
<1>1. /\ orderRing # <<>> /\ orderRing' = Tail(orderRing) /\ Dispatch(cmd) /\ pending' = out'
      /\ script' = script /\ view' = view /\ execRing' = execRing
  BY DEF PopCommand, mainVars
<1>2. /\ EntersOnce(orderRing') /\ (strict => NoReplace(orderRing'))
      /\ \A id \in OrderId : Comes(orderRing', id) => Comes(orderRing, id)
      /\ \A id \in OrderId : IsNew(cmd, id) =>
           Comes(orderRing, id) /\ ~Comes(orderRing', id) /\ ~Comes(script, id)
      /\ cmd \in Command /\ (strict => cmd.kind # "replace")
  BY <1>1, PopCommands
<1> HIDE DEF cmd
<1>3. IInv /\ Distinct(queue, taker)
  BY DEF WInv
<1>4. \E new : /\ Moves(strict, new) /\ \A id \in new : IsNew(cmd, id)
  <2>1. CASE \E o \in Orders : IsNew(cmd, o.order_id) /\ OnNew(o)
    <3>1. PICK o \in Orders : IsNew(cmd, o.order_id) /\ OnNew(o)
      BY <2>1
    <3>2. o.order_id \in OrderId
      BY ConstantsAssumption DEF Order
    <3>3. \A n \in Node : Open(queue, taker, n) => n.ord.order_id # o.order_id
      BY <1>2, <3>1, <3>2 DEF WInv, Unheard
    <3>4. Moves(strict, {o.order_id})
      BY <1>3, <3>1, <3>3, NewMoves
    <3> QED BY <3>1, <3>4
  <2>2. CASE \E id \in OrderId : OnCancel(id) \/ Ignore(id) \/ Crash(id)
    <3>1. PICK id \in OrderId : OnCancel(id) \/ Ignore(id) \/ Crash(id)
      BY <2>2
    <3>2. Moves(strict, {})
      BY <1>3, <3>1, CancelMoves
    <3> QED BY <3>2
  <2>3. CASE /\ cmd.kind = "replace"
             /\ \E id \in OrderId, px \in PriceTicks, qty \in NewQtys : OnReplace(id, px, qty)
    <3>1. ~strict /\ GarbageNode = {}
      BY <1>2, <2>3
    <3>2. PICK id \in OrderId, px \in PriceTicks, qty \in NewQtys : OnReplace(id, px, qty)
      BY <2>3
    <3>3. Moves(strict, {})
      BY <1>3, <3>1, <3>2, ReplaceMoves
    <3> QED BY <3>3
  <2> QED BY <1>1, <1>2, <2>1, <2>2, <2>3, DispatchIsStep
<1>5. PICK new : Moves(strict, new) /\ \A id \in new : IsNew(cmd, id)
  BY <1>4
<1>6. \A id \in new \cap OrderId : Unheard(view, execRing, pending, queue, taker, id)
  BY <1>2, <1>5 DEF WInv
<1>7. /\ InStep(strict, view, execRing, out')
      /\ \A id \in OrderId, v \in Qty :
           Told(view, execRing, out', id, v) => Within(strict, queue', taker', id, v)
      /\ \A id \in OrderId \ new : Unheard(view, execRing, pending, queue, taker, id) =>
           Unheard(view, execRing, out', queue', taker', id)
  BY <1>5, <1>6, MovesTell
<1>8. ASSUME NEW id \in OrderId, Comes(orderRing', id) \/ Comes(script', id)
      PROVE  Unheard(view', execRing', pending', queue', taker', id)
  <2>1. id \notin new /\ Unheard(view, execRing, pending, queue, taker, id)
    BY <1>1, <1>2, <1>5, <1>8 DEF WInv
  <2> QED BY <1>1, <1>7, <2>1
<1>9. Distinct(queue', taker')
  BY <1>5 DEF Moves
<1>10. \A id \in OrderId : Comes(orderRing', id) => ~Comes(script', id)
  BY <1>1, <1>2 DEF WInv
<1>11. EntersOnce(script') /\ (strict => NoReplace(orderRing') /\ NoReplace(script'))
  BY <1>1, <1>2 DEF WInv
<1>12. /\ InStep(strict, view', execRing', pending')
       /\ \A id \in OrderId, v \in Qty :
            Told(view', execRing', pending', id, v) => Within(strict, queue', taker', id, v)
  BY <1>1, <1>7
<1> QED BY <1>2, <1>8, <1>9, <1>10, <1>11, <1>12 DEF WInv

LEMMA EngineStepKeeps ==
  ASSUME NEW strict \in BOOLEAN, WInv(strict), IInv', PipelineTypeOK', EngineStep
  PROVE  WInv(strict)'
<1>1. /\ Handler /\ pending' = out' /\ orderRing' = orderRing
      /\ script' = script /\ view' = view /\ execRing' = execRing
  BY DEF EngineStep, mainVars, ringsVars
<1>2. Moves(strict, {})
  BY <1>1, HandlerMoves DEF WInv
<1>3. /\ InStep(strict, view, execRing, out')
      /\ \A id \in OrderId, v \in Qty :
           Told(view, execRing, out', id, v) => Within(strict, queue', taker', id, v)
      /\ \A id \in OrderId \ {} : Unheard(view, execRing, pending, queue, taker, id) =>
           Unheard(view, execRing, out', queue', taker', id)
  BY <1>2, MovesTell
<1>4. \A id \in OrderId : Comes(orderRing', id) \/ Comes(script', id) =>
        Unheard(view', execRing', pending', queue', taker', id)
  BY <1>1, <1>3 DEF WInv
<1>5. Distinct(queue', taker')
  BY <1>2 DEF Moves
<1>6. /\ EntersOnce(orderRing') /\ EntersOnce(script')
      /\ strict => NoReplace(orderRing') /\ NoReplace(script')
      /\ \A id \in OrderId : Comes(orderRing', id) => ~Comes(script', id)
  BY <1>1 DEF WInv
<1>7. /\ InStep(strict, view', execRing', pending')
      /\ \A id \in OrderId, v \in Qty :
           Told(view', execRing', pending', id, v) => Within(strict, queue', taker', id, v)
  BY <1>1, <1>3
<1> QED BY <1>4, <1>5, <1>6, <1>7 DEF WInv

\* Every step of the pipeline, and every stutter, keeps the invariant.
LEMMA PipelineStepKeeps ==
  ASSUME NEW strict \in BOOLEAN, strict \/ GarbageNode = {}, WInv(strict),
         [PipelineNext]_pipelineVars
  PROVE  WInv(strict)'
<1>1. IInv /\ PipelineTypeOK
  BY DEF WInv
<1>2. IInv'
  BY <1>1, PipelineStepIsStep, StepKeeps
<1>3. PipelineTypeOK'
  BY <1>1, <1>2, TypesKeep
<1>4. CASE PopCommand
  BY <1>2, <1>3, <1>4, PopKeeps
<1>5. CASE EngineStep
  BY <1>2, <1>3, <1>5, EngineStepKeeps
<1>6. CASE Submit
  <2>1. /\ queue' = queue /\ taker' = taker /\ view' = view /\ execRing' = execRing /\ pending' = pending
    BY <1>6 DEF Submit, workerVars, engineVars, vars
  <2>2. /\ InStep(strict, view', execRing', pending')
        /\ \A id \in OrderId, v \in Qty :
             Told(view', execRing', pending', id, v) => Told(view, execRing, pending, id, v)
    BY <2>1 DEF WInv
  <2> QED BY <1>2, <1>3, <1>6, <2>1, <2>2, SubmitCommands, EngineAlone
<1>7. CASE ShowReport \/ PushReport
  <2>1. queue' = queue /\ taker' = taker /\ script' = script /\ orderRing' = orderRing
    BY <1>7 DEF ShowReport, PushReport, workerVars, engineVars, vars, mainVars
  <2>2. /\ InStep(strict, view', execRing', pending')
        /\ \A id \in OrderId, v \in Qty :
             Told(view', execRing', pending', id, v) => Told(view, execRing, pending, id, v)
    BY <1>7, ShowTells, PushTells
  <2>3. /\ EntersOnce(orderRing') /\ EntersOnce(script')
        /\ strict => NoReplace(orderRing') /\ NoReplace(script')
        /\ \A id \in OrderId : Comes(orderRing', id) => ~Comes(script', id)
        /\ \A id \in OrderId : Comes(orderRing', id) \/ Comes(script', id) =>
             Comes(orderRing, id) \/ Comes(script, id)
    BY <2>1 DEF WInv
  <2> QED BY <1>2, <1>3, <2>1, <2>2, <2>3, EngineAlone
<1>8. CASE \/ Submitted \/ RaiseStop \/ Join \/ Exit \/ Continue \/ PopNothing \/ HandlerDone
           \/ UNCHANGED pipelineVars
  <2>1. /\ queue' = queue /\ taker' = taker /\ script' = script /\ orderRing' = orderRing
        /\ view' = view /\ execRing' = execRing /\ pending' = pending
    BY <1>8 DEF Submitted, RaiseStop, Join, Exit, Continue, PopNothing, HandlerDone, pipelineVars,
                mainVars, ringsVars, workerVars, engineVars, vars
  <2>2. /\ InStep(strict, view', execRing', pending')
        /\ \A id \in OrderId, v \in Qty :
             Told(view', execRing', pending', id, v) => Told(view, execRing, pending, id, v)
    BY <2>1 DEF WInv
  <2>3. /\ EntersOnce(orderRing') /\ EntersOnce(script')
        /\ strict => NoReplace(orderRing') /\ NoReplace(script')
        /\ \A id \in OrderId : Comes(orderRing', id) => ~Comes(script', id)
        /\ \A id \in OrderId : Comes(orderRing', id) \/ Comes(script', id) =>
             Comes(orderRing, id) \/ Comes(script, id)
    BY <2>1 DEF WInv
  <2> QED BY <1>2, <1>3, <2>1, <2>2, <2>3, EngineAlone
<1> QED BY <1>4, <1>5, <1>6, <1>7, <1>8 DEF PipelineNext, Main, Worker

\* The pipeline starts with nothing at work and nothing told.
LEMMA PipelineInitTypes == PipelineInit => IInv /\ PipelineTypeOK
<1> SUFFICES ASSUME PipelineInit PROVE IInv /\ PipelineTypeOK
  OBVIOUS
<1>1. IInv
  BY InitIInv DEF PipelineInit
<1>2. /\ script \in Seq(Command) /\ orderRing = <<>> /\ execRing = <<>> /\ pending = <<>>
      /\ main = "submit" /\ stop = FALSE /\ worker = "poll" /\ unseen = 0
      /\ view = [id \in OrderId |-> {}] /\ pc = "idle"
  BY WorkerAssumption DEF PipelineInit, Init
<1>3. <<>> \in Seq(Command) /\ <<>> \in Seq(ExecReport) /\ Len(<<>>) = 0
  OBVIOUS
<1>4. OrderCap \in Nat /\ ExecCap \in Nat
  BY WorkerAssumption
<1> QED BY <1>1, <1>2, <1>3, <1>4 DEF PipelineTypeOK

LEMMA PipelineInitWInv ==
  ASSUME OnceEach, NEW strict \in BOOLEAN, PipelineInit, strict => NoReplace(script)
  PROVE  WInv(strict)
<1>1. /\ script \in Scripts /\ orderRing = <<>> /\ execRing = <<>> /\ pending = <<>>
      /\ view = [id \in OrderId |-> {}] /\ taker = NoNode
      /\ queue = [s \in Side |-> [p \in PriceTicks |-> <<>>]]
  BY DEF PipelineInit, Init
<1>2. \A s \in Side, p \in PriceTicks : queue[s][p] = <<>>
  BY <1>1
<1>3. Distinct(queue, taker) /\ \A n : ~Open(queue, taker, n)
  BY <1>1, <1>2 DEF Distinct, Apart, Open, At
<1>4. \A id \in OrderId, v \in Qty : ~Told(view, execRing, pending, id, v)
  BY <1>1 DEF Told, Says
<1>5. EntersOnce(orderRing) /\ NoReplace(orderRing) /\ \A id \in OrderId : ~Comes(orderRing, id)
  BY <1>1 DEF EntersOnce, NoReplace, Comes
<1>6. EntersOnce(script)
  BY <1>1 DEF OnceEach
<1>7. InStep(strict, view, execRing, pending)
  <2>1. InTurn(strict, execRing) /\ InTurn(strict, pending)
    BY <1>1 DEF InTurn
  <2> QED BY <1>4, <2>1 DEF InStep, Told
<1>8. \A id \in OrderId : Unheard(view, execRing, pending, queue, taker, id)
  BY <1>3, <1>4 DEF Unheard
<1> QED BY <1>3, <1>4, <1>5, <1>6, <1>7, <1>8, PipelineInitTypes DEF WInv

-----------------------------------------------------------------------------

\* The engine is as sound in the pipeline as by itself, whatever the scripts, the
\* sizes of the rings and what they drop, and the worker between two commands has
\* no handler half run.
THEOREM PipelineSound == PipelineSpec => [](IInv /\ PipelineTypeOK)
<1>1. ASSUME IInv /\ PipelineTypeOK, [PipelineNext]_pipelineVars PROVE (IInv /\ PipelineTypeOK)'
  BY <1>1, PipelineStepIsStep, StepKeeps, TypesKeep
<1> QED BY PipelineInitTypes, <1>1, PTL DEF PipelineSpec

\* The pipeline's variables keep their types, and the rings their size.
THEOREM PipelineTypeCorrect == PipelineSpec => []PipelineTypeOK
<1>1. IInv /\ PipelineTypeOK => PipelineTypeOK
  OBVIOUS
<1> QED BY PipelineSound, <1>1, PTL

\* An order in the book has something left, and what the main thread saw bounds it.
LEMMA DoneIsGone ==
  ASSUME NEW strict \in BOOLEAN, WInv(strict) PROVE CompletedIsGone
<1> SUFFICES ASSUME NEW id \in OrderId, view[id] = {0}, NEW s \in Side, NEW p \in PriceTicks,
                    NEW i \in DOMAIN queue[s][p], queue[s][p][i].ord.order_id = id
             PROVE  FALSE
  BY DEF CompletedIsGone
<1> DEFINE n == queue[s][p][i]
<1>1. Open(queue, taker, n) /\ n.leaves \in 1 .. n.ord.qty
  BY DEF Open, At, WInv, IInv, RestingSound
<1>2. n \in Node
  BY <1>1, OpenTyped DEF WInv
<1>3. Told(view, execRing, pending, id, 0) /\ 0 \in Qty
  BY DEF Told, Qty
<1>4. Follows(strict, n.leaves, 0)
  BY <1>1, <1>2, <1>3 DEF WInv, Within
<1>5. n.leaves \in Nat /\ n.leaves # 0
  BY <1>1, <1>2 DEF Node, Order, Qty
<1> HIDE DEF n
<1> QED BY <1>4, <1>5 DEF Follows

\* An order of which the main thread has seen that nothing is left is not in the
\* book: in no script without replaces, and in no script at all unless a replace
\* reads a node past the end of a deque and the process lives on.
THEOREM CompletedStaysGone ==
  ASSUME OnceEach
  PROVE  (GarbageNode = {} \/ NoReplace(script)) /\ PipelineSpec => []CompletedIsGone
<1>1. PipelineInit /\ NoReplace(script) => WInv(TRUE)
  BY PipelineInitWInv
<1>2. WInv(TRUE) /\ [PipelineNext]_pipelineVars => WInv(TRUE)'
  BY PipelineStepKeeps
<1>3. WInv(TRUE) => CompletedIsGone
  BY DoneIsGone
<1>4. PipelineInit => WInv(FALSE)
  BY PipelineInitWInv
<1>5. WInv(FALSE) => CompletedIsGone
  BY DoneIsGone
<1>6. CASE GarbageNode = {}
  <2>1. WInv(FALSE) /\ [PipelineNext]_pipelineVars => WInv(FALSE)'
    BY <1>6, PipelineStepKeeps
  <2> QED BY <1>4, <1>5, <2>1, PTL DEF PipelineSpec
<1>7. CASE GarbageNode # {}
  <2>1. GarbageNode = {} \/ NoReplace(script) => NoReplace(script)
    BY <1>7
  <2> QED BY <1>1, <1>2, <1>3, <2>1, PTL DEF PipelineSpec
<1> QED BY <1>6, <1>7

\* What the main thread learns of an order only falls, in a session without replaces,
\* whatever reports were dropped on the way.
THEOREM ViewOnlyShrinks ==
  ASSUME OnceEach
  PROVE  NoReplace(script) /\ PipelineSpec => ViewShrinks
<1>1. PipelineInit /\ NoReplace(script) => WInv(TRUE)
  BY PipelineInitWInv
<1>2. WInv(TRUE) /\ [PipelineNext]_pipelineVars => WInv(TRUE)'
  BY PipelineStepKeeps
<1>3. ASSUME WInv(TRUE), [PipelineNext]_pipelineVars
      PROVE  [\A id \in OrderId \ ReplaceTargets :
                (view[id] # {} /\ view'[id] # view[id]) =>
                  \A old \in view[id], new \in view'[id] : new < old]_pipelineVars
  <2> SUFFICES ASSUME NEW id \in OrderId, view'[id] # view[id],
                      NEW old \in view[id], NEW new \in view'[id]
               PROVE  new < old
    OBVIOUS
  <2>1. PipelineTypeOK /\ PipelineTypeOK'
    BY <1>2, <1>3 DEF WInv
  <2>2. ShowReport
    BY <1>3 DEF PipelineNext, Main, Worker, Submit, Submitted, RaiseStop, Join, Exit,
              Continue, PopNothing, PopCommand, PushReport, EngineStep, HandlerDone,
              mainVars, ringsVars, workerVars, pipelineVars
  <2> DEFINE er == Head(execRing)
  <2>3. /\ view \in [OrderId -> SUBSET Qty] /\ execRing \in Seq(ExecReport) /\ execRing # <<>>
        /\ view' = IF er.exec_type \in {"New", "Trade"} THEN [view EXCEPT ![er.order_id] = {er.leaves_qty}]
                   ELSE view
    BY <2>1, <2>2 DEF ShowReport, PipelineTypeOK
  <2>4. er \in ExecReport /\ er = execRing[1] /\ 1 \in DOMAIN execRing
    BY <2>3, Popped
  <2> HIDE DEF er
  <2>5. Tells(er, id) /\ new = er.leaves_qty /\ view'[id] = {new}
    BY <2>3, <2>4 DEF Tells, ExecReport
  <2>6. Says(execRing, id, new) /\ new \in Qty /\ old \in Qty
    BY <2>3, <2>4, <2>5 DEF Says, ExecReport
  <2>7. new <= old
    BY <1>3, <2>6 DEF WInv, InStep, Follows
  <2>8. view[id] = {old}
    BY <2>1 DEF PipelineTypeOK
  <2> QED BY <2>5, <2>6, <2>7, <2>8 DEF Qty
<1> QED BY <1>1, <1>2, <1>3, PTL DEF PipelineSpec, ViewShrinks
=============================================================================
