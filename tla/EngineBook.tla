----------------------------- MODULE EngineBook -----------------------------
(***************************************************************************)
(* The L3 matching engine: class EngineBook.  One thread calls on_new,     *)
(* on_cancel and on_replace; every ExecReport leaves through the sink.     *)
(*                                                                         *)
(* bids_ and asks_ are `levels' (the keys of each std::map) and `queue'    *)
(* (the deque stored under a key).  Keys and deques are kept apart because *)
(* operator[] can create a key whose deque is empty.  loc_ is `loc'.       *)
(*                                                                         *)
(* A handler is cut at every call of the sink, which is where the threads  *)
(* at the other end of the rings can see it move: `pc' is the place in     *)
(* on_new, `taker' its local, `replacing' the report on_replace still owes *)
(* and `out' what the last step published.                                 *)
(*                                                                         *)
(* Prices are renumbered 0 .. MaxPx with their order kept; kNoPrice, the   *)
(* least int64, is 0.                                                      *)
(***************************************************************************)
EXTENDS Naturals, Sequences, FiniteSets

CONSTANTS
  OrderId,        \* ids an order can carry
  MaxPx,          \* the greatest price
  Orders,         \* the orders the gateway may submit
  NewQtys,        \* the quantities a replace may ask for
  GarbageNode,    \* what reading past the end of a deque may yield
  DanglingErase,  \* outcomes of loc_.erase on a dead iterator
  MaxResting,     \* bound on the orders in the book
  NoLoc, NoNode, NoRequest

NoPrice    == 0
PriceTicks == 0 .. MaxPx
Qty        == Nat
Side       == {"Bid", "Ask"}
\* Stop, StopLimit, Pegged and Iceberg are never tested for: they act as Limit.
OrderType  == {"Limit", "Market"}

Order == [order_id : OrderId, side : Side, type : OrderType,
          price : PriceTicks, qty : Qty]
Node  == [ord : Order, leaves : Qty]
Loc   == [side : Side, px : PriceTicks, idx : Nat]
Request == [order_id : OrderId, leaves : Qty]
ExecReport == [order_id  : OrderId,
               exec_type : {"New", "Trade", "Canceled", "Replaced"},
               status    : {"New", "PartiallyFilled", "Filled", "Canceled", "Replaced"},
               last_qty  : Qty, last_px : PriceTicks, leaves_qty : Qty]

ASSUME ConstantsAssumption ==
  /\ MaxPx \in Nat
  /\ Orders \subseteq Order
  /\ NewQtys \subseteq Qty
  /\ GarbageNode \subseteq Node
  /\ DanglingErase \subseteq {"crash", "survive"}
  /\ NoLoc \notin Loc /\ NoNode \notin Node /\ NoRequest \notin Request

VARIABLES levels, queue, loc, pc, taker, replacing, out

book == <<levels, queue, loc>>
vars == <<levels, queue, loc, pc, taker, replacing, out>>

-----------------------------------------------------------------------------
(* Reports *)

Report(id, type, status, qty, px, leaves) ==
  [order_id |-> id, exec_type |-> type, status |-> status,
   last_qty |-> qty, last_px |-> px, leaves_qty |-> leaves]

\* Mutant: the report is made before the leaves are reduced.
TradeReportBeforeFill(node, qty, px) ==
  Report(node.ord.order_id, "Trade", "PartiallyFilled", qty, px, node.leaves + qty)

TradeReport(node, qty, px) ==
  Report(node.ord.order_id, "Trade",
         IF node.leaves = 0 THEN "Filled" ELSE "PartiallyFilled",
         qty, px, node.leaves)

-----------------------------------------------------------------------------
(* Price priority *)

Opposite(s) == IF s = "Bid" THEN "Ask" ELSE "Bid"

\* p comes no later than r in the map of side s (bids descend, asks ascend).
AtLeastAsGood(s, p, r) == IF s = "Bid" THEN p >= r ELSE p <= r

\* Mutant: both maps ascend.
BestAscending(s) == CHOOSE p \in levels[s] : \A r \in levels[s] : p <= r

\* begin() of the map of side s.
Best(s) == CHOOSE p \in levels[s] : \A r \in levels[s] : AtLeastAsGood(s, p, r)

\* Mutant: equal prices do not cross.
IsLimitCrossStrict(takerSide, takerPx, oppPx) ==
  \/ takerPx = NoPrice
  \/ oppPx = NoPrice
  \/ IF takerSide = "Bid" THEN takerPx > oppPx ELSE takerPx < oppPx

IsLimitCross(takerSide, takerPx, oppPx) ==
  \/ takerPx = NoPrice
  \/ oppPx = NoPrice
  \/ IF takerSide = "Bid" THEN takerPx >= oppPx ELSE takerPx <= oppPx

\* Mutant: the loop does not look at what is left of the taker.
CanMatchEvenIfFilled ==
  LET opp == Opposite(taker.ord.side)
  IN  levels[opp] # {} /\ IsLimitCross(taker.ord.side, taker.ord.price, Best(opp))

\* The condition under which match_buy / match_sell go round once more.
CanMatch ==
  LET opp == Opposite(taker.ord.side)
  IN  /\ taker.leaves > 0
      /\ levels[opp] # {}
      /\ IsLimitCross(taker.ord.side, taker.ord.price, Best(opp))

IsMarket(o) == o.type = "Market"

-----------------------------------------------------------------------------
(* on_new, from its first report to its return *)

Accept(o) ==
  /\ taker' = [ord |-> o, leaves |-> o.qty]
  /\ out' = <<Report(o.order_id, "New", "New", 0, NoPrice, o.qty)>>
  /\ pc' = "match"

\* Mutant: the map keeps the key.
StoreQueueKeepsKey(s, px, q) ==
  queue' = [queue EXCEPT ![s][px] = q] /\ UNCHANGED levels

\* A level whose deque became empty leaves the map.
StoreQueue(s, px, q) ==
  /\ queue' = [queue EXCEPT ![s][px] = q]
  /\ levels' = [levels EXCEPT ![s] = IF q = <<>> THEN @ \ {px} ELSE @]

Fill(s, px) ==
  LET q     == queue[s][px]
      dq    == IF q[1].leaves <= taker.leaves THEN q[1].leaves ELSE taker.leaves
      maker == [q[1] EXCEPT !.leaves = @ - dq]
      next  == [taker EXCEPT !.leaves = @ - dq]
  IN  /\ taker' = next
      /\ out' = <<TradeReport(next, dq, px), TradeReport(maker, dq, px)>>
      /\ IF maker.leaves = 0
           THEN /\ StoreQueue(s, px, Tail(q))
                /\ loc' = [loc EXCEPT ![maker.ord.order_id] = NoLoc]
           ELSE /\ StoreQueue(s, px, [q EXCEPT ![1] = maker])
                /\ UNCHANGED loc

\* One turn of the loops of match_buy / match_sell.
Match ==
  /\ pc = "match"
  /\ CanMatch
  /\ LET s  == Opposite(taker.ord.side)
         px == Best(s)
     IN  IF queue[s][px] # <<>>
           THEN Fill(s, px)
           ELSE StoreQueue(s, px, <<>>) /\ out' = <<>> /\ UNCHANGED <<loc, taker>>
  /\ UNCHANGED <<pc, replacing>>

Return ==
  /\ pc' = IF replacing = NoRequest THEN "idle" ELSE "replaced"
  /\ taker' = NoNode
  /\ UNCHANGED replacing

\* Mutant: push_front instead of push_back.
PutFirst(q, n) == <<n>> \o q

PutLast(q, n) == Append(q, n)

Enqueue(n) ==
  LET s == n.ord.side  px == n.ord.price
  IN  /\ levels' = [levels EXCEPT ![s] = @ \cup {px}]
      /\ queue' = [queue EXCEPT ![s][px] = PutLast(@, n)]
      /\ loc' = [loc EXCEPT ![n.ord.order_id] =
                   [side |-> s, px |-> px, idx |-> Len(queue[s][px])]]

\* Mutant: a filled order joins the book too.
HasLeftAlways == TRUE

HasLeft == taker.leaves > 0

\* Mutant: an order rests with all it asked for instead of what is left.
RestWithFullQty ==
  /\ pc = "match" /\ ~CanMatch /\ HasLeft /\ ~IsMarket(taker.ord)
  /\ Enqueue([taker EXCEPT !.leaves = taker.ord.qty])
  /\ out' = <<>>
  /\ Return

\* What is left of a limit order joins the book.
Rest ==
  /\ pc = "match"
  /\ ~CanMatch
  /\ HasLeft /\ ~IsMarket(taker.ord)
  /\ Enqueue(taker)
  /\ out' = <<>>
  /\ Return

\* Mutant: the last report repeats the quantity asked for.
CompletedAsAsked == Report(taker.ord.order_id, "Trade", "Filled", 0, NoPrice, taker.ord.qty)

Completed == Report(taker.ord.order_id, "Trade", "Filled", 0, NoPrice, 0)

\* A taker with nothing left gets a second, empty Filled report.
Complete ==
  /\ pc = "match"
  /\ ~CanMatch
  /\ taker.leaves = 0
  /\ out' = <<Completed>>
  /\ Return
  /\ UNCHANGED book

\* What is left of a market order is dropped, and nothing is published.
Abandon ==
  /\ pc = "match"
  /\ ~CanMatch
  /\ taker.leaves > 0 /\ IsMarket(taker.ord)
  /\ out' = <<>>
  /\ Return
  /\ UNCHANGED book

-----------------------------------------------------------------------------
(* The three entry points.  An id that loc_ does not know is ignored. *)

\* Bound on the model only.
RestingCount ==
  Cardinality(UNION {{<<s, p, i>> : i \in DOMAIN queue[s][p]} :
                       s \in Side, p \in PriceTicks})
Room == RestingCount < MaxResting

OnNew(o) ==
  /\ pc = "idle"
  /\ Room
  /\ Accept(o)
  /\ UNCHANGED <<levels, queue, loc, replacing>>

InRange(lc) == lc.idx < Len(queue[lc.side][lc.px])

\* erase_at: the back element is moved into the hole and the deque shortened.
SwapPop(q, i) == SubSeq([q EXCEPT ![i] = q[Len(q)]], 1, Len(q) - 1)

EraseAt(lc) ==
  IF InRange(lc)
    THEN StoreQueue(lc.side, lc.px, SwapPop(queue[lc.side][lc.px], lc.idx + 1))
    ELSE levels' = [levels EXCEPT ![lc.side] = @ \cup {lc.px}] /\ UNCHANGED queue

\* Mutant: erase_at leaves the entry of its victim to the caller.
ForgetLater(id) == loc

Forget(id) == [loc EXCEPT ![id] = NoLoc]

\* loc_ after erase_at: the victim is forgotten, the moved element re-indexed
\* (in whatever entry its id has).
LocAfterErase(lc) ==
  LET q       == queue[lc.side][lc.px]
      victim  == q[lc.idx + 1].ord.order_id
      moved   == q[Len(q)].ord.order_id
      without == Forget(victim)
  IN  IF ~InRange(lc) THEN loc
      ELSE IF lc.idx = Len(q) - 1 \/ without[moved] = NoLoc THEN without
      ELSE [without EXCEPT ![moved].idx = lc.idx]

\* erase_at has already erased the entry that the caller's iterator names, and
\* the caller erases through that iterator again: undefined behaviour.  (On a
\* cancel erase_at also goes on reading its argument, a reference into that
\* entry; where the process survives, it reads what was there.)
Dangles(id) ==
  LET lc == loc[id]
  IN  InRange(lc) /\ queue[lc.side][lc.px][lc.idx + 1].ord.order_id = id

Survives(id) == ~Dangles(id) \/ "survive" \in DanglingErase

PullOut(id) ==
  /\ EraseAt(loc[id])
  /\ loc' = [LocAfterErase(loc[id]) EXCEPT ![id] = NoLoc]

Ignore(id) ==
  /\ pc = "idle"
  /\ loc[id] = NoLoc
  /\ out' = <<>>
  /\ UNCHANGED <<levels, queue, loc, pc, taker, replacing>>

OnCancel(id) ==
  /\ pc = "idle"
  /\ loc[id] # NoLoc
  /\ Survives(id)
  /\ PullOut(id)
  /\ out' = <<Report(id, "Canceled", "Canceled", 0, NoPrice, 0)>>
  /\ UNCHANGED <<pc, taker, replacing>>

\* on_replace reads the node through the index, so a stale index yields another
\* order's node or, past the end, whatever the memory holds.
NodeRead(lc) ==
  IF InRange(lc) THEN {queue[lc.side][lc.px][lc.idx + 1]} ELSE GarbageNode

\* Mutant: the subtraction is not saturated.
ReplacedLeavesUnsaturated(n, newQty) == n.leaves - (n.ord.qty - newQty)

ReplacedLeaves(n, newQty) ==
  IF newQty >= n.ord.qty THEN n.leaves + (newQty - n.ord.qty)
  ELSE LET cut == n.ord.qty - newQty
       IN  IF n.leaves > cut THEN n.leaves - cut ELSE 0

OnReplace(id, newPx, newQty) ==
  /\ pc = "idle"
  /\ Room
  /\ loc[id] # NoLoc
  /\ Survives(id)
  /\ \E n \in NodeRead(loc[id]) :
       /\ Accept([n.ord EXCEPT !.qty = newQty,
                               !.price = IF newPx # NoPrice THEN newPx ELSE @])
       /\ replacing' = [order_id |-> n.ord.order_id,
                        leaves   |-> ReplacedLeaves(n, newQty)]
  /\ PullOut(id)

PublishReplaced ==
  /\ pc = "replaced"
  /\ out' = <<Report(replacing.order_id, "Replaced", "Replaced", 0, NoPrice,
                     replacing.leaves)>>
  /\ pc' = "idle"
  /\ replacing' = NoRequest
  /\ UNCHANGED <<levels, queue, loc, taker>>

\* The process dies in a cancel or a replace, in loc_.erase or in the read past
\* the end.
Crash(id) ==
  /\ pc = "idle"
  /\ loc[id] # NoLoc
  /\ ~InRange(loc[id]) \/ (Dangles(id) /\ "crash" \in DanglingErase)
  /\ pc' = "crashed"
  /\ out' = <<>>
  /\ UNCHANGED <<levels, queue, loc, taker, replacing>>

-----------------------------------------------------------------------------

Init ==
  /\ levels = [s \in Side |-> {}]
  /\ queue = [s \in Side |-> [p \in PriceTicks |-> <<>>]]
  /\ loc = [id \in OrderId |-> NoLoc]
  /\ pc = "idle"
  /\ taker = NoNode
  /\ replacing = NoRequest
  /\ out = <<>>

Handler == Match \/ Rest \/ Complete \/ Abandon \/ PublishReplaced

Next ==
  \/ \E o \in Orders : OnNew(o)
  \/ \E id \in OrderId : \/ Ignore(id)
                         \/ OnCancel(id)
                         \/ Crash(id)
                         \/ \E px \in PriceTicks, qty \in NewQtys : OnReplace(id, px, qty)
  \/ Handler

Spec == Init /\ [][Next]_vars

\* A handler that was entered runs: it waits for nobody.
FairSpec == Spec /\ WF_vars(Handler)

-----------------------------------------------------------------------------
(* Properties *)

\* Type correctness of the engine's members and of the handler's locals.
TypeOK ==
  /\ levels \in [Side -> SUBSET PriceTicks]
  /\ queue \in [Side -> [PriceTicks -> Seq(Node)]]
  /\ loc \in [OrderId -> Loc \cup {NoLoc}]
  /\ pc \in {"idle", "match", "replaced", "crashed"}
  /\ taker \in Node \cup {NoNode}
  /\ (pc = "match") <=> (taker # NoNode)
  /\ replacing \in Request \cup {NoRequest}
  /\ pc = "replaced" => replacing # NoRequest
  /\ out \in Seq(ExecReport)

\* The book is never locked or crossed, not even between the steps of a
\* handler: an order rests only after the matching loop has removed every
\* level it crosses, and nothing else adds a price.
Uncrossed == \A b \in levels["Bid"], a \in levels["Ask"] : b < a

\* The maps hold a key exactly while orders rest under it: operator[] in
\* erase_at and on_replace never leaves an empty level behind, which the
\* matching loop and top() would take for a price with liquidity.
NoPhantomLevel ==
  \A s \in Side, p \in PriceTicks : p \in levels[s] <=> queue[s][p] # <<>>

\* An entry of loc_ names a level in which an order with that id rests, whatever
\* became of its index: cancel and replace look in the right deque.
LocFindsLevel ==
  \A id \in OrderId :
    loc[id] # NoLoc =>
      \E i \in DOMAIN queue[loc[id].side][loc[id].px] :
        queue[loc[id].side][loc[id].px][i].ord.order_id = id

\* Every resting order is a limit order with something left and no more than
\* its quantity, kept under its own side and price.
RestingSound ==
  \A s \in Side, p \in PriceTicks : \A i \in DOMAIN queue[s][p] :
    LET n == queue[s][p][i]
    IN  /\ n.ord.side = s /\ n.ord.price = p
        /\ ~IsMarket(n.ord)
        /\ n.leaves \in 1 .. n.ord.qty

\* Price priority: when a fill has just been published, its price is within the
\* taker's limit and no better price is left on the side it was taken from.
NoTradeThrough ==
  (pc = "match" /\ out # <<>> /\ out[1].exec_type = "Trade") =>
    LET s == Opposite(taker.ord.side)
    IN  /\ IsLimitCross(taker.ord.side, taker.ord.price, out[1].last_px)
        /\ \A r \in levels[s] : AtLeastAsGood(s, out[1].last_px, r)

\* The matching loops end: a handler that began returns.
HandlerReturns == (pc = "match") ~> (pc = "idle")
=============================================================================
