------------------------------ MODULE OrderBook ------------------------------
(***************************************************************************)
(* class OrderBook: price levels with an aggregated quantity and an order  *)
(* count, changed by feed deltas (the L2 operations), by single orders     *)
(* (the L3 operations, with a fifo per level and an index of iterators     *)
(* into the fifos), or by both; and what is read off it: snapshotL2 and    *)
(* the comparison the cross-validator makes of snapshots.                  *)
(*                                                                         *)
(* A key that is absent from a map has EmptyLevel.  A node of a fifo, and  *)
(* the iterator that points at it, is named by its entry_time: `clock'     *)
(* numbers the calls of addOrder.                                          *)
(***************************************************************************)
EXTENDS Naturals, FiniteSetsExt, SequencesExt

CONSTANTS
  OrderId, Price,
  OrderQtys,      \* quantities of single orders
  Deltas,         \* feed deltas: [action, side, px, qty, cnt]
  Uses,           \* which operations a program calls: sets of "L2", "L3"
  MaxClock, MaxMixed,   \* bounds on the calls of addOrder, without and with deltas
  NoEntry

Side == {"Bid", "Ask"}
Entry == [side : Side, px : Price, at : Nat]

ASSUME OrderBookAssumption ==
  /\ Price \subseteq Nat \ {0} /\ IsFiniteSet(Price)
  /\ OrderQtys \subseteq Nat \ {0} /\ MaxClock \in Nat /\ MaxMixed \in Nat
  /\ Uses \subseteq SUBSET {"L2", "L3"}
  /\ \A d \in Deltas : d.side \in Side /\ d.px \in Price /\ d.qty \in Nat /\ d.cnt \in Nat
  /\ NoEntry \notin Entry

EmptyLevel == [qty |-> 0, cnt |-> 0, fifo |-> <<>>]

VARIABLES
  use,
  levels,    \* bids_ and asks_
  index,     \* l3_index_
  clock,
  corrupt,   \* an iterator to a freed node was used: nothing is known any more
  wiped      \* history: the nodes that went with a level a delta erased

obVars == <<use, levels, index, clock, corrupt, wiped>>

-----------------------------------------------------------------------------
(* L2 operations *)

\* Mutants: quantities add up; a level of no orders or no quantity is stored.
UpsertAdds(b, d) == [b EXCEPT ![d.side][d.px].qty = @ + d.qty, ![d.side][d.px].cnt = d.cnt]
UpsertBlindly(b, d) == [b EXCEPT ![d.side][d.px].qty = d.qty, ![d.side][d.px].cnt = d.cnt]

EraseLevel(b, d) == [b EXCEPT ![d.side][d.px] = EmptyLevel]
UpsertLevel(b, d) ==
  IF d.qty = 0 \/ d.cnt = 0 THEN EraseLevel(b, d)
  ELSE [b EXCEPT ![d.side][d.px].qty = d.qty, ![d.side][d.px].cnt = d.cnt]
Applied(b, d) == IF d.action = "Erase" THEN EraseLevel(b, d) ELSE UpsertLevel(b, d)

ApplyDelta(d) ==
  /\ "L2" \in use /\ ~corrupt
  /\ levels' = Applied(levels, d)
  /\ wiped' = wiped \cup {n.at : n \in ToSet(levels[d.side][d.px].fifo)
                                      \ ToSet(levels'[d.side][d.px].fifo)}
  /\ UNCHANGED <<use, index, clock, corrupt>>

-----------------------------------------------------------------------------
(* L3 operations *)

LevelOf(e) == levels[e.side][e.px]

\* The order is put at the back of the level it finds in b, and its id is made
\* to point there, whatever it pointed at before.
AddTo(b, ix, id, s, p, qty) ==
  /\ clock < IF "L2" \in use THEN MaxMixed ELSE MaxClock
  /\ clock' = clock + 1
  /\ levels' = [b EXCEPT ![s][p] =
       [qty |-> @.qty + qty, cnt |-> @.cnt + 1,
        fifo |-> Append(@.fifo, [id |-> id, leaves |-> qty, at |-> clock])]]
  /\ index' = [ix EXCEPT ![id] = [side |-> s, px |-> p, at |-> clock]]

\* Where the iterator `at' points in the fifo.
Place(fifo, at) == CHOOSE i \in DOMAIN fifo : fifo[i].at = at

\* Mutant: the count is left alone.
UnlinkKeepsCount(L, at) ==
  LET i == Place(L.fifo, at)
  IN  [L EXCEPT !.qty = IF @ > L.fifo[i].leaves THEN @ - L.fifo[i].leaves ELSE 0,
                !.fifo = RemoveAt(@, i)]

\* A level without its node `at'; what is left of the last node is EmptyLevel.
Unlink(L, at) ==
  LET i == Place(L.fifo, at)
  IN  [qty  |-> IF L.qty > L.fifo[i].leaves THEN L.qty - L.fifo[i].leaves ELSE 0,
       cnt  |-> IF L.cnt > 0 THEN L.cnt - 1 ELSE 0,
       fifo |-> RemoveAt(L.fifo, i)]

\* Mutant: the entry of the canceled order stays.
IndexKept(id) == index

IndexWithout(id) == [index EXCEPT ![id] = NoEntry]

\* An entry whose level is gone is dropped and its iterator is not used.
LevelsWithout(id) ==
  LET e == index[id]
  IN  IF e = NoEntry THEN levels
      ELSE IF LevelOf(e) = EmptyLevel THEN levels
      ELSE [levels EXCEPT ![e.side][e.px] = Unlink(@, e.at)]

Live(id) == \E n \in ToSet(LevelOf(index[id]).fifo) : n.id = id /\ n.at = index[id].at

\* The level is there, but it is not the one the iterator points into.
Dangles(id) == index[id] # NoEntry /\ LevelOf(index[id]) # EmptyLevel /\ ~Live(id)

AddOrder(id, s, p, qty) ==
  /\ "L3" \in use /\ ~corrupt
  /\ AddTo(levels, index, id, s, p, qty)
  /\ UNCHANGED <<use, corrupt, wiped>>

CancelOrder(id) ==
  /\ "L3" \in use /\ ~corrupt
  /\ ~Dangles(id)
  /\ levels' = LevelsWithout(id) /\ index' = IndexWithout(id)
  /\ UNCHANGED <<use, clock, corrupt, wiped>>

\* prev: prev_order_id, or the order's own id where it has none.
ReplaceOrder(prev, id, s, p, qty) ==
  /\ "L3" \in use /\ ~corrupt
  /\ ~Dangles(prev)
  /\ AddTo(LevelsWithout(prev), IndexWithout(prev), id, s, p, qty)
  /\ UNCHANGED <<use, corrupt, wiped>>

UseFreed(id) ==
  /\ "L3" \in use /\ ~corrupt
  /\ Dangles(id)
  /\ corrupt' = TRUE
  /\ UNCHANGED <<use, levels, index, clock, wiped>>

OBInit ==
  /\ use \in Uses
  /\ levels = [s \in Side |-> [p \in Price |-> EmptyLevel]]
  /\ index = [id \in OrderId |-> NoEntry]
  /\ clock = 0 /\ corrupt = FALSE /\ wiped = {}

OBNext ==
  \/ \E d \in Deltas : ApplyDelta(d)
  \/ \E id \in OrderId :
       \/ CancelOrder(id) \/ UseFreed(id)
       \/ \E s \in Side, p \in Price, qty \in OrderQtys :
            \/ AddOrder(id, s, p, qty)
            \/ \E prev \in OrderId : ReplaceOrder(prev, id, s, p, qty)

OBSpec == OBInit /\ [][OBNext]_obVars

-----------------------------------------------------------------------------
(* What is read off the book *)

Keys(b, s) == {p \in Price : b[s][p] # EmptyLevel}

\* The order of the maps: bids descend, asks ascend.
Ahead(s, p, r) == IF s = "Bid" THEN p > r ELSE p < r
Ranked(b, s) ==
  LET K == Keys(b, s)
  IN  CHOOSE q \in [1 .. Cardinality(K) -> K] :
        \A i, j \in 1 .. Cardinality(K) : i < j => Ahead(s, q[i], q[j])

Summary(b, s, depth) ==
  LET ps == Ranked(b, s)
  IN  [i \in 1 .. (IF Len(ps) < depth THEN Len(ps) ELSE depth) |->
         [side |-> s, px |-> ps[i], qty |-> b[s][ps[i]].qty, cnt |-> b[s][ps[i]].cnt]]
SnapshotL2(b, depth) == Summary(b, "Bid", depth) \o Summary(b, "Ask", depth)

SameKey(L, R) == L.side = R.side /\ L.px = R.px
Lacks(list, L) == \A R \in ToSet(list) : ~SameKey(L, R)
\* Mutant: the second loop is left out.
DiffOneWay(sim, mine) ==
  Cardinality({i \in DOMAIN sim : sim[i] \notin ToSet(mine)})

\* diff_levels: the levels of sim that mine has otherwise or not at all, and
\* those of mine that sim has not.
DiffLevels(sim, mine) ==
  Cardinality({i \in DOMAIN sim :
                 \/ Lacks(mine, sim[i])
                 \/ \E R \in ToSet(mine) : SameKey(sim[i], R) /\ sim[i] # R})
  + Cardinality({i \in DOMAIN mine : Lacks(sim, mine[i])})

-----------------------------------------------------------------------------
(* Properties *)

\* What the orders of a fifo have left, together.
FifoQty(fifo) ==
  LET first[i \in 0 .. Len(fifo)] == IF i = 0 THEN 0 ELSE first[i - 1] + fifo[i].leaves
  IN  first[Len(fifo)]

\* Whatever sequence of adds, cancels and replaces, with ids used again while
\* their order still rests: a level's aggregates are those of its fifo, so
\* nothing remains of a level whose last order went.
Accounts ==
  use = {"L3"} =>
    \A s \in Side, p \in Price :
      LET L == levels[s][p]
      IN  /\ L.cnt = Len(L.fifo)
          /\ L.qty = FifoQty(L.fifo)

\* Every iterator kept in l3_index_ points at a node that rests in the level the
\* entry names, except where a delta erased that level under the order: only a
\* program that mixes L2 and L3 operations can use a freed node.
IndexLive ==
  \A id \in OrderId : index[id] # NoEntry => Live(id) \/ index[id].at \in wiped

\* A book fed by one kind of operation holds no level that counts orders but no
\* quantity or the other way round, though deltas with one of them zero arrive.
NoHollowLevel ==
  Cardinality(use) = 1 =>
    \A s \in Side, p \in Price : levels[s][p].qty > 0 <=> levels[s][p].cnt > 0

\* A stretch of the feed that is delivered again leaves the book where it was,
\* though it goes back through states the book had left.
ReplayHarmless ==
  use = {"L2"} => \A d, e \in Deltas :
    LET once == Applied(Applied(levels, d), e)
    IN  Applied(Applied(once, d), e) = once

\* A delta the book has missed shows in the diff exactly when it touched the
\* levels compared, and never as more than the level it moved and the one that
\* level pushed over the depth or let in.
DiffShowsDelta ==
  use = {"L2"} => \A d \in Deltas, depth \in 1 .. Cardinality(Price) :
    LET sim  == SnapshotL2(Applied(levels, d), depth)
        mine == SnapshotL2(levels, depth)
    IN  /\ DiffLevels(sim, mine) <= 2
        /\ DiffLevels(sim, mine) = 0 <=> sim = mine
=============================================================================
