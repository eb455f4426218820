---------------------------- MODULE PriceTimeBook ----------------------------
(***************************************************************************)
(* What a price-time priority book promises, without maps, deques or       *)
(* indices: a set of resting orders, one active order, and the last trade. *)
(***************************************************************************)
EXTENDS Naturals

CONSTANTS NoPrice,   \* the price of an order that takes any
          None

VARIABLES resting,   \* the orders in the book: [id, side, px, leaves, limit]
          active,    \* the order being matched
          trade      \* the trade just made: [taker, maker, px, qty, left]

bookVars == <<resting, active, trade>>

Crosses(o, m) ==
  /\ m.side # o.side
  /\ o.px = NoPrice \/ (IF o.side = "Bid" THEN o.px >= m.px ELSE o.px <= m.px)

\* Of two orders on one side: the better price first, then the earlier arrival.
Before(m, n) ==
  \/ m.px = n.px /\ m.id < n.id
  \/ IF m.side = "Bid" THEN m.px > n.px ELSE m.px < n.px

Less(o, qty) == [o EXCEPT !.leaves = @ - qty]

Init == resting = {} /\ active = None /\ trade = None

Arrive ==
  /\ active = None
  /\ active' # None /\ \A m \in resting : m.id < active'.id
  /\ trade' = None
  /\ UNCHANGED resting

Trade ==
  /\ active # None
  /\ \E m \in resting :
       LET qty == IF m.leaves < active.leaves THEN m.leaves ELSE active.leaves
       IN  /\ qty > 0 /\ Crosses(active, m)
           /\ \A n \in resting \ {m} : n.side = m.side => Before(m, n)
           /\ resting' = (resting \ {m}) \cup
                           (IF m.leaves = qty THEN {} ELSE {Less(m, qty)})
           /\ active' = Less(active, qty)
           /\ trade' = [taker |-> active.id, maker |-> m.id, px |-> m.px,
                        qty |-> qty, left |-> m.leaves - qty]

\* What is left when nothing crosses rests if it has a limit, and is dropped if
\* it has none.
Finish ==
  /\ active # None
  /\ active.leaves = 0 \/ \A m \in resting : ~Crosses(active, m)
  /\ resting' = resting \cup (IF active.leaves > 0 /\ active.limit THEN {active} ELSE {})
  /\ active' = None
  /\ trade' = None

Next == Arrive \/ Trade \/ Finish

Spec == Init /\ [][Next]_bookVars
=============================================================================
