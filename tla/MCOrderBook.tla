----------------------------- MODULE MCOrderBook -----------------------------
(* OrderBook for TLC: deltas that set, change and erase every level, the two *)
(* that upsertLevel turns into an erase among them.                          *)
EXTENDS OrderBook

MCDeltas ==
  {[action |-> a, side |-> s, px |-> p, qty |-> v[1], cnt |-> v[2]] :
     a \in {"Upsert"}, s \in Side, p \in Price, v \in {<<1, 1>>, <<2, 1>>, <<0, 1>>, <<1, 0>>}}
  \cup {[action |-> "Erase", side |-> s, px |-> p, qty |-> 0, cnt |-> 0] :
          s \in Side, p \in Price}
=============================================================================
