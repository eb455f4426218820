------------------------------ MODULE MCWorker ------------------------------
(* MatchingEngineWorker for TLC: the demo's two orders, and longer scripts. *)
EXTENDS MatchingEngineWorker

O(id, side, type, px, qty) ==
  [order_id |-> id, side |-> side, type |-> type, price |-> px, qty |-> qty]
NewCmd(o)   == [kind |-> "new", order |-> o]
CancelCmd(id) == [kind |-> "cancel", order_id |-> id]
ReplaceCmd(id, px, q) == [kind |-> "replace", order_id |-> id, price |-> px, qty |-> q]

MCOrders == [order_id : OrderId, side : Side, type : {"Limit"}, price : {1}, qty : 1 .. 3]
            \cup [order_id : OrderId, side : Side, type : {"Market"}, price : {NoPrice}, qty : 1 .. 3]
MCNewQtys == {2}

\* me_pipeline_main: a resting ask and a market buy for more than it offers.
Demo == <<NewCmd(O(1, "Ask", "Limit", 1, 2)), NewCmd(O(2, "Bid", "Market", NoPrice, 3))>>

\* Two asks, a buy that sweeps one and a half of them, a cancel of the rest.
Sweep == <<NewCmd(O(1, "Ask", "Limit", 1, 1)), NewCmd(O(2, "Ask", "Limit", 1, 2)),
           NewCmd(O(3, "Bid", "Limit", 1, 2)), CancelCmd(2)>>

\* Bids of two prices, a sell into both, a cancel of an order that is gone.
TwoSided == <<NewCmd(O(1, "Bid", "Limit", 1, 2)), NewCmd(O(2, "Ask", "Limit", 1, 1)),
              NewCmd(O(3, "Ask", "Limit", 1, 1)), CancelCmd(1)>>

\* A replace of a resting order, and one of an order that is gone.
Replacing == <<NewCmd(O(4, "Ask", "Limit", 1, 1)), ReplaceCmd(4, 1, 2),
               NewCmd(O(5, "Bid", "Market", NoPrice, 3)), ReplaceCmd(4, 1, 2)>>

MCScripts == {Demo, Sweep, TwoSided, Replacing}
=============================================================================
