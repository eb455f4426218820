---------------------------- MODULE MCEngineBook ----------------------------
(* EngineBook for TLC: any command at any time, with ids used again. *)
EXTENDS EngineBook

CONSTANTS MaxQty, LimitPrices

\* Limit orders at the chosen prices, one of them with nothing to trade and one
\* on each side that carries kNoPrice; market orders, whose price is kNoPrice.
MCOrders ==
  [order_id : OrderId, side : Side, type : {"Limit"}, price : LimitPrices, qty : 1 .. MaxQty]
  \cup
  [order_id : OrderId, side : Side, type : {"Limit"}, price : {NoPrice}, qty : 0 .. 1]
  \cup
  [order_id : OrderId, side : Side, type : {"Market"}, price : {NoPrice}, qty : 1 .. MaxQty]

MCNewQtys == 0 .. MaxQty

\* A stale copy of an order that may have left the book, and cleared memory.
MCGarbage ==
  {[ord |-> [order_id |-> id, side |-> s, type |-> "Limit", price |-> p, qty |-> q],
    leaves |-> q] : id \in OrderId, s \in Side, p \in LimitPrices, q \in {1}}
=============================================================================
