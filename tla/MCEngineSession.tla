--------------------------- MODULE MCEngineSession ---------------------------
(* EngineSession for TLC: a few orders, each with its own number. *)
EXTENDS EngineSession

CONSTANTS MaxQty, LimitPrices, OrderTypes

MCOrders ==
  {o \in [order_id : OrderId, side : Side, type : OrderTypes,
          price : LimitPrices \cup {NoPrice}, qty : 1 .. MaxQty] :
     (o.price = NoPrice) <=> IsMarket(o)}

MCNewQtys == 1 .. MaxQty

MCGarbage ==
  {[ord |-> [order_id |-> id, side |-> s, type |-> "Limit", price |-> p, qty |-> 1],
    leaves |-> 1] : id \in OrderId, s \in Side, p \in LimitPrices}
=============================================================================
