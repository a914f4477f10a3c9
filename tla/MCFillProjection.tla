-------------------------- MODULE MCFillProjection --------------------------
(* Instances of FillProjection for TLC: two orders that buy a symbol and    *)
(* one that sells it.                                                       *)
EXTENDS FillProjection

MCOrders == {"a", "b", "x"}
MCSymbols == {"BTC/USDT"}
MCSymbolOf == [o \in MCOrders |-> "BTC/USDT"]
MCOpening == {"a", "b"}

Trade(id, o, q) == [id |-> id, order |-> o, qty |-> q, key |-> id,
                    synthetic |-> FALSE, sound |-> TRUE]

(* Bought in two orders, sold in one fill that closes the lot of the first  *)
(* and part of that of the second.                                          *)
MCFacts == {Trade(1, "a", 1), Trade(2, "b", 2), Trade(3, "x", 2)}
=============================================================================
