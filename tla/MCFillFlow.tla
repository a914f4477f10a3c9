----------------------------- MODULE MCFillFlow -----------------------------
(* Instances of FillFlow for TLC: entries in two symbols and an exit.       *)
EXTENDS FillFlow

MCOrders == {"a", "b", "x"}
MCSymbols == {"BTC/USDT", "ETH/USDT"}
MCSymbolOf == [o \in MCOrders |-> IF o = "b" THEN "ETH/USDT" ELSE "BTC/USDT"]
MCOpening == {"a", "b"}
MCQty == [o \in MCOrders |-> IF o = "a" THEN 2 ELSE 1]
=============================================================================
