-------------------------- MODULE MCRequestBudget --------------------------
(* Instances of RequestBudget for TLC. *)
EXTENDS RequestBudget

CONSTANTS order, quotes, history   \* clients: an order, market data, research

SameInterval == [c \in Clients |-> 1]

(* The history request is dearer than a window has room for. *)
DearHistory == [c \in Clients |-> IF c = order THEN 2 ELSE IF c = history THEN 5 ELSE 1]
=============================================================================
