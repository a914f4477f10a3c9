---------------------------- MODULE MCLiveOrders ----------------------------
(* Instances of LiveOrders for TLC. *)
EXTENDS LiveOrders, TLC

CONSTANTS a, b   \* opening intents

SameSymbol == [o \in Orders |-> "BTC/USDT"]
SymmetricOrders == Permutations(Orders)
=============================================================================
