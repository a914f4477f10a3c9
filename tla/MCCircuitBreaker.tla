------------------------- MODULE MCCircuitBreaker -------------------------
(* Instances of CircuitBreaker for TLC: one value of the account for each   *)
(* action, days of two ticks, a cooldown of more than a day.                *)
EXTENDS CircuitBreaker

MCThreshold == [reduce |-> 10, block_new |-> 20, liquidate |-> 27, locked |-> 35]
=============================================================================
