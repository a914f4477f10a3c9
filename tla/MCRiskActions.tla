--------------------------- MODULE MCRiskActions ---------------------------
(* Instances of RiskActions for TLC: a reduction, and a liquidation for the *)
(* loss of the day that may come over it.                                   *)
EXTENDS RiskActions

MCEntrySizes == [n \in 1 .. 1 |-> 3]
MCSmallEntries == [n \in 1 .. 1 |-> 2]
=============================================================================
