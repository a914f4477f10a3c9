---------------------------- MODULE FaultBound -----------------------------
(* How often something may go wrong in an instance, and how often it has. *)
EXTENDS Naturals

CONSTANT MaxFaults

ASSUME FaultBoundAssumption == MaxFaults \in Nat

VARIABLE faults
=============================================================================
