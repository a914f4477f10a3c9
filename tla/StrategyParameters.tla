------------------------ MODULE StrategyParameters -------------------------
(* What the health machine of a strategy and its memory of closes share. *)
EXTENDS Naturals, FiniteSets

CONSTANTS
    Symbols,
    Faults, MaxFaults  \* what may go wrong; bound: how often

ASSUME StrategyAssumption == IsFiniteSet(Symbols) /\ MaxFaults \in Nat
=============================================================================
