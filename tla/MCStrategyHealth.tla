-------------------------- MODULE MCStrategyHealth --------------------------
(* An instance of StrategyHealth for TLC: two symbols under a unified       *)
(* recovery of three levels.                                                *)
EXTENDS StrategyHealth

CONSTANTS a, b

\* Percent of full risk; the middle level of production is left out.
Levels == <<10, 25, 100>>
\* Checkpoints of schema v2: an ordinary probation, and one below the
\* lowest stage.
OldMultipliers == {25, 5}
=============================================================================
