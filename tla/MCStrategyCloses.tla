------------------------ MODULE MCStrategyCloses --------------------------
(* An instance of StrategyCloses for TLC: a full symbol, and a small one    *)
(* whose closes come in between.                                            *)
EXTENDS StrategyCloses

CONSTANTS a, b
MCSymbols == {a, b}
MCLots == [s \in MCSymbols |-> IF s = a THEN 2 ELSE 1]
MCExits == [s \in MCSymbols |-> IF s = a THEN 1 ELSE 0]
=============================================================================
