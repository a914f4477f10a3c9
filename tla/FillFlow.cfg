CONSTANTS
  Orders <- MCOrders
  Symbols <- MCSymbols
  SymbolOf <- MCSymbolOf
  Opening <- MCOpening
  Qty <- MCQty
  Budget = 2
  Details = {"trades", "average"}
  MaxFaults = 1
SPECIFICATION Spec
INVARIANTS TypeOK BudgetKeptWithTrades RiskCovered FinishedHoldsNothing
