CONSTANTS
  a = a
  b = b
  Orders = {a}
  Symbols = {"BTC/USDT"}
  SymbolOf <- SameSymbol
  Qty = 1
  DailyLimit = 1
  MaxCrashes = 1
  Details = {"trades"}
  Faults = {}
  NoOrder = NoOrder
SPECIFICATION Spec
INVARIANT WithinBudget
