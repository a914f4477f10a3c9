CONSTANTS
  a = a
  b = b
  Orders = {a, b}
  Symbols = {"BTC/USDT"}
  SymbolOf <- SameSymbol
  Qty = 2
  DailyLimit = 2
  MaxCrashes = 2
  Details = {"trades"}
  Faults = {"stale_read", "bare_status", "wrong_identity", "late_reject", "late_fill"}
  NoOrder = NoOrder
SPECIFICATION Spec
SYMMETRY SymmetricOrders
INVARIANTS OneWorkingOpening
PROPERTY KeepsPromise
