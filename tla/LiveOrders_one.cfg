CONSTANTS
  a = a
  b = b
  Orders = {a}
  Symbols = {"BTC/USDT"}
  SymbolOf <- SameSymbol
  Qty = 2
  DailyLimit = 1
  MaxCrashes = 1
  Details = {"trades", "average"}
  Faults = {"stale_read", "bare_status", "wrong_identity", "late_fill", "absence", "operator_error"}
  NoOrder = NoOrder
SPECIFICATION FairSpec
INVARIANTS AtMostOneSubmission LedgerSound EverySubmissionReserved
PROPERTIES EventuallySettled
