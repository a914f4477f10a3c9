CONSTANTS
  Orders <- MCOrders
  Symbols <- MCSymbols
  SymbolOf <- MCSymbolOf
  Opening <- MCOpening
  Facts <- MCFacts
  Procs = {"engine"}
  MaxCrashes = 1
  MaxChanges = 1
  Faults = {"interrupted", "drill"}
SPECIFICATION Spec
INVARIANTS ValidSymbolsReplay CaughtUpIssuesExact NoCloseMissing
