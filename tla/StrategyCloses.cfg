CONSTANTS
  a = a
  b = b
  Symbols <- MCSymbols
  NoSymbol = NoSymbol
  KeepsHealth = TRUE
  MaxEntries = 1
  MaxPositions = 1
  MaxLots <- MCLots
  MaxExits <- MCExits
  Faults = {"crash", "close_write", "health_write", "unanswered"}
  MaxFaults = 1
SPECIFICATION FairSpec
INVARIANTS NoCloseSkipped CountedOnce ToldInFull
PROPERTIES EveryResultCounted LatchesReleased
CHECK_DEADLOCK FALSE
