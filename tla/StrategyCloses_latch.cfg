CONSTANTS
  a = a
  b = b
  Symbols <- MCSymbols
  NoSymbol = NoSymbol
  KeepsHealth = FALSE
  MaxEntries = 1
  MaxPositions = 1
  MaxLots <- MCLots
  MaxExits <- MCExits
  Faults = {"crash"}
  MaxFaults = 1
SPECIFICATION Spec
INVARIANT ExitLatched
CHECK_DEADLOCK FALSE
