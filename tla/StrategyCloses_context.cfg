CONSTANTS
  a = a
  b = b
  Symbols <- MCSymbols
  NoSymbol = NoSymbol
  KeepsHealth = FALSE
  MaxEntries = 1
  MaxPositions = 1
  MaxLots <- MCLots
  MaxExits <- MCExits
  Faults = {"close_write"}
  MaxFaults = 1
SPECIFICATION Spec
INVARIANT StopKnown
CHECK_DEADLOCK FALSE
