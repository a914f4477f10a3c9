CONSTANTS
  e1 = e1
  e2 = e2
  btc = btc
  Procs = {e1, e2}
  Symbols = {btc}
  Bars <- Once
  Lease = 2
  MaxLag = 2
  MaxFaults = 1
  LateFailures = FALSE
  NoBar = NoBar
SPECIFICATION Spec
PROPERTY ProcessedForever
