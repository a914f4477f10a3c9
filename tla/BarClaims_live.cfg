CONSTANTS
  e1 = e1
  e2 = e2
  btc = btc
  Procs = {e1, e2}
  Symbols = {btc}
  Bars <- Twice
  Lease = 2
  MaxLag = 2
  MaxFaults = 2
  LateFailures = TRUE
  NoBar = NoBar
SPECIFICATION FairSpec
PROPERTY EventuallyProcessed
