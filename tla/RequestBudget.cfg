CONSTANTS
  order = order
  quotes = quotes
  history = history
  Clients = {order, quotes, history}
  Critical = {order}
  Interval <- SameInterval
  Cost <- DearHistory
  Window = 6
  ReserveNum = 1
  ReserveDen = 3
  MinSleep = 1
  MaxSleep = 2
  MinLease = 2
  MaxLease = 3
  MaxBack = 1
  Horizon = 7
SPECIFICATION FairSpec
INVARIANT ReserveKept
PROPERTIES Spaced CriticalServed
