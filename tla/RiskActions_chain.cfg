CONSTANTS
  Symbols = {"BTC/USDT"}
  Actions = {"reduce", "halt", "liquidate"}
  Liquidations = {"halt", "liquidate"}
  DailyHalts = {"halt"}
  EntrySizes <- MCSmallEntries
  MaxExits = 1
  MaxStops = 0
  MaxFaults = 1
  NoAction = NoAction
SPECIFICATION Spec
INVARIANT NoneOrphaned
CHECK_DEADLOCK FALSE
