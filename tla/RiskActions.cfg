CONSTANTS
  Symbols = {"BTC/USDT"}
  Actions = {"reduce", "liquidate"}
  Liquidations = {"liquidate"}
  DailyHalts = {"liquidate"}
  EntrySizes <- MCSmallEntries
  MaxExits = 2
  MaxStops = 1
  MaxFaults = 1
  NoAction = NoAction
SPECIFICATION FairSpec
INVARIANTS NothingOpensWhileFrozen ReductionBounded NoneOrphaned
PROPERTIES ReductionsFinish
