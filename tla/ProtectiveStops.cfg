CONSTANTS
  Entries <- MCEntries
  Levels = {1, 2}
  MaxStops = 4
  MaxExits = 4
  MaxFaults = 1
SPECIFICATION FairSpec
INVARIANT NeverOversold
PROPERTIES NeverLoosened ProtectedAgain
