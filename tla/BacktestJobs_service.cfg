CONSTANTS
  j1 = j1
  j2 = j2
  Jobs = {j1, j2}
  MaxRestarts = 1
  Faults = {"store", "marker", "spawn", "threads"}
  NoJob = NoJob
SPECIFICATION FairSpec
INVARIANTS ChildrenHeld CancelledNeverSucceeds
PROPERTIES EndedForGood SlotFreed
CHECK_DEADLOCK FALSE
