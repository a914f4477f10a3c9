CONSTANTS
  Equities = {64, 78, 88, 100}
  Threshold <- MCThreshold
  DailyLimit = 12
  Probation = 5
  Recovery = TRUE
  Cooldown = 2
  DayLength = 2
  MaxTime = 3
  MaxMoves = 4
  MaxResumes = 1
  MaxFaults = 1
SPECIFICATION Spec
INVARIANTS HaltsHold CooldownServed OneChangePerId
CHECK_DEADLOCK FALSE
