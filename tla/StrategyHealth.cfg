SPECIFICATION FairSpec
CONSTANTS
    a = a
    b = b
    Symbols = {a, b}
    Controllers = {"strategy", "router"}
    StreakLimit = 2
    CooldownDays = 1
    ExtendedDays = 2
    Required = 2
    MinSymbols = 2
    MaxFailed = 2
    Extends = TRUE
    Unified = TRUE
    WithoutBest = TRUE
    Stages <- Levels
    StageDays = 2
    ProbationRisk = 25
    RecoveryRisk = 10
    OldRows <- OldMultipliers
    MaxCohorts = 2
    LateDays = 0
    Faults = {"crash", "write", "lock"}
    MaxFaults = 1
INVARIANTS
    HaltServed
    EvidenceCountsOnce
    RecoveryTakesTime
PROPERTY
    NeverOffForGood
