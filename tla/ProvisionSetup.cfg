SPECIFICATION FairSpec
CONSTANTS
    Serials = {s1}
    Callers = {c1}
    Lapses = FALSE
    MaxPasses = 3
    MaxDisturbances = 4
INVARIANTS EarnedUnlessInterrupted ProvisionedOnce
PROPERTIES SetupAdvances SetupEnds
CHECK_DEADLOCK FALSE
