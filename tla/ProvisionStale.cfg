SPECIFICATION Spec
CONSTANTS
    Serials = {s1}
    Callers = {c1}
    Lapses = FALSE
    MaxPasses = 2
    MaxDisturbances = 0
INVARIANTS ReadyIsEarned
CHECK_DEADLOCK FALSE
