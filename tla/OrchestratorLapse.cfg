SPECIFICATION FairSpec
CONSTANTS
    Serials = {s1}
    Workers = {w1, w2, w3}
    Clients = {}
    OperatorOps = {}
    InitialStates = {"new", "paused"}
    Provisioner = "stub"
    SlowCalls = {"recover"}
    Faults = {}
    MaxCrashes = 0
INVARIANTS OneRecovery
PROPERTIES PausedRecovers
