SPECIFICATION Spec
CONSTANTS
    Serials = {s1}
    Workers = {w1, w2, w3}
    Clients = {}
    OperatorOps = {}
    InitialStates = {"paused"}
    Provisioner = "stub"
    SlowCalls = {"recover"}
    Faults = {"recover"}
    MaxCrashes = 0
SYMMETRY ActorSymmetry
INVARIANTS OneRecovery
