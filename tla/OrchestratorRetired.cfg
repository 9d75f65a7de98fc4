SPECIFICATION Spec
CONSTANTS
    Serials = {s1}
    Workers = {w1, w2}
    Clients = {c1}
    OperatorOps = {"remove"}
    InitialStates = {"new", "paused"}
    Provisioner = "stub"
    SlowCalls = {}
    Faults = {}
    MaxCrashes = 0
SYMMETRY ActorSymmetry
PROPERTIES RetiredIsFinal
