SPECIFICATION FairSpec
CONSTANTS
    Serials = {s1}
    Workers = {w1, w2}
    Clients = {c1}
    OperatorOps = {"pause"}
    InitialStates = {"new", "paused"}
    Provisioner = "stub"
    SlowCalls = {}
    Faults = {}
    MaxCrashes = 0
PROPERTIES PausedRecovers
