SPECIFICATION FairSpec
CONSTANTS
    Serials = {s1, s2}
    Workers = {w1, w2}
    Clients = {c1}
    OperatorOps = {"add"}
    InitialStates = {"absent", "paused"}
    Provisioner = "stub"
    SlowCalls = {}
    Faults = {}
    MaxCrashes = 0
INVARIANTS MutualExclusion FlagOwned SubscribersFollow
PROPERTIES ImplementsFairLifecycle NewReachesWork
