SPECIFICATION Spec
CONSTANTS
    Serials = {s1}
    Workers = {w1}
    Clients = {c1}
    OperatorOps = {"add", "remove", "pause", "resume", "markError", "reprovision", "standSeq"}
    InitialStates = {"absent"}
    Provisioner = "http"
    SlowCalls = {"connect", "advance", "recover"}
    Faults = {"get", "connect", "advance", "recover", "update", "publish"}
    MaxCrashes = 1
INVARIANTS TypeOK RecordsConsistent LeaseOwned
