SPECIFICATION Spec
CONSTANTS
    p1 = p1
    p2 = p2
    Phones = {p1, p2}
    Stand <- StandUsed
    Others <- OthersUsed
    Allowlists <- AllowlistsUsed
    MaxScans = 1
    MaxReadings = 1
    MaxRequests = 1
INVARIANTS FleetTypeOK LoneScanSettles NumberIsPhones
PROPERTIES OffListLeftAlone
CHECK_DEADLOCK FALSE
