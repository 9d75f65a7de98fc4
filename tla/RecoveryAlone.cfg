SPECIFICATION FairSpec
CONSTANTS
    Phones = {p1, p2}
    Flows = {f1, f2}
    p1 = p1
    p2 = p2
    MaxDialogs <- StackOnOne
    MaxPlan = 2
    MaxAsked = 1
INVARIANTS PlanForPhoneAlone StackCleared NoBlindTap
PROPERTIES FlowsWindDown FlowReturns
