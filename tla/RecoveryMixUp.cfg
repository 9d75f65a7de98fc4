SPECIFICATION Spec
CONSTANTS
    Phones = {p1, p2}
    Flows = {f1, f2}
    p1 = p1
    p2 = p2
    MaxDialogs <- NoStacks
    MaxPlan = 2
    MaxAsked = 1
SYMMETRY Symmetry
INVARIANTS PlanForPhone
