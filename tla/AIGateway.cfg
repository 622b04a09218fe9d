SPECIFICATION Spec
CONSTANTS
    c1 = c1
    c2 = c2
    c3 = c3
    Callers = {c1, c2, c3}
    Budget = 2
    Targets = 2
    LastDay = 1
    MaxForgotten = 2
INVARIANTS
    OverspendBounded
SYMMETRY Alike
