SPECIFICATION Spec
CONSTANTS
    Axis = {a1, a2}
    Runner = {w1, w2}
    None = None
    Kept = {TRUE, FALSE}
    Ticks = TRUE
    MaxRec = 2
    MaxFault = 1
SYMMETRY Symmetry
INVARIANTS ClosedIsUndone BreachesAreQuarantined
PROPERTY RevertsOwnRoutes
