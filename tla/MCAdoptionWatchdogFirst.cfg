SPECIFICATION Spec
CONSTANTS
    Axis = {a1, a2}
    Runner = {w1}
    None = None
    Kept = {TRUE, FALSE}
    Ticks = TRUE
    MaxRec = 2
    MaxFault = 0
PROPERTY DeletesOwnTable
