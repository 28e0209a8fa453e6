SPECIFICATION FairSpec
CONSTANTS
    Axis = {a1, a2}
    Runner = {w1}
    None = None
    Kept = {TRUE, FALSE}
    Ticks = TRUE
    MaxRec = 2
    MaxFault = 2
PROPERTY RevertsEnd
