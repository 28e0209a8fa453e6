CONSTANTS
    Proc = {p1, p2, p3, p4}
    MaxCrash = 1
    MaxStall = 0
SYMMETRY Symmetry
SPECIFICATION Spec
INVARIANT OneUserAfterCrash
CHECK_DEADLOCK FALSE
