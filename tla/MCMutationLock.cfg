CONSTANTS
    Proc = {p1, p2, p3}
    StaleAfter = 1
    MaxTime = 4
    MaxToken = 3
SYMMETRY Symmetry
SPECIFICATION Spec
INVARIANTS
    OneCurrentHolder
PROPERTIES
    FreshLeaseNeverReclaimed
    WritesAreFenced
