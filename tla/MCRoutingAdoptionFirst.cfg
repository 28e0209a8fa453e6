CONSTANTS
    Tick = {t1}
    Cli = {}
    Content = {a, b}
    MaxToken = 2
    MaxId = 1
    MaxFault = 1
SYMMETRY Symmetry
SPECIFICATION Spec
INVARIANT FirstIsJournalled
CHECK_DEADLOCK FALSE
