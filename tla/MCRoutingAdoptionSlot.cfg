CONSTANTS
    Tick = {t1, t2}
    Cli = {}
    Content = {a, b, c}
    MaxToken = 4
    MaxId = 2
    MaxFault = 0
SYMMETRY Symmetry
SPECIFICATION Spec
INVARIANT JournalIsSingleSlot
CHECK_DEADLOCK FALSE
