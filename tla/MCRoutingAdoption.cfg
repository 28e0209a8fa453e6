CONSTANTS
    Tick = {t1, t2}
    Cli = {m1}
    Content = {a, b, c}
    MaxToken = 4
    MaxId = 2
    MaxFault = 1
SYMMETRY Symmetry
SPECIFICATION Spec
INVARIANTS
    UnconfirmedIsJournalled
    FinalizedIsWatchedOnce
PROPERTIES
    TableWritesAreFenced
    RecordsAreTrue
CHECK_DEADLOCK FALSE
