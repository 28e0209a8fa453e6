CONSTANTS
    Proc = {p1, p2}
    MaxCrash = 1
    MaxStall = 1
SPECIFICATION FairSpec
INVARIANTS
    OneUser
    NoGhost
PROPERTIES
    ConcurrencyEnds
    EveryWaiterServed
CHECK_DEADLOCK FALSE
