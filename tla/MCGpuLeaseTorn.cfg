CONSTANTS
    Proc = {p1, p2}
    MaxCrash = 1
    MaxStall = 0
SPECIFICATION FairSpec
PROPERTY DeadNeverHold
CHECK_DEADLOCK FALSE
