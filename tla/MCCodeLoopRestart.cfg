CONSTANTS
    Gateways = {g1}
    Clients = {c1, c2}
    WholeJob = {c2}
    Outdated = {1}
    MaxStarts = 2
    MaxCrash = 1
    MaxFault = 1
    MaxStopFault = 1
    Rolling = FALSE
    None = None
    Torn = Torn
SPECIFICATION FairSpec
INVARIANT
    OneUnit
PROPERTIES
    TerminalIsFinal
    RunSettles
