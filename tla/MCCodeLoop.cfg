CONSTANTS
    Gateways = {g1, g2}
    Clients = {c1}
    WholeJob = {c1}
    Outdated = {1}
    MaxStarts = 2
    MaxCrash = 1
    MaxFault = 0
    MaxStopFault = 0
    Rolling = TRUE
    None = None
    Torn = Torn
SPECIFICATION Spec
INVARIANTS
    SingleFlight
    ExecutedIsBound
    NoForgottenUnit
SYMMETRY Symmetry
