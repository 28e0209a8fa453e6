CONSTANTS
    a1 = a1
    a2 = a2
    g1 = g1
    ka = ka
    kc = kc
    Request = {a1, a2}
    Key = {ka, kc}
    keyId <- MCkeyId
    lane <- MClane
    maxParallel <- MCmaxParallel
    maxInflight = 1
    ShadowLane = TRUE
    MaxWindow = 2
    MaxAsked = 1
SPECIFICATION FairWSpec
INVARIANTS
    WindowIsExclusive
PROPERTIES
    WindowEnds
    EveryRequestSettles
