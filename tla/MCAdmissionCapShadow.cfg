CONSTANTS
    a1 = a1
    a2 = a2
    a3 = a3
    b1 = b1
    g1 = g1
    ka = ka
    kb = kb
    kc = kc
    Request = {a1, a2, a3}
    Key = {ka, kb, kc}
    keyId <- MCkeyId
    lane <- MClane
    maxParallel <- MCmaxParallel
    maxInflight = 3
    ShadowLane = TRUE
SYMMETRY Symmetry
SPECIFICATION Spec
INVARIANT PerKeyCap
