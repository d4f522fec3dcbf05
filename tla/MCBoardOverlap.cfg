CONSTANTS
    a = a
    b = b
    Services <- MCServices
    Calls <- MCCalls
    SvcOf <- MCSvcOf
    Tasks = {t1}
    Values = {v1}
    Handles = {h1, h2, h3}
    Stamps = {x1, x2, x3, x4}
    None = None
    Exclusive = FALSE
SPECIFICATION Spec
SYMMETRY MCOverlapSymmetry
INVARIANT
    ReloadsWhenAnotherProcessUpdates
