CONSTANTS
    a = a
    b = b
    Services <- MCServices
    Calls <- MCCalls
    SvcOf <- MCSvcOf
    Tasks = {t1, t2}
    Values = {v1}
    Handles = {h1, h2, h3}
    Stamps = {x1, x2, x3, x4}
    None = None
    Exclusive = TRUE
SYMMETRY MCSymmetry
SPECIFICATION Spec
INVARIANTS
    TypeOK
    OperatesOnCurrentBoard
    ReturnedIsOnDisk
PROPERTIES
    ImplementsAtomicBoard
