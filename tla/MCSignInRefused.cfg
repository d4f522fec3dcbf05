CONSTANTS
    Sessions = {s1, s2}
    None = None
    Other = Other
    MaxPrompts = 2
    MaxRedirects = 2
SPECIFICATION Spec
SYMMETRY MCSymmetry
INVARIANT
    RefusedOnlyWhenNotWaiting
CHECK_DEADLOCK FALSE
