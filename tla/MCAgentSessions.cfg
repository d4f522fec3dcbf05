CONSTANTS
    Calls = {c1, c2, c3, c4}
    Keys = {k1, k2}
    Ids = {i1, i2}
    None = None
    Cut = Cut
    KeepRecent = 1
    Trigger = 3
    Exclusive = TRUE
SPECIFICATION Spec
SYMMETRY MCSymmetry
INVARIANTS
    TypeOK
    TranscriptIsTheLog
    RepliesFollowQuestions
PROPERTIES
    CutStoreIsKept
CHECK_DEADLOCK FALSE
