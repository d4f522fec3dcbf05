CONSTANTS
    Turns = {t1, t2}
    Titles = {"launch plan", "launch copy"}
    Names = {"plan", "copy", "checklist"}
    Expected <- MCExpected
    Score <- MCScore
    MaxSections = 2
    MaxArtifacts = 2
    MaxIncidents = 1
SPECIFICATION Spec
INVARIANTS
    TypeOK
    PassedPhasesAreEarned
PROPERTIES
    CompletePhasesAreLeft
CHECK_DEADLOCK FALSE
