CONSTANTS
    Agents = {a, b}
    Goat = goat
    Main = a
    Managers = {}
    None = None
    MaxBroken = 1
SPECIFICATION Spec
INVARIANTS
    TypeOK
    ReportingIsATree
    WorkspacesFollowManifests
    ResetForgetsNobody
