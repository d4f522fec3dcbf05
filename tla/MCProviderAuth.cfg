CONSTANTS
    Sessions = {s1, s2}
    None = None
    Other = Other
    MaxPrompts = 2
    MaxRedirects = 2
    Agents = {a}
    Requests = {r1}
SPECIFICATION AuthSpec
SYMMETRY MCSymmetry
INVARIANTS
    AuthTypeOK
    ScreenFlowAndResponseAgree
    CodesMeetTheirPrompts
    EndedSignInsLetGo
    AgentsGetTheCredentials
CHECK_DEADLOCK FALSE
