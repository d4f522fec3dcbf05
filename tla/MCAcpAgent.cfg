CONSTANTS
    p1 = p1
    p2 = p2
    q1 = q1
    q2 = q2
    patient = patient
    hasty = hasty
    Sessions = {patient, hasty}
    Prompts <- MCPrompts
    SessionOf <- MCSessionOf
    Patient = {patient}
    None = None
    MaxCancels = 2
SPECIFICATION Spec
INVARIANTS
    TypeOK
    CancellationFindsThePrompt
    OneCancellationOnePrompt
PROPERTIES
    EveryPromptIsAnswered
CHECK_DEADLOCK FALSE
