CONSTANTS
    Tasks <- MCTasks
    Agents <- MCAgents
    Sage = "sage"
    DefaultAgent = "goat"
    AssignedTo <- MCAssignedTo
    ReportsTo <- MCReportsTo
    NoManager = "none"
    TopDown = TRUE
    OpenTasksThreshold = 1
    MaxParallelFlows = 2
    TaskListLimit = 3
    InitialStatuses = {"todo", "doing", "blocked"}
    MaxEdits = 0
SPECIFICATION Spec
INVARIANT
    OverflowIsCompactedAndRetried
CHECK_DEADLOCK FALSE
