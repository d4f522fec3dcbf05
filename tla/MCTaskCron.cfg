CONSTANTS
    Tasks <- MCTasks
    Agents <- MCAgents
    Sage = "sage"
    DefaultAgent = "goat"
    AssignedTo <- MCAssignedTo
    ReportsTo <- MCReportsTo
    NoManager = "none"
    TopDown = TRUE
    OpenTasksThreshold = 1
    MaxParallelFlows = 2
    TaskListLimit = 3
    InitialStatuses = {"todo", "doing", "blocked"}
    MaxEdits = 1
SPECIFICATION Spec
INVARIANTS
    TypeOK
    OneMessagePerAgent
PROPERTIES
    OneReminderPerTimeout
    OnlyTheBoardEndsTheLoop
    TodoTasksAreBroughtUp
CHECK_DEADLOCK FALSE
