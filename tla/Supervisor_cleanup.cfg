SPECIFICATION SupervisorSpec
CONSTANTS
    Attempts = 2
    MaxRelaunches = 2
    QueueSize = 2
    Server = {1, 2, 3, 4, 5}
    Budgets <- MCBudgets
PROPERTIES
    CleanupsClearTheirOwn
CHECK_DEADLOCK FALSE
