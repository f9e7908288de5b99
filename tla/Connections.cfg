SPECIFICATION ConnectionsSpec
CONSTANTS
    d1 = d1
    m1 = m1
    Dictations <- MCDictations
    Windows <- MCWindows
    Chunks <- MCChunks
    QueueLimit = 2
    MaxGen = 2
    Limits <- MCLimits
    MayClose = TRUE
    Attempts = 2
    MaxRelaunches = 2
    QueueSize = 2
    Server <- MCServer
    Budgets <- MCBudgets
INVARIANTS
    AnswerIsWhole
    NoOrphans
    ExitLeavesNone
    ConnectionsTypeOK
PROPERTIES
    KeepsRequestContract
    FlagIsGivenBack
    SupervisorLinkComesBack
CHECK_DEADLOCK FALSE
