CONSTANTS
    MaxRecordings = 2
    MaxWorkers = 2
    MaxCycle = 2
    MaxFirings = 1
    LoadMayFail = FALSE
    EngineMayFail = FALSE
    SlowJoin = FALSE
    Timeouts = FALSE
    EscEnabled = FALSE
    AutoStops = FALSE
    QueuedStarts = TRUE
SPECIFICATION PartsSpec
INVARIANTS
    VolumeComesBack
    SteadyKeyboardComesBack
    SteadyTrayComesBack
CHECK_DEADLOCK FALSE
