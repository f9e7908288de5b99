SPECIFICATION ResourcesSpec
CONSTANTS
  MaxRecordings = 2
  MaxWorkers = 2
  MaxCycle = 2
  MaxFirings = 1
  LoadMayFail = TRUE
  EngineMayFail = FALSE
  SlowJoin = FALSE
  Timeouts = FALSE
  EscEnabled = FALSE
  AutoStops = FALSE
  QueuedStarts = FALSE
INVARIANT TrayComesBack
CHECK_DEADLOCK FALSE
