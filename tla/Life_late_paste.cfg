SPECIFICATION Spec
CONSTANTS
  MaxRecordings = 2
  MaxWorkers = 2
  MaxCycle = 3
  MaxFirings = 1
  LoadMayFail = FALSE
  EngineMayFail = FALSE
  SlowJoin = FALSE
  Timeouts = FALSE
  EscEnabled = TRUE
  AutoStops = FALSE
  QueuedStarts = FALSE
PROPERTY NoLatePaste
CHECK_DEADLOCK FALSE
