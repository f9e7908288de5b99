SPECIFICATION FairSpec
CONSTANTS
  MaxRecordings = 2
  MaxWorkers = 2
  MaxCycle = 2
  MaxFirings = 2
  LoadMayFail = FALSE
  EngineMayFail = FALSE
  SlowJoin = FALSE
  Timeouts = TRUE
  EscEnabled = FALSE
  AutoStops = FALSE
  QueuedStarts = TRUE
PROPERTY BusyEnds
CHECK_DEADLOCK FALSE
ACTION_CONSTRAINT QueuedStartIsLast
