SPECIFICATION Spec
CONSTANTS
  MaxRecordings = 3
  MaxWorkers = 3
  MaxCycle = 3
  MaxFirings = 1
  LoadMayFail = TRUE
  EngineMayFail = FALSE
  SlowJoin = TRUE
  Timeouts = FALSE
  EscEnabled = FALSE
  AutoStops = TRUE
  QueuedStarts = FALSE
INVARIANT NotBusyMeansDone
INVARIANT AudioInOnePlace
INVARIANT PasteOnce
PROPERTY KeepsContract
CHECK_DEADLOCK FALSE
