SPECIFICATION FairSpec
CONSTANTS
  MaxRecordings = 2
  MaxWorkers = 2
  MaxCycle = 2
  MaxFirings = 1
  LoadMayFail = FALSE
  EngineMayFail = TRUE
  SlowJoin = FALSE
  Timeouts = FALSE
  EscEnabled = TRUE
  AutoStops = FALSE
  QueuedStarts = FALSE
INVARIANT TypeOK
INVARIANT BusyHasWorker
PROPERTY EscLeavesIdle
PROPERTY EntriesReturn
PROPERTY NewDictationUnmarked
CHECK_DEADLOCK FALSE
