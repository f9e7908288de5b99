SPECIFICATION ServicesSpec
CONSTANTS
    tray = tray
    bubble = bubble
    autostop = autostop
    h1 = h1
    h2 = h2
    Timers <- MCTimers
    Delayed <- MCDelayed
    MaxCancels = 2
    Handlers <- MCHandlers
    MaxRetries = 1
    MaxFlaps = 2
    Limits <- DeviceLimits
    MaxSessions = 2
    MaxChunks = 4
    RingSize = 2
    PrerollSize = 1
    DrainStop = 2
INVARIANTS
    NothingEscapesCancel
    OpenStreamsAreHeld
    BufferIsTheRecording
    ServicesTypeOK
PROPERTIES
    OnlyCurrentIsCleared
    CurrentCallbackRuns
    LossIsSettled
    StaleWorkerEnds
CHECK_DEADLOCK FALSE
