SPECIFICATION EngineManagerSpec
CONSTANTS
    Backend = {"parakeet", "whisper"}
    Whisper = "whisper"
    Serials = {1, 2, 3}
    MaxStarts = 2
    MaxChanges = 3
    MaxFailures = 1
    Environments <- IdleEnvironments
INVARIANTS
    RecordingDisarms
CHECK_DEADLOCK FALSE
