SPECIFICATION EngineManagerFairSpec
CONSTANTS
    Backend = {"parakeet", "whisper"}
    Whisper = "whisper"
    Serials = {1, 2, 3}
    MaxStarts = 2
    MaxChanges = 3
    MaxFailures = 1
    Environments <- MCEnvironments
INVARIANTS
    InferenceKeepsEngine
    AudioFindsEngine
    EngineManagerTypeOK
PROPERTIES
    CallersReturn
CHECK_DEADLOCK FALSE
