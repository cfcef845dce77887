SPECIFICATION Spec
CONSTANTS
    MaxChunks = 2
    None = None
INVARIANTS
    TextIsWhatWasHeard
    FailureFallsBack
PROPERTIES
    RunWindsDown
CHECK_DEADLOCK FALSE
