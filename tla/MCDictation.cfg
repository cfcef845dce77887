SPECIFICATION FairSpec
CONSTANTS
    MaxSessions = 3
    Paced = TRUE
CHECK_DEADLOCK FALSE
INVARIANTS
    CaptureOwnership
    ProcessingIsOwned
    QuietIsConsistent
    OneLivePipeline
    OutputIsWanted
PROPERTIES
    EscIgnoredOnlyAfterCommit
    ProcessingEnds
