SPECIFICATION LiveSpec
CONSTANTS
    TrackOrder <- MCOneTrack
    Texts = {a, b}
    Silence = silence
    Nothing = nothing
    MaxUtterances = 1
    MaxRevision = 1
    MaxLines = 3
    VerifyCapacity = 1
INVARIANTS
    JournalIsAMoment
    ClosedJournalIsTheLog
    WindowFollowsLog
PROPERTIES
    StopEnds
CHECK_DEADLOCK FALSE
