SPECIFICATION LiveSpec
CONSTANTS
    Meeting = {m1}
    None = None
    MaxVersion = 3
    MaxCrashes = 2
    Paced = TRUE
INVARIANTS
    TranscriptIsOfAudio
    DraftYieldsToFinal
    AudioFollowsRow
PROPERTIES
    ProcessingEnds
CHECK_DEADLOCK FALSE
