SPECIFICATION ExclusionSpec
CONSTANTS
    MaxSessions = 1
    MaxMeetings = 2
    Paced = FALSE
INVARIANTS
    ArbiterFollowsRecorder
    HotkeysComeBack
