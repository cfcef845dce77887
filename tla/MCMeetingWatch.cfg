SPECIFICATION Spec
CONSTANTS
    Track = {mic}
    None = None
    Threshold <- MCThreshold
    Countdown <- MCCountdown
    MaxMeetings = 2
    MaxKeeps = 1
    MaxTime = 9
INVARIANTS
    WarningIsCurrent
    AutoStopIsAnnounced
    RecordingIsCapped
PROPERTIES
    KeepIsHonoured
CHECK_DEADLOCK FALSE
