SPECIFICATION Spec
CONSTANTS
    MaxSessions = 2
    Paced = TRUE
CHECK_DEADLOCK FALSE
INVARIANTS
    EscSpeechIsNeverOutput
