SPECIFICATION Spec
CONSTANTS
    Meeting = {m1, m2}
    None = None
    MaxVersion = 1
    MaxCrashes = 1
    Paced = TRUE
INVARIANTS
    InFlightIsServed
    RecordingIsExclusive
SYMMETRY MeetingSymmetry
CHECK_DEADLOCK FALSE
