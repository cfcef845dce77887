SPECIFICATION Spec
CONSTANTS
    Meeting = {m1, m2, m3}
    None = None
    MaxPolls = 2
    HandlerMayPanic = TRUE
SYMMETRY Symmetry
INVARIANTS
    OneThreadPerMeeting
    Serial
