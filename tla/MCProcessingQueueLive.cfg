SPECIFICATION FairSpec
CONSTANTS
    Meeting = {m1, m2, m3}
    None = None
    MaxPolls = 1
    HandlerMayPanic = FALSE
INVARIANTS
    RunningIsBacked
PROPERTIES
    RefinesSchedule
    EveryJobGetsItsTurn
