SPECIFICATION Spec
CONSTANTS
    MaxSessions = 2
    Edit = {textA, textB}
    Learnable = {textA}
    MaxEdits = 2
INVARIANTS
    NothingForeignIsLearned
    CandidatesAreCurrent
    RowsFollowObservers
PROPERTIES
    DecisionsStand
    SeenEditsAreKept
