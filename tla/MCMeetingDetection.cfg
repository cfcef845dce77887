SPECIFICATION Spec
CONSTANTS
    appA = appA
    appB = appB
    pidA = pidA
    pidA2 = pidA2
    pidB = pidB
    App = {appA, appB}
    Session = {pidA, pidA2, pidB}
    AppOf <- MCAppOf
    None = None
    Stability = 1
    StopStability = 1
    Cooldown = 2
    MaxTime = 3
SYMMETRY MCSymmetry
INVARIANTS
    QuestionIsOnScreen
    PolicyFollowsRecorder
    SuggestionMeansGone
PROPERTIES
    AnsweredAppIsQuiet
