SPECIFICATION Spec
CONSTANTS
    Requests = 2
    Mail <- ThreeMessages
    Verdicts = {"spam", "phishing", "unreviewed"}
    ListScopes = {"org", "user"}
    MayFail = TRUE
INVARIANTS
    DecisionSurvives
    BlockTakesEffect
    ClearedIsCleared
    BlockSettlesEntry
PROPERTIES
    VerdictIsOwn
CHECK_DEADLOCK FALSE
