SPECIFICATION Spec
CONSTANTS
    Msgs = 2
    Rcpts = 2
    Decisions = {"delivered", "quarantined", "rejected"}
    Window = 1
    Faults = {"down", "slow", "drop", "crash", "restart"}
    MaxLines = 2
    MaxTime = 2
INVARIANTS
    OutcomeIsTrue
PROPERTIES
    MismatchStands
    OutcomesMoveForward
    LinesAreHandled
CHECK_DEADLOCK FALSE
