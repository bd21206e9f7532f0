SPECIFICATION Spec
CONSTANTS
    Msg = {m1, m2}
    DigestLoop = digestLoop
    ReminderLoop = reminderLoop
    Profiles <- Reminded
    Retry = 6
    Cadence = 8
    Lookback = 10
    MaxTime = 15
    Faults = {}
SYMMETRY MsgSymmetry
INVARIANT NewHoldsStayDue
CHECK_DEADLOCK FALSE
