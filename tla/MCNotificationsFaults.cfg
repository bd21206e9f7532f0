SPECIFICATION Spec
CONSTANTS
    Msg = {m1, m2}
    DigestLoop = digestLoop
    ReminderLoop = reminderLoop
    Profiles <- Users
    Retry = 6
    Cadence = 8
    Lookback = 10
    MaxTime = 15
    Faults = {"smtp", "db"}
SYMMETRY MsgSymmetry
INVARIANT ForgottenOnlyMidNotice
PROPERTY ReminderKeepsCadence
PROPERTY DigestListsOnce
CHECK_DEADLOCK FALSE
