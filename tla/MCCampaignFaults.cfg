SPECIFICATION Spec
CONSTANTS
    Copy = {c1, c2, c3}
    NoCopy = none
    c1 = c1
    c2 = c2
    c3 = c3
    Classes = {"spam", "analysis", "auth", "tagged"}
    Threshold = 3
    Action = "aggregate"
    HasRaw = TRUE
    Faults = {"crash", "blind", "slow", "late"}
SYMMETRY CopySymmetry
INVARIANT OneInvestigation
INVARIANT DiscardedIsStored
INVARIANT ExcludedKeepsItsRecord
CHECK_DEADLOCK FALSE
