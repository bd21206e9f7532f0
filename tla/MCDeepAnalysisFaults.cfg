SPECIFICATION FairSpec
CONSTANTS
    N = 2
    KindOf <- TwoKinds
    light = light
    heavy = heavy
    Worker = {light, heavy}
    Serves <- MCServes
    HasRaw = TRUE
    Outcomes = {"clean", "malicious", "failed"}
    Faults = {"crash", "enqueue", "smtp", "slow", "late"}
    MaxManual = 1
INVARIANT DeliversOnce
INVARIANT ReleaseRestsOnCleanScans
INVARIANT OneHeldCopy
INVARIANT DiscardedIsKept
INVARIANT ReleasedIsDone
PROPERTY ImplementsHold
PROPERTY HoldSettles
CHECK_DEADLOCK FALSE
