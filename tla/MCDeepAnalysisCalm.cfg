SPECIFICATION FairSpec
CONSTANTS
    N = 3
    KindOf <- ThreeKinds
    light = light
    heavy = heavy
    Worker = {light, heavy}
    Serves <- MCServes
    HasRaw = TRUE
    Outcomes = {"clean", "suspicious", "malicious", "inconclusive", "failed"}
    Faults = {}
    MaxManual = 0
PROPERTY CleanMailArrives
CHECK_DEADLOCK FALSE
