SPECIFICATION Pipeline
CONSTANTS
    Scores = {"low", "spam", "quarantine", "reject"}
    Auths = {"brand", "verified", "pass", "fail", "policy", "missing"}
    SymbolSets <- SomeSymbols
    CueSets <- SomeCues
    ClaimSets <- SomeClaims
    Policies <- SomePolicies
    Mailboxes = {"inherit", "enabled"}
INVARIANTS
    EveryAuthHoldStands
CHECK_DEADLOCK FALSE
