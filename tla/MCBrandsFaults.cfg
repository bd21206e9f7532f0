SPECIFICATION Spec
CONSTANTS
    n1 = n1
    n2 = n2
    l1 = l1
    NoNode = NoNode
    Nodes <- TwoNodes
    Curated = {"bank"}
    Observed = {"shop"}
    Builds = 1
    SeedPriority <- OnePriority
    Chosen <- SomePriorities
    Loads = {l1}
    Requests = 2
    Ttl = 2
    LoadTime = 1
INVARIANTS
    ProtectedHasProfile
    EditTakesEffect
    EditSeenHere
PROPERTIES
    ReviewedStands
SYMMETRY NodeSymmetry
CHECK_DEADLOCK FALSE
