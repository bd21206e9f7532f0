SPECIFICATION Spec
CONSTANTS
    Parent <- ThreeLevels
    People <- FourPeople
    Existing <- AllButNew
    Enrolled = {"user"}
    Kinds <- AnyTwoAndOne
    MayFail = TRUE
INVARIANTS
    OldPasswordEnds
    EnrolledIsProved
    OwnerIsKept
PROPERTIES
    ChangesAreOwn
CHECK_DEADLOCK FALSE
