SPECIFICATION Spec
CONSTANTS
    Users = 2
    Request = {r1, r2, r3}
    NoRequest = NoRequest
    NoSlot = NoSlot
    MaxRows = 2
    Budget = 2
    PaddedMin = 1
    GdnAfterPairs = TRUE
    ParkedEngines = TRUE
SYMMETRY RequestSymmetry
INVARIANTS
    VerifiedOnOwnState
    CarryAtFrontier
    DeferralsStayInStep
    BlockDecided
PROPERTIES
    ImplementsPrivateState
