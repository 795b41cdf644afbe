SPECIFICATION Spec
CONSTANTS
    Request = {r1, r2, r3, r4}
    NoRequest = NoRequest
    Seats = 3
    Rooms = 3
    MaxChunks = 2
    DecodeSteps = 1
    MaxRounds = 2
    Faults = {"device", "sampler", "bridge", "close"}
SYMMETRY RequestSymmetry
INVARIANTS
    EngineSurvives
    BridgesMatchDecodes
    CaptureFollowsPrompt
    ShutdownComplete
PROPERTIES
    ReleaseTouchesOnlyOwn
    DecodersGetATurn
CHECK_DEADLOCK FALSE
