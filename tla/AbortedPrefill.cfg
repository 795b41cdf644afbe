SPECIFICATION FairSpec
CONSTANTS
    Request = {r1, r2, r3}
    NoRequest = NoRequest
    Seats = 3
    Rooms = 3
    MaxChunks = 2
    DecodeSteps = 1
    MaxRounds = 1
    Faults = {}
PROPERTIES
    AbortFreesGate
CHECK_DEADLOCK FALSE
