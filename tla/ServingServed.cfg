SPECIFICATION FairSpec
CONSTANTS
    Request = {r1, r2, r3}
    NoRequest = NoRequest
    Seats = 2
    Rooms = 1
    MaxChunks = 1
    DecodeSteps = 1
    MaxRounds = 2
    Faults = {}
PROPERTIES
    EveryoneServed
CHECK_DEADLOCK FALSE
