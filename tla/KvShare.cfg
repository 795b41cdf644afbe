SPECIFICATION Spec
CONSTANTS
    Twins = 2
    Heads = 2
    Chunks = 3
    Builds <- BothBranches
INVARIANTS
    SlotsHoldTheirChunk
    CleanExit
PROPERTIES
    EverybodyEnds
CHECK_DEADLOCK FALSE
