SPECIFICATION Spec
CONSTANTS
    MaxCores = 40
    MaxChunks = 50
    RunCores = 5
INVARIANTS
    PlanAgrees
    SentIsCombined
    OutputCoversAll
PROPERTIES
    EverybodyEnds
CHECK_DEADLOCK FALSE
