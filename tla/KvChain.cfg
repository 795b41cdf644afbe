SPECIFICATION FairSpec
CONSTANTS
    Size = 3
    Rounds = 5
    First = {1, 2, 4}
    Slots = 2
    QUnits = 2
    TestHang = FALSE
INVARIANTS
    SlotsHoldTheirRound
    LandsInReservedSlot
    CleanExit
PROPERTIES
    EverybodyEnds
CHECK_DEADLOCK FALSE
