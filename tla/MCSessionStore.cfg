SPECIFICATION Spec
CONSTANTS
    p1 = p1
    p2 = p2
    Proc <- Two
    StartTimeKnown = TRUE
    MaxTurns = 1
    MaxRenames = 1
    MaxBoots <- Boots
PROPERTIES
    StatusAgreesWithMark
    OperatorTitleSticks
    CleanExit
    SweepIsExact
CHECK_DEADLOCK FALSE
