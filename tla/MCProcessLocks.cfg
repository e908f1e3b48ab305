SPECIFICATION Spec
CONSTANTS
    p1 = p1
    p2 = p2
    p3 = p3
    NoFile = NoFile
    Empty = Empty
    Proc <- Three
    Wants <- Bots
    MaxStarts = 1
PROPERTIES
    SomeoneLeads
    OverlapEnds
CHECK_DEADLOCK FALSE
