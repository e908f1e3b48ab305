SPECIFICATION Spec
CONSTANTS
    s1 = s1
    s2 = s2
    Session <- Two
    Shared <- One
    MaxReq = 2
    MaxMoves = 2
    MaxJobs = 2
INVARIANTS
    OneRequestPerSession
    AnswerIsTrue
    BackgroundYields
    SummaryFitsItsRow
PROPERTIES
    StoppedWritesNothing
    RequestIsAnswered
CHECK_DEADLOCK FALSE
