SPECIFICATION FairSpec
CONSTANTS
    p1 = p1
    p2 = p2
    t1 = t1
    t2 = t2
    Proc <- TwoProcs
    Task <- OneTask
    Kinds <- MostKinds
    Chat = 1
    MaxAttempts = 2
    StepsFail = TRUE
    MaxBoots <- Boots
    MaxFirings = 2
    MaxDrains = 1
    MaxDeletes = 1
INVARIANTS
    TypeOK
    OneRunPerTask
    RunningHasItsRun
PROPERTIES
    OutcomeIsOwn
    EndStands
    DueIsServed
CHECK_DEADLOCK FALSE
