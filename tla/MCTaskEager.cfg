SPECIFICATION Spec
CONSTANTS
    p1 = p1
    p2 = p2
    t1 = t1
    t2 = t2
    Proc <- OneProc
    Task <- TwoTasks
    Kinds <- AllKinds
    Chat = 1
    MaxAttempts = 2
    StepsFail = FALSE
    MaxBoots <- Boots
    MaxFirings = 2
    MaxDrains = 1
    MaxDeletes = 1
PROPERTY NeverEagerlyDrained
CHECK_DEADLOCK FALSE
