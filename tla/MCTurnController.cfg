SPECIFICATION FairSpec
CONSTANTS
    a1 = a1
    a2 = a2
    a3 = a3
    b1 = b1
    A = A
    B = B
    None = None
    Session <- MCSession
    Sub <- MCSub
    SessionOf <- MCSessionOf
    Hooked <- MCHooked
    Hanging <- MCHanging
INVARIANTS
    TypeOK
    MutualExclusion
    FifoOrder
    HookBelongsToRunner
    NoEntryMeansIdle
PROPERTIES
    ImplementsSessionLock
    EverySubmissionSettles
CHECK_DEADLOCK FALSE
