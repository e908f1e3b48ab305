SPECIFICATION SvcSpec
CONSTANTS
    a1 = a1
    a2 = a2
    A = A
    m1 = m1
    m2 = m2
    None = None
    Session <- MCSession
    Sub <- MCSub
    SessionOf <- MCSessionOf
    Hooked = {}
    Hanging = {}
    Msg <- MCMsg
    Metered <- MCMetered
    MAX_PENDING_STEERS = 1
INVARIANT UsageIsOwnTurns
CHECK_DEADLOCK FALSE
