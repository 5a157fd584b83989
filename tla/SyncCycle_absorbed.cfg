CONSTANTS
    m1 = m1
    m2 = m2
    s1 = s1
    s2 = s2
    Mailboxes <- TwoMailboxes
    SessionIds <- TwoSessions
    FileBased = FALSE
    MaxAttempts = 2
    Budget = 3
    Env <- AbsorbedEnv
SPECIFICATION Spec
SYMMETRY Symmetry
INVARIANTS
    OneCycle
    SweptIsDead
    CountedOnce
    SuccessMeansAllCompleted
    FinalizersComeLast
