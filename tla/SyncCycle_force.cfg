CONSTANTS
    m1 = m1
    m2 = m2
    s1 = s1
    s2 = s2
    Mailboxes <- TwoMailboxes
    SessionIds <- TwoSessions
    FileBased = FALSE
    MaxAttempts = 2
    Budget = 1
    Env <- ForceEnv
SPECIFICATION Spec
INVARIANT
    OneCycle
