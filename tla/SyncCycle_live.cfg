CONSTANTS
    m1 = m1
    m2 = m2
    s1 = s1
    s2 = s2
    Mailboxes <- OneMailbox
    SessionIds <- TwoSessions
    FileBased = TRUE
    MaxAttempts = 1
    Budget = 1
    Env <- AllEnv
SPECIFICATION FairSpec
PROPERTY
    CyclesEnd
