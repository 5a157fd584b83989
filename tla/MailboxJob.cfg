CONSTANTS
    e1 = e1
    e2 = e2
    e3 = e3
    e4 = e4
    k1 = k1
    k2 = k2
    none = none
    Emails <- FourEmails
    Keys <- TwoKeys
    KeyOf <- ThreeCopies
    Drafts <- OneDraft
    NoEmail <- none
    Concurrency = 2
    BatchSize = 1
    MaxRuns = 2
SPECIFICATION FairSpec
CHECK_DEADLOCK FALSE
INVARIANTS
    KeyExaminedAlone
    KeyArchivedOnce
    ReportedMeansSettled
    ArchivedIsQueued
PROPERTY
    KeepsContract
