CONSTANTS
    None = None
    Requests = {r1, r2}
    Connections = {c1, c2}
    Providers = {"oauth_mailbox", "generic_imap"}
    MaxAttempts = 2
    Budget = 1
    CommandEnv = {"edit", "command", "network", "refused", "death", "delete"}
    Types = {"generic_imap", "microsoft_365", "google_workspace", "oauth_mailbox", "pst_import"}
    MaxFills = 2
    MaxEdits = 2
    Presets <- SinglePolicies
    Written <- PolicyPairs
    Text = {"a", "A", "b", " a", " ", "empty", "me", "u2", "s1"}
    MaxChanges = 2
    Writers = {w1, w2, w3}
    Payloads = {x, y}
    NoHash = NoHash
    ChunkSize = 2
    MaxEntries = 4
    Tabs = {t1, t2}
    Admin = Admin
    BackupCount = 2
    Tolerance = 1
    UsedTtl = 3
    MaxAsks = 3
    MaxTurns = 1
SPECIFICATION Spec
SYMMETRY Symmetry
CHECK_DEADLOCK FALSE
INVARIANTS
    TokensFit
    AuthorizedHasImport
    PoliciesHold
    LogHolds
    FactorHolds

    
