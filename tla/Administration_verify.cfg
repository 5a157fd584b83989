CONSTANTS
    None = None
    Requests = {r1}
    Connections = {c1}
    Providers = {"generic_imap"}
    MaxAttempts = 1
    Budget = 0
    CommandEnv = {}
    Types = {"generic_imap"}
    MaxFills = 0
    MaxEdits = 0
    Presets <- NoPolicy
    Written <- NoPolicy
    Text = {"a", "A", "b", " a", " ", "empty", "me", "u2", "s1"}
    MaxChanges = 0
    Writers = {w1, w2}
    Payloads = {x, y}
    NoHash = NoHash
    ChunkSize = 2
    MaxEntries = 4
    Tabs = {t1, t2}
    Admin = Admin
    BackupCount = 2
    Tolerance = 1
    UsedTtl = 3
    MaxAsks = 3
    MaxTurns = 1
SPECIFICATION Spec
CHECK_DEADLOCK FALSE
INVARIANTS
    BrokenMeansAltered
