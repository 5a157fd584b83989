CONSTANTS
    Nowhere = Nowhere
    Providers = {"generic_imap"}
    Transports <- BothTransports
    Messages <- TwoMessages
    Folders = {f1, f2}
    Excused = {2}
    PageSize = 1
    MaxConsecutive = 2
    MaxEvents = 4
    MaxUid = 2
    MailEnv = {"listFail", "fetchFail", "archiveFail", "crash", "expire"}
    ImapEnv = {"fetchFail"}
    Imports = {i1, i2}
    Pids = {p1, p2}
    NoPid = NoPid
    Entries = {a, b}
    Unreadable = {b}
    FileEnv = {"crash", "streamFail", "sentinelFail", "cutShort", "retry"}
    Budget = 2
    Files <- ShortFiles
SPECIFICATION Spec
CHECK_DEADLOCK FALSE
INVARIANTS
    NothingLost
