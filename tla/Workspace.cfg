CONSTANTS
    Attachments <- Documents
    ReadConcurrency = 2
    HeapLimit = 8
    HeapBudget = 2
    HardStop = 6
    MaxResident = 5
    Workers = {w}
    Schedulers = {k1, k2}
    Names = {"sync"}
    Patterns = {1, 2, 3}
    Pattern = 2
    MaxFaults = 2
    Emails <- Index
    RootOf <- Roots
    Limit = 2
    MaxTotalHits = 3
    Entered <- Entries
    Typed <- Addresses
    Accesses <- Filters
    MaxEdits = 2
    Texts <- Drafts
    Pasted <- Pastes
    Answers <- Suggestions
    MaxRequests = 3
    Ids = {a, b, c}
    FileBased = {b}
    None = None
    MaxPending = 2
    MaxSent = 2
    Users = {u1, u2, u3}
    Administrator = u1
    Holder = u2
    Pages = {p1, p2}
    Roles = {admin, other}
    SuperAdmin = admin
    UserEmails = {"a", "A", "b"}
    Lower <- LowerCase
    MaxCalls = 2
    MaxFailures = 1
    Messages <- Inbox
    Visible <- Inbox
    PageSize = 2
    MaxDeeds = 3
    Mails <- Box
    Readers <- Open
    MaxSteps = 2
    Nobody = Nobody
SPECIFICATION SearchSpec
SYMMETRY Symmetry
CHECK_DEADLOCK FALSE
INVARIANTS
    ExtractionHolds
    ProcessesHold
    SearchIsExact
    PageMirrors
    AccountsHold
    MessagesHold
