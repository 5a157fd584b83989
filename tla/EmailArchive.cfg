CONSTANTS
    a1 = a1
    a2 = a2
    a3 = a3
    a4 = a4
    d1 = d1
    d2 = d2
    d3 = d3
    anna = anna
    bert = bert
    c1 = c1
    c2 = c2
    c3 = c3
    c4 = c4
    k = k
    g1 = g1
    g2 = g2
    g3 = g3
    p = p
    q = q
    r = r
    h = h
    i = i
    CacheMax = 1
    none = none
    nothing = nothing
    norow = norow
    Deliveries <- Messages
    MailboxOf <- Mailbox
    ContentOf <- Content
    KeyOf <- Key
    PathOf <- Path
    HeaderIn <- HeaderInContent
    PartsOf <- PartsInContent
    NoHeader <- none
    NoContent <- nothing
    NoRow <- norow
    Worlds <- ThreeWorlds
    Deletable <- Deleted
    Env = {"fail", "crash", "deleteFail"}
    Budget = 1
SPECIFICATION Spec
CHECK_DEADLOCK FALSE
INVARIANTS
    FileIsTheMessage
    OneRowPerMessage
    ArchivedWithParts
    OnePartPerJob
    Backed
