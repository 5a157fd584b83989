CONSTANTS
    Ids <- ThreeIds
    Versions <- ThreeVersions
    MessageOf <- Messages
    SourceOf <- TwoSources
    ScanPage = 2
    DeleteBatch = 2
    DuplicatePage = 1
    Env = {"both", "insert", "lateWrite", "rebuild", "delete", "source", "hold", "namesFail", "fail", "taskFail", "crash"}
    Budget = 2
SPECIFICATION Spec
CHECK_DEADLOCK FALSE
INVARIANTS
    LiveSearchable
    OrphansGone
    DuplicatesGone
PROPERTY
    CopiesRemain
