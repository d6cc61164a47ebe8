CONSTANTS
    Sector = {0, 1}
    Data = {"a", "b"}
    None = None
    QSizes = {0, 2, 4, 5, 512}
    Jobs <- MCJobs
    ROUNDTRIP <- MCRoundtrip
    WRAP = 2
    Client = {c1, c2}
    c1 = c1
    c2 = c2
    Plans <- MCPlans
    Names = {"A", "D"}
    Dirs = {"D"}
    Length <- MCLength
    MAX_FS_SESSIONS = 1
    FS_MAX_PENDING_BYTES = 2
    ACCEPT_POLL_INTERVAL = 2
    CAPACITY = 1
    REQUEST_BYTES = 2
    MAX_ERRORS = 1
    SlotKinds <- MCSlots
    MAX_SLOTS = 4
    Targets <- MCTargets
    MAX_LFN_FRAGMENTS = 2
    FRAGMENT_CHARS = 2
    CASE_STEP = 10
SPECIFICATION StorageSpec
INVARIANTS ScanFindsTheName
PROPERTIES AnswersSound ImplementsSectorStore RequestAnswered
