CONSTANTS
    MAX_BYTE = 9
    NOT_UTF8 = 9
    MAX_SOCKETS = 2
    MAX_PAYLOAD_LEN = 1
    MAX_JSON_LEN = 1
    MAX_MESSAGE_LEN = 2
    JSON_LEN_BYTES = 3
    STRING_LEN_BYTES = 2
    Arriving <- MCArriving
    RX_BUFFER_COUNT = 2
    TX_BUFFER_COUNT = 1
    IDX_MOD = 4
    MAX_QUEUE_SIZE = 4
    OfferedSizes = {1, 2, 3}
    MAX_ENTRIES_PER_CALL = 2
    MAX_LIES = 1
    POLL_BOUND = 4
    SERVE_OFFSET = 10
    SERVE_BOUND = 2
    TCP_PONG_LEN = 2
    SelectionPlans <- MCPlans
    Candidates <- MCCandidates
    MAX_CANDIDATES = 3
    MAX_ALLOWED_NETWORKS = 2
    NoNetwork = NoNetwork
SPECIFICATION NetSpec
CHECK_DEADLOCK FALSE
INVARIANTS WireExact RingSound SelectionIsBest
PROPERTIES NetProgress StartSound
