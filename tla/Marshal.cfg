CONSTANTS
    MAX_BYTE = 9
    NOT_UTF8 = 9
    MAX_SOCKETS = 2
    MAX_PAYLOAD_LEN = 2
    MAX_JSON_LEN = 2
    MAX_MESSAGE_LEN = 1
    JSON_LEN_BYTES = 1
    STRING_LEN_BYTES = 1
    Arriving <- NoneArriving
    Session = {1, 2}
    SESSION_CHANNEL_CAPACITY = 4
    CONNECT_TIMEOUT_ITERATIONS = 1
    TCP_BUFFER = 2
    PeerReplies <- AllReplies
    MAX_FAULTS = 2
    c1 = c1
    c2 = c2
    Client = {c1, c2}
    Kerkese <- Jsons
    MaxPolls = {1, 2}
    MAX_SESSIONS_OPENED = 2
SPECIFICATION MCSpec
INVARIANTS SlotsSound VerdictsHold
PROPERTIES EvaluationsEnd
CHECK_DEADLOCK FALSE
