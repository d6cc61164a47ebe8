SPECIFICATION MsgSpec
CONSTANTS
  MAX_THREADS = 3
  Port = {1}
  CHANNEL_CAPACITY = 2
  MAX_LIVE_SESSIONS = 1
  MAX_SESSIONS_PER_OWNER = 1
  MAX_SESSION_ID = 1
  Grants <- AllGrants
  Revocable <- SenderTokens
  Workloads <- PortCalls
  MSG_LEN = 3
  TheChannel = 1
INVARIANTS MessagesWhole
PROPERTIES LockReleasedUnlessRevoked
