SPECIFICATION MCSpec
CONSTANTS
  MAX_THREADS = 3
  Port = {1, 2}
  CHANNEL_CAPACITY = 1
  MAX_LIVE_SESSIONS = 2
  MAX_SESSIONS_PER_OWNER = 1
  MAX_SESSION_ID = 4
  Grants <- AllButOne
  Revocable <- OneToken
  Workloads <- MCWorkloads
INVARIANTS SchedulerSound SessionsSound
PROPERTIES SchedulerSteps SchedulerLive SessionSteps PeerExitReleases
