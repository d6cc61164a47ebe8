CONSTANTS
    None = None
    a1 = a1
    a2 = a2
    Account = {a1, a2}
    OpenedAccounts = {a1}
    Identity = {i1}
    SLOT_COUNT = 1
    MAX_PROFILES_PER_SLOT = 2
    MAX_PROFILES_PER_ACCOUNT = 2
    MAX_DATA_ACCOUNTS = 2
    MAX_DATA_SESSIONS = 3
    MAX_USAGE = 0
    Entitlement <- Unlimited
    DemoPeriod <- NoPeriods
    INSTALL_PERIOD = 1
    COOLDOWN = 1
    GRACE = 1
    MAX_TICK = 0
    Bytes = {}
    SVC_CALLS <- LifecycleCalls
SPECIFICATION SvcSpec
INVARIANT SessionRunsOnEnabled
