CONSTANTS
    None = None
    a1 = a1
    a2 = a2
    Account = {a1}
    OpenedAccounts = {a1}
    Identity = {i1}
    SLOT_COUNT = 1
    MAX_PROFILES_PER_SLOT = 1
    MAX_PROFILES_PER_ACCOUNT = 1
    MAX_DATA_ACCOUNTS = 1
    MAX_DATA_SESSIONS = 1
    MAX_USAGE = 4
    Entitlement <- Capped
    DemoPeriod <- NoPeriods
    INSTALL_PERIOD = 3
    COOLDOWN = 2
    GRACE = 1
    MAX_TICK = 6
    Bytes = {1, 3}
    SVC_CALLS <- BillingCalls
SPECIFICATION SvcSpec
INVARIANTS StoresAgree
PROPERTIES StepsAccounted PeriodRules
