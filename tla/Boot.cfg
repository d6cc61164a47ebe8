CONSTANTS
    TOTAL_FRAMES = 44
    QUEUE_PAGES = 2
    Boots <- MCBoots
    PAGE = 2
    MAX_ADDR = 12
    IMAGE_LEN = 4
    PRIVATE_REGION_BASE = 2
    PRIVATE_REGION_END = 10
    STACK_SIZE = 2
    STACK_GUARD_SIZE = 2
    Segments <- MCSegments
    EntryPoints = {2, 5}
    ListKinds = {"BootAllowlist", "InstanceAllowlist"}
    Modules <- MCModules
    Instances <- MCInstances
    Contents = {"c1", "c2"}
    Tiers = {"t1", "t3"}
    Root = "root"
    Insertions <- MCInsertions
    MAX_LOADS = 2
    MAX_PORT = 3
    Lengths = {0, 1, 3}
    Widths = {0, 1, 2}
    LIFETIME = 1
    MAX_TICKS = 2
    MAX_TOKENS = 1
    Conns = {1, 2, 3}
    MAX_CONNECTIONS = 2
    ProxyCases <- MCProxyCases
    NoField = NoField
    Applied = Applied
    CleanPass = CleanPass
    AuditClass = {Applied, CleanPass}
    Quota <- MCQuota
    MAX_SUMMARY_COMMITS = 3
    MAX_U64 = 6
SPECIFICATION TrustSpec
CHECK_DEADLOCK FALSE
INVARIANTS MemorySound ImagesLoaded AllowlistHolds TokensHold ProxySound AuditSound DropsDisclosed
PROPERTIES ConnectionEnds
