CONSTANTS
    CLUSTERS = 24
    Volumes <- MCVolumes
    FSINFO_UNKNOWN = 999
    NUM_FATS = 2
    WALK = 8
    MAX_FAULTS = 1
    MAX_RESTARTS = 1
SPECIFICATION FatSpec
INVARIANTS VolumeIntact MirrorDriftBounded
PROPERTIES QuarantineHolds Reports
