SPECIFICATION Spec
CONSTANTS
    s1 = s1  s2 = s2  s3 = s3
    r1 = r1  r2 = r2
    v1 = v1  v2 = v2
    Servers <- MCServers
    Versions <- MCVersions
    NoVersion = NoVersion
    InitialVersion = v1
    Regions <- MCRegions
    RegionOf <- MCRegionOf
    NoRegion = NoRegion
    Stages <- MCTwoStages
    MaxRetries = 0
    StageDelay = 1
    CheckInterval = 1
    AbortEvents <- MCListening
    HasQuarantine = TRUE
    Governed = FALSE
    QuarantineThreshold = 30
    MayClear = FALSE
    MayRaise = FALSE
    MaxDeployments = 1
    MaxDisturbances = 1
INVARIANTS RolledBackLeavesNoTarget
CHECK_DEADLOCK FALSE
