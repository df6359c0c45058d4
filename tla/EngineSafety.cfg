SPECIFICATION Spec
CONSTANTS
    s1 = s1  s2 = s2  s3 = s3
    r1 = r1  r2 = r2
    v1 = v1  v2 = v2
    Servers <- MCServers
    Versions <- MCVersions
    NoVersion = NoVersion
    InitialVersion = v1
    Regions <- MCRegions
    RegionOf <- MCRegionOf
    NoRegion = NoRegion
    Stages <- MCThreeStages
    MaxRetries = 1
    StageDelay = 1
    CheckInterval = 1
    AbortEvents = {TRUE, FALSE}
    HasQuarantine = FALSE
    Governed = TRUE
    QuarantineThreshold = 30
    MayClear = FALSE
    MayRaise = TRUE
    MaxDeployments = 2
    MaxDisturbances = 2
INVARIANTS
    TypeOK ChangesAreRecorded BlastRadius CompletedEverywhere
    RolledBackRestores 
SYMMETRY MCSymmetry
CHECK_DEADLOCK FALSE
