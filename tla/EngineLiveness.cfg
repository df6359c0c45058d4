SPECIFICATION FairSpec
CONSTANTS
    s1 = s1  s2 = s2  s3 = s3
    r1 = r1  r2 = r2
    v1 = v1  v2 = v2
    Servers <- MCServers
    Versions <- MCVersions
    NoVersion = NoVersion
    InitialVersion = v1
    Regions <- MCRegions
    RegionOf <- MCRegionOf
    NoRegion = NoRegion
    Stages <- MCLastStageReached
    MaxRetries = 1
    StageDelay = 3
    CheckInterval = 2
    AbortEvents = {TRUE, FALSE}
    HasQuarantine = TRUE
    Governed = TRUE
    QuarantineThreshold = 30
    MayClear = FALSE
    MayRaise = FALSE
    MaxDeployments = 1
    MaxDisturbances = 1
INVARIANTS AbortIsPrompt
PROPERTIES Terminates AbortPrevailsEarly EngineWindsDown AbortIsNotPassed
CHECK_DEADLOCK FALSE
