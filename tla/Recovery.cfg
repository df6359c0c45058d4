SPECIFICATION Spec
CONSTANTS
    s1 = s1  s2 = s2  s3 = s3
    r1 = r1  r2 = r2
    p1 = p1  p2 = p2
    v1 = v1  v2 = v2
    Servers <- MCServers
    Versions <- MCVersions
    NoVersion = NoVersion
    InitialVersion = v1
    Regions <- MCRegions
    RegionOf <- MCRegionOf
    NoRegion = NoRegion
    Target = v2
    Ends <- MCEnds
    Plans <- MCPlans
    Observed <- MCObserved
    Reviewed = TRUE
    MayRaise = TRUE
    MaxChanges = 1
SYMMETRY MCSymmetry
INVARIANTS
    TypeOK ChangesAreRecorded CompletedPlanDidItsWork RecoveryIsTotal
