SPECIFICATION Spec
CONSTANTS
    s1 = s1  s2 = s2  s3 = s3  ghost = ghost
    c1 = c1  c2 = c2  e1 = e1
    v1 = v1  v2 = v2  v3 = v3
    Servers <- MCTwoServers
    Missing <- MCMissing
    Versions <- MCVersions
    NoVersion = NoVersion
    InitialVersion = v1
    Target = v2
    Callers <- MCTwoCallers
    Engines <- MCEngine
    ForceFlags <- MCEither
    Governed = TRUE
    MayRaise = TRUE
    Mixed = TRUE
    MaxDrifts = 1
INVARIANTS
    AllRestored ReportsAreTrue SettledMark GuardHolds
SYMMETRY MCSymmetry
CHECK_DEADLOCK FALSE
