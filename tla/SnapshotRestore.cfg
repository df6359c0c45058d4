SPECIFICATION Spec
CONSTANTS
    s1 = s1  s2 = s2  r1 = r1  r2 = r2  v1 = v1  v2 = v2
    Servers <- MCServers
    Versions <- MCVersions
    NoVersion = NoVersion
    InitialVersion = v1
    Target = v2
    Restorers <- MCRestorers
    Observed <- MCObserved
    MayBeMalformed = TRUE
    MaxSnapshots = 2
    MaxChanges = 1
INVARIANTS
    TypeOK FailedRestoreUndone WholeSnapshots RollbackStaysExact
SYMMETRY MCSymmetry
CHECK_DEADLOCK FALSE
