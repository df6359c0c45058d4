SPECIFICATION Spec
CONSTANTS
    r1 = r1  r2 = r2
    Servers <- MCServers
    Regions <- MCRegions
    RegionOf <- MCRegionOf
    Limits <- MCLimits
    Operators = {"operator"}
    OperatorThresholds <- MCOperatorThresholds
    CandidateSets <- MCCandidateSets
    Rates <- MCRates
    Observed <- MCObserved
    MaxInjections = 1
    MaxChanges = 1
INVARIANTS
    TypeOK
PROPERTIES
    VerdictIsRight RegionsAreIsolated
