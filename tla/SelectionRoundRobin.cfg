SPECIFICATION Spec
CONSTANTS
    RegionCount = 4
    MaxPerRegion = 3
    MaxCount = 8
INVARIANTS ReturnsASelection SpreadIsEven
CHECK_DEADLOCK FALSE
