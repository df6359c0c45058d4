SPECIFICATION Spec
CONSTANTS
    s1 = s1  s2 = s2
    t1 = t1  t2 = t2
    Servers <- MCServers
    CriticalServers <- MCCritical
    StrictServers <- MCServers
    Threads <- MCThreads
    Policies <- MCPolicies
    MaxRecoveryAttempts = 1
    MaxRecentRollbacks = 2
    MaxManual = 1
INVARIANTS DecisionIsSeverest CeilingsHold RiskIsApproved
PROPERTIES AdvancesHealthy
CHECK_DEADLOCK FALSE
