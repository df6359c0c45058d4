SPECIFICATION Spec
CONSTANTS
    d1 = d1  d2 = d2  s1 = s1  s2 = s2
    Deployments <- MCDeployments
    Servers <- MCServers
    NoEvent = NoEvent
    Torn = Torn
    MaxStands = 1
    MaxEvents = 5
    MaxNotes = 1
    MaxFaults = 1
INVARIANTS
    GapsAreReported TimelineIsRecordedOrder 
SYMMETRY MCSymmetry
CHECK_DEADLOCK FALSE
