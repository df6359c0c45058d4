SPECIFICATION FairListenerSpec
CONSTANTS
    Restarts = TRUE
    MaxStarts = 3
    MaxEvents = 2
    MaxLines = 2
    MaxFailures = 1
INVARIANTS OneReader
PROPERTIES StoppedIsSilent AbortDelivered
CHECK_DEADLOCK FALSE
