SPECIFICATION Spec
CONSTANTS
    NumDevices = 2
    MaxGen = 5
    MaxRestarts = 2
    MaxCrashes = 2
    MaxRemovals = 2
    MaxFaults = 0
    SlowKubelet = FALSE
    Calm = TRUE
INVARIANTS
    ViewCatchesUp
    OneWriter
PROPERTIES
    TermEndsOldStreams
    WatchedRemovalReported
    Recovery
CHECK_DEADLOCK FALSE
