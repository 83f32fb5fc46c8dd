SPECIFICATION Spec
CONSTANTS
    NumDevices = 1
    MaxGen = 2
    MaxRestarts = 1
    MaxCrashes = 0
    MaxRemovals = 0
    MaxFaults = 0
    SlowKubelet = FALSE
    Calm = FALSE
PROPERTIES
    TermEndsOldStreams
CHECK_DEADLOCK FALSE
