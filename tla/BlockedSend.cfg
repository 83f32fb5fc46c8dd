SPECIFICATION Spec
CONSTANTS
    NumDevices = 1
    MaxGen = 2
    MaxRestarts = 1
    MaxCrashes = 0
    MaxRemovals = 1
    MaxFaults = 0
    SlowKubelet = FALSE
    Calm = FALSE
PROPERTIES
    ReportedRemovalRestarts
CHECK_DEADLOCK FALSE
