SPECIFICATION Spec
CONSTANTS
    NumDevices = 1
    MaxGen = 1
    MaxRestarts = 0
    MaxCrashes = 0
    MaxRemovals = 1
    MaxFaults = 0
    SlowKubelet = FALSE
    Calm = FALSE
PROPERTIES
    RecreatedDeviceRecovers
CHECK_DEADLOCK FALSE
