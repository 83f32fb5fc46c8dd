SPECIFICATION Spec
CONSTANTS
    NumDevices = 2
    MaxGen = 4
    MaxRestarts = 2
    MaxCrashes = 1
    MaxRemovals = 1
    MaxFaults = 1
    SlowKubelet = TRUE
    Calm = FALSE
INVARIANTS
    TypeOK
    NoSpuriousRestart
    PathIsOwn
    RestartNeverRefused
    HandlerBalance
    UnhealthyIsJustified
PROPERTIES
    ImplementsController
    ImplementsFairness
CHECK_DEADLOCK FALSE
