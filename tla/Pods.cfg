SPECIFICATION PodSpec
CONSTANTS
    Models <- PodModels
    KindOf <- PodKindOf
    NameOf <- PodNameOf
    NoName = ""
    Unset = "unset"
    ValidClasses <- PodClasses
    Keys = {1, 2}
    NoFd = 0
    Hosts <- PodHosts
    Environments <- PodEnvironments
    MaxLoads = 1
    MaxFaults = 1
    MaxRestarts = 2
INVARIANTS
    NoDeviceTwice
    SpecsAreFresh
CHECK_DEADLOCK FALSE
