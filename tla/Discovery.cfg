SPECIFICATION Spec
CONSTANTS
    Models <- MCModels
    KindOf <- MCKindOf
    NameOf <- MCNameOf
    NoName = ""
    ValidClasses <- MCClasses
    Keys <- MCKeys
    NoFd = 0
    Hosts <- MCHosts
    Unset = "unset"
    Environments <- MCEnvironments
    MaxLoads = 1
    MaxFaults = 1
INVARIANTS
    TypeOK
    KeysArePartitioned
    NodesAreTheDevices
    WatchesItsDevices
    GfdAsksForAGpu
    PlainHostHasSpecs
    CdiAgreesWithAllocate
CHECK_DEADLOCK FALSE
