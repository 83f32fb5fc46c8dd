SPECIFICATION Spec
CONSTANTS
    Models <- MCModels
    KindOf <- MCKindOf
    NameOf <- MCNameOf
    NoName = ""
    ValidClasses <- MCClasses
    Keys <- MCKeys
    NoFd = 0
    Hosts <- NoFds
    Unset = "unset"
    Environments <- NoAlias
    MaxLoads = 0
    MaxFaults = 0
INVARIANTS
    AdvertisedIsAllocated
CHECK_DEADLOCK FALSE
