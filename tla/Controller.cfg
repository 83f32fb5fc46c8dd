SPECIFICATION Spec
CONSTANTS
    H100 = H100
    H200 = H200
    Plugins <- MCPlugins
    Paths <- OwnPaths
    PathOf <- OwnPathOf
    MaxRestarts = 2
    MaxCrashes = 1
INVARIANTS
    TypeOK
    NotDisturbed
PROPERTIES
    EachTypeIsServed
CHECK_DEADLOCK FALSE
