SPECIFICATION Spec
CONSTANTS
    H100 = H100
    H200 = H200
    Plugins <- MCPlugins
    Paths <- AliasPaths
    PathOf <- AliasPathOf
    MaxRestarts = 0
    MaxCrashes = 0
INVARIANTS
    NotDisturbed
CHECK_DEADLOCK FALSE
