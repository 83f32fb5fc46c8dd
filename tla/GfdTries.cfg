SPECIFICATION Spec
CONSTANTS
    Flags = {"unset", "true", "on"}
    TrueFlags = {"true"}
    MaxFaults = 0
    MaxCrashes = 0
PROPERTY
    TriesAreAsStated
CHECK_DEADLOCK FALSE
