SPECIFICATION Spec
CONSTANTS
    Flags = {"unset", "true", "on"}
    TrueFlags = {"true"}
    MaxFaults = 2
    MaxCrashes = 1
INVARIANTS
    TypeOK
    ReapsItsOwn
    ClassFollowsLabels
PROPERTIES
    DoneIsReaped
    OwnPodIsNotKilled
    CallsRunOut
    JobEnds
CHECK_DEADLOCK FALSE
