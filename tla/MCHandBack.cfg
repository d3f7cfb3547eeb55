\* Four builds of one issue with a cap of two; two calls fail or runs end.
SPECIFICATION Spec
CONSTANTS
    Cap = 2
    MaxClock = 3
    MaxBuilds = 4
    MaxFaults = 2
CHECK_DEADLOCK FALSE
INVARIANTS
    CountInv
PROPERTIES
    GivesUpAtCap
    NeverSilent
    RequeueRunsIntake
