\* Two runs of up to two rounds each on one issue; two calls fail or runs are killed.
\* A label goes stale after one tick, and a build may outlast that.
SPECIFICATION FairSpec
CONSTANTS
    r1 = r1
    r2 = r2
    i1 = i1
    Runs = {r1, r2}
    Issues = {i1}
    NoIssue = NoIssue
    MaxAge = 1
    MaxBuild = 2
    MaxRounds = 2
    MaxClock = 2
    MaxFaults = 2
CHECK_DEADLOCK FALSE
INVARIANTS
    OneBuilder
    LabelCoversBuild
PROPERTIES
    YoungLabelStays
    OrphanCleared
