\* Two sessions at once, the person, a command killed, and a branch that is
\* committed to, merged or amended once.
SPECIFICATION LiveSpec
CONSTANTS
    s1 = s1
    s2 = s2
    Sessions <- TwoSessions
    MaxCommits = 2
    MaxFindings = 2
    MaxCrashes = 1
CHECK_DEADLOCK FALSE
INVARIANTS
    ReviewsAreWhole
    FindingsKept
PROPERTIES
    LockComesFree
