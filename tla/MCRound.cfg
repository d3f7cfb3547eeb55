\* Three issues, two paths, three rounds of one run; people, merges and failed
\* calls interfere twice.
SPECIFICATION Spec
CONSTANTS
    Issues = {i1, i2, i3}
    Files = {f1, f2}
    OtherPR = OtherPR
    MaxRounds = 3
    MaxRuns = 1
    MaxEvents = 2
SYMMETRY Symmetric
CHECK_DEADLOCK FALSE
INVARIANTS
    RoundInv
    OneOpenPR
PROPERTIES
    RoundsMoveOn
    StepsHaveCause
