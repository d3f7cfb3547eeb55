\* Two runs: failing calls, a kill, and people.
SPECIFICATION LiveSpec
CONSTANTS
    run = run
    other = other
    Runs <- TwoRuns
    Drafts = 2
    MaxFaults = 1
    MaxKills = 1
    MaxPeople = 1
CHECK_DEADLOCK FALSE
INVARIANTS
    SplitIsKept
    ChildrenInTurn
    ClosedMeansDone
PROPERTIES
    EndsAccounted
