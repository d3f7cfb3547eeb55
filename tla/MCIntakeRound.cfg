\* The repository's sizes and limits: a batch and a part of one; any four issues
\* break the answer, and two runs go wrong by chance.
SPECIFICATION RoundLiveSpec
CONSTANTS
    Unjudged = 13
    BatchSize = 10
    FailedLimit = 8
    RefusedLimit = 2
    Breaking <- AnyFour
    MaxBadRuns = 2
CHECK_DEADLOCK FALSE
INVARIANTS
    JudgedOnce
    StopsForCause
PROPERTIES
    Ends
