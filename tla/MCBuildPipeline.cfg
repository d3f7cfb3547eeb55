\* The shortest and the longest pipeline; main advances once, one call fails
\* and a left-behind process acts once.
SPECIFICATION Spec
CONSTANTS
    Optional <- MCOptional
    FixerAttempts = 1
    PublishAttempts = 2
    MaxMain = 1
    MaxFaults = 1
    MaxStrays = 1
INVARIANTS
    PipelineInv
    PushWasChecked
    FixerNeverRepairsMain
    NothingLeftBehind
