\* The same pipelines with two calls failing, against what a build promises.
SPECIFICATION FairSpec
CONSTANTS
    Optional <- MCOptional
    FixerAttempts = 1
    PublishAttempts = 2
    MaxMain = 1
    MaxFaults = 2
    MaxStrays = 0
INVARIANTS
    NeverGatedMidMerge
PROPERTIES
    AttemptSpec
