\* Two sweepers, one of two checks rerun; up to two things that people do, that
\* fail or that overlap, or one and four ticks. With nobody sweeping it is s1 that
\* starts, the two being alike.
SPECIFICATION SweepLiveSpec
CONSTANTS
    s1 = s1
    s2 = s2
    build = build
    codeql = codeql
    Sweepers = {s1, s2}
    Checks = {build, codeql}
    Rerunnable <- JustOne
    RerequestAfter = 0
    MaxClock = 4
    MaxActs = 2
    MaxCallFaults = 1
    Leaders = {s1}
    MaxOverlaps = 1
    MaxEffort = 8
CHECK_DEADLOCK FALSE
INVARIANTS
    SweepInv
    AskedOncePerHead
PROPERTIES
    UpdatesReviewedHead
    SweepsAct
