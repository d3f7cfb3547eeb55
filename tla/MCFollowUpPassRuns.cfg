\* Two runs sweep and pass on the same pull request; one event or one fault.
SPECIFICATION Spec
CONSTANTS
    r1 = r1
    r2 = r2
    t1 = t1
    build = build
    codeql = codeql
    nobody = nobody
    Runs = {r1, r2}
    Threads = {t1}
    Checks = {build}
    Covered = {build}
    Cap = 2
    MaxEvents = 1
    MaxFaults = 1
    MaxMishaps = 1
    NoRun = nobody
CHECK_DEADLOCK FALSE
SYMMETRY Symmetric
INVARIANTS
    CapHonoured
    NeverAnswersTwice
