\* One run; a check the gate reproduces and one it does not; one event, one fault.
SPECIFICATION LiveSpec
CONSTANTS
    r1 = r1
    r2 = r2
    t1 = t1
    build = build
    codeql = codeql
    nobody = nobody
    Runs = {r1}
    Threads = {t1}
    Checks = {build, codeql}
    Covered = {build}
    Cap = 1
    MaxEvents = 1
    MaxFaults = 1
    MaxMishaps = 2
    NoRun = nobody
CHECK_DEADLOCK FALSE
INVARIANTS
    PassInv
PROPERTIES
    StepsAreSafe
    EndsQuiet
