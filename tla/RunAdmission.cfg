\* Three creations from two addresses for one place over two days, the second of
\* which begins at the last tick, with restarts.  One creation can be overtaken
\* by another while it waits for the guards' lock, after the first reserved.
CONSTANTS
    Creations = {c1, c2, c3}
    Addresses = {ip1, ip2}
    NoAddress = NoAddress
    NoCreation = NoCreation
    MaxConcurrentRuns = 1
    RunsPerMinute = 1
    RunsPerDay = 1
    ActionsPerDay = 1
    TurnsPerRun = 1
    Minute = 2
    Day = 3
    MaxTime = 3
    MayRestart = TRUE
SPECIFICATION Spec
SYMMETRY Interchangeable
INVARIANTS
    CapHolds
    GuardsHold
PROPERTIES
    ImplementsPool
CHECK_DEADLOCK FALSE
