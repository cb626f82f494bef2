\* Two handlers of one run's events and queues of two; one workspace over four
\* days and two passes; two dispatches, two copies of each, one restart; two
\* jobs one after the other over a blocked file.
CONSTANTS
    Handlers = {h1, h2}
    MaxEvents = 4
    QueueSize = 2
    MaxConnections = 3
    WorkspaceRuns = {r1}
    Operators = {o1, o2}
    Nobody = Nobody
    Window = 1
    LastDay = 3
    LogBound = 3
    Dispatches = {d1, d2}
    NoDispatch = NoDispatch
    DispatchTTL = 2
    PostTimeout = 2
    RunLimit = 1
    LastTick = 4
    MaxCopies = 2
    MaxRestarts = 1
    StagedJobs = {j1, j2}
    Fixture = Fixture
    Paths <- SomePaths
    BlockedPaths <- SomeBlocked
    OneAtATime = TRUE
    MaxWrites = 2
SPECIFICATION OperationsSpec
SYMMETRY Interchangeable
INVARIANTS
    MissingIsExplained
    WorkspaceOutlivesUse
    PruningIsOnRecord
    LateEffectIsBounded
    OneRunPerDispatch
    ReceiptTellsEffect
    BlockedUntouched
PROPERTIES
    OnlySettledIsRemoved
    CopyBackIsExact
CHECK_DEADLOCK FALSE
