\* Up to three retries with delays of 1, 2 and 3; two turns of up to two calls;
\* two audits whose threads may hang; two creations for one place over two days.
CONSTANTS
    MaxRetries = 3
    Deadlines <- SomeDeadlines
    NoDeadline = NoDeadline
    MaxPost = 2
    InitialBackoff = 1
    MaxBackoff = 3
    MaxTurns = 2
    MaxCalls = 2
    PerTurn = 2
    WallClock = 3
    ReviewWait = 1
    Processes = {gateway}
    Gateway = gateway
    Audits = {a1, a2}
    Budget = 4
    Estimate = 2
    Spends <- SomeSpends
    MaxDay = 1
    MaxAgentCalls = 0
    SaveOutcomes <- BestEffort
    MayRestart = FALSE
    Creations = {c1, c2}
    Addresses = {ip1}
    NoAddress = NoAddress
    NoCreation = NoCreation
SPECIFICATION ProgressSpec
INVARIANT
    ReportIsTrue
PROPERTIES
    EveryCallEnds
    EveryLoopEnds
    EveryCreationEnds
    ReservationsReturn
CHECK_DEADLOCK FALSE
