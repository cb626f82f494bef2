\* Three audits over two days with a restart; three submissions of two actions.
CONSTANTS
    Processes = {gateway}
    Gateway = gateway
    Audits = {a1, a2, a3}
    Budget = 4
    Estimate = 2
    Spends <- SomeSpends
    MaxDay = 1
    MaxAgentCalls = 1
    SaveOutcomes <- Works
    MayRestart = TRUE
    Submissions = {s1, s2, s3}
    Contents <- SomeContents
    Turns = {"turn"}
    Texts <- SomeTexts
    None = None
    Requiring = {"write"}
    Requests <- SomeRequests
    AuditEnabled = TRUE
SPECIFICATION AuditingSpec
SYMMETRY Interchangeable
INVARIANTS
    LedgerAccounts
    OnlyEscalates
    RetryKeepsVerdict
    AuditExaminedAction
CHECK_DEADLOCK FALSE
