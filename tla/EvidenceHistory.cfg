\* Two actions in one history of at most 5 records.
CONSTANTS
    Actions = {a1, a2}
    NoAction = NoAction
    EventTypes <- Representatives
    MaxRecords = 5
SPECIFICATION Spec
SYMMETRY Interchangeable
INVARIANTS
    VerifierMatchesRules
    AcceptedHistoryIsSafe
CHECK_DEADLOCK FALSE
