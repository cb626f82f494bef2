\* Two runs of one action each, or one of two; a sweep over one run or all.
CONSTANTS
    Actions = {a1, a2}
    NoAction = NoAction
    Runs = {r1, r2}
    NoRun = NoRun
    Reviewers = {q1}
    Sweepers = {s1}
    MaxCloses = 1
    RequestsMayDie = TRUE
SPECIFICATION Spec
SYMMETRY InterchangeableRuns
PROPERTIES
    ClosedStaysClosed
    ApprovalResolvesOnce
    ImplementsAuthorization
