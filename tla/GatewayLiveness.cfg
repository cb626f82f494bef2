\* One run of two actions, one reviewer and one sweep, no request lost.
CONSTANTS
    Actions = {a1, a2}
    NoAction = NoAction
    Runs = {r1}
    NoRun = NoRun
    Reviewers = {q1}
    Sweepers = {s1}
    MaxCloses = 1
    RequestsMayDie = FALSE
SPECIFICATION FairSpec
PROPERTIES
    DispatchSettles
    WaitingRunIsReleased
