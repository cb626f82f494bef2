\* One action, one reviewer, one sweep: the claim NoGrantAfterDeadline.
CONSTANTS
    Actions = {a1}
    NoAction = NoAction
    Runs = {r1}
    NoRun = NoRun
    Reviewers = {q1}
    Sweepers = {s1}
    MaxCloses = 1
    RequestsMayDie = FALSE
SPECIFICATION Spec
PROPERTY NoGrantAfterDeadline
