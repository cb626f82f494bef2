\* Two actions in one run that is closed up to twice, so that holds outlive it;
\* two reviewers racing each other and one sweep.
CONSTANTS
    Actions = {a1, a2}
    NoAction = NoAction
    Runs = {r1}
    NoRun = NoRun
    Reviewers = {q1, q2}
    Sweepers = {s1}
    MaxCloses = 2
    RequestsMayDie = TRUE
SPECIFICATION Spec
SYMMETRY Interchangeable
INVARIANTS
    TypeOK
    EvidenceVerifies
    EffectHasAuthority
    AtMostOneEffect
    ClosedRunIsQuiet
    WaitingIsJustified
    ReceiptAgrees
