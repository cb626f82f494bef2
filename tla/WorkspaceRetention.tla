------------------------- MODULE WorkspaceRetention -------------------------
(***************************************************************************)
(* The workspaces of runs, from their copy (workspaces.py) to their        *)
(* removal by an operator (retention.py), beside the handlers that create, *)
(* use, close and reset runs (service.py, app.py).                         *)
(*                                                                         *)
(* An operator's pass decides under the write lock and commits an attempt, *)
(* decides again under the lock, removes the tree with the lock held, and  *)
(* commits the result.  Anything may come between the two transactions.    *)
(*                                                                         *)
(* The handlers keep of GatewayLifecycle what the guard looks at.          *)
(***************************************************************************)
EXTENDS Integers, Sequences, FiniteSets

CONSTANTS
    WorkspaceRuns, \* runs
    Operators,     \* passes of reap_workspaces with --apply
    Nobody,        \* no operator
    Window,        \* retention_days
    LastDay,       \* bound on the clock
    LogBound       \* bound on a run's records about pruning

ASSUME RetentionAssumption ==
    /\ Nobody \notin Operators
    /\ Window \in Nat \ {0} /\ LastDay \in Nat /\ LogBound \in Nat

VARIABLES
    today,      \* the clock, in days
    runs,       \* per run: its row, and what is under way for it
    workspace,  \* per run: its directory under the managed root
    pruneLog,   \* per run: its evidence about pruning
    passes,     \* per operator: how far its pass is
    lock        \* the operator that holds the write lock over a removal

retentionVars == <<today, runs, workspace, pruneLog, passes, lock>>

\* "creating": create_run is copying; "erased": reset deleted the rows.
Rows == {"none", "creating", "open", "closed", "erased"}

\* "staged": the copy under its temporary name; "partial": some of the tree
\* could not be removed.
Directories == {"none", "staged", "ready", "partial", "gone"}

Outcomes == {"attempted", "pruned", "failed"}

Idle == [at |-> "idle", run |-> Nobody, cutoff |-> 0, done |-> FALSE]

RetentionTypeOK ==
    /\ today \in 0 .. LastDay
    /\ runs \in [WorkspaceRuns ->
         [row : Rows, updated : 0 .. LastDay, pending : BOOLEAN,
          approved : BOOLEAN, executing : BOOLEAN]]
    /\ workspace \in [WorkspaceRuns -> Directories]
    /\ pruneLog \in [WorkspaceRuns -> Seq([kind : Outcomes, by : Operators])]
    /\ passes \in [Operators ->
         [at : {"idle", "listed", "attempted", "removed"},
          run : WorkspaceRuns \cup {Nobody}, cutoff : Int, done : BOOLEAN]]
    /\ lock \in Operators \cup {Nobody}

RetentionInit ==
    /\ today = 0
    /\ runs = [r \in WorkspaceRuns |->
         [row |-> "none", updated |-> 0, pending |-> FALSE, approved |-> FALSE,
          executing |-> FALSE]]
    /\ workspace = [r \in WorkspaceRuns |-> "none"]
    /\ pruneLog = [r \in WorkspaceRuns |-> <<>>]
    /\ passes = [o \in Operators |-> Idle]
    /\ lock = Nobody

Tick ==
    /\ today < LastDay
    /\ today' = today + 1
    /\ UNCHANGED <<runs, workspace, pruneLog, passes, lock>>

-----------------------------------------------------------------------------
(* The gateway.  A transaction needs the write lock. *)

Unlocked == lock = Nobody

Stored(r) == runs[r].row \in {"open", "closed"}

GatewayWrites(r, f) ==
    /\ runs' = [runs EXCEPT ![r] = f]
    /\ UNCHANGED <<today, workspace, pruneLog, passes, lock>>

\* initialize copies the fixture under a temporary name.
StageWorkspace(r) ==
    /\ runs[r].row = "none"
    /\ runs' = [runs EXCEPT ![r].row = "creating"]
    /\ workspace' = [workspace EXCEPT ![r] = "staged"]
    /\ UNCHANGED <<today, pruneLog, passes, lock>>

\* The copy is complete and marked: it is renamed into place.
PlaceWorkspace(r) ==
    /\ runs[r].row = "creating" /\ workspace[r] = "staged"
    /\ workspace' = [workspace EXCEPT ![r] = "ready"]
    /\ UNCHANGED <<today, runs, pruneLog, passes, lock>>

\* The row is inserted when the workspace is in place.
InsertRun(r) ==
    /\ Unlocked
    /\ runs[r].row = "creating" /\ workspace[r] = "ready"
    /\ GatewayWrites(r, [runs[r] EXCEPT !.row = "open", !.updated = today])

\* A creation fails or is killed: an error removes the staged copy, death
\* leaves it; a workspace in place stays, and no row will ever name it.
LoseCreation(r) ==
    /\ runs[r].row = "creating"
    /\ runs' = [runs EXCEPT ![r].row = "erased"]
    /\ \/ UNCHANGED workspace
       \/ /\ workspace[r] = "staged"
          /\ workspace' = [workspace EXCEPT ![r] = "none"]
    /\ UNCHANGED <<today, pruneLog, passes, lock>>

\* submit_action holds an action; the hold is denied or expires.
HoldAction(r) ==
    /\ Unlocked /\ runs[r].row = "open" /\ ~runs[r].pending
    /\ GatewayWrites(r, [runs[r] EXCEPT !.pending = TRUE, !.updated = today])

ReleaseHold(r) ==
    /\ Unlocked /\ Stored(r) /\ runs[r].pending
    /\ GatewayWrites(r, [runs[r] EXCEPT !.pending = FALSE])

\* A reviewer grants it, and the run is open under the lock.
GrantHold(r) ==
    /\ Unlocked /\ runs[r].row = "open" /\ runs[r].pending /\ ~runs[r].executing
    /\ GatewayWrites(r, [runs[r] EXCEPT !.pending = FALSE, !.approved = TRUE,
                                        !.executing = TRUE])

\* An allowed action starts, and the run is open under the lock.
StartAllowed(r) ==
    /\ Unlocked /\ runs[r].row = "open" /\ ~runs[r].executing
    /\ GatewayWrites(r, [runs[r] EXCEPT !.executing = TRUE])

\* The executor returned: the receipt and the terminal event are recorded.
RecordResult(r) ==
    /\ Unlocked /\ runs[r].executing
    /\ GatewayWrites(r, [runs[r] EXCEPT !.executing = FALSE, !.approved = FALSE])

\* complete_run and fail_run refuse while something executes, and leave a
\* pending hold; a closed run may be closed again.
CloseStored(r) ==
    /\ Unlocked /\ Stored(r) /\ ~runs[r].approved /\ ~runs[r].executing
    /\ GatewayWrites(r, [runs[r] EXCEPT !.row = "closed", !.updated = today])

\* clear_demo deletes every row and every record, unless one run has an
\* execution or a pending hold.  Workspaces stay.
ResetDemo ==
    /\ Unlocked
    /\ \E r \in WorkspaceRuns : Stored(r)
    /\ \A r \in WorkspaceRuns :
         Stored(r) => ~runs[r].pending /\ ~runs[r].approved /\ ~runs[r].executing
    /\ runs' = [r \in WorkspaceRuns |->
         IF Stored(r) THEN [runs[r] EXCEPT !.row = "erased"] ELSE runs[r]]
    /\ pruneLog' = [r \in WorkspaceRuns |-> IF Stored(r) THEN <<>> ELSE pruneLog[r]]
    /\ UNCHANGED <<today, workspace, passes, lock>>

-----------------------------------------------------------------------------
(* An operator's pass. *)

\* A guard that asks for age alone.
LongUntouched(r, cutoff) == runs[r].updated <= cutoff

\* _guard: a closed run with nothing open, untouched since the cutoff.
Guard(r, cutoff) ==
    /\ runs[r].row = "closed"
    /\ ~runs[r].pending /\ ~runs[r].approved /\ ~runs[r].executing
    /\ runs[r].updated <= cutoff

\* retention_target: the workspace is in place and marked as the run's.  Of a
\* tree that was removed in part the marker may be left or not.
Inspected(r, found) ==
    \/ found = TRUE /\ workspace[r] \in {"ready", "partial"}
    \/ found = FALSE /\ workspace[r] # "ready"

\* delete: nothing, a part, or, when the directory was replaced or the removal
\* fails at once, everything.
RemovalLeaves == {"gone", "partial", "ready"}

LogFor(r, kind, o) == [pruneLog EXCEPT ![r] = Append(@, [kind |-> kind, by |-> o])]

\* The pass lists the runs and computes its cutoff, once.
BeginPass(o) ==
    /\ passes[o] = Idle
    /\ \E r \in WorkspaceRuns :
         /\ Stored(r)
         /\ passes' = [passes EXCEPT ![o] =
              [at |-> "listed", run |-> r, cutoff |-> today - Window, done |-> FALSE]]
    /\ UNCHANGED <<today, runs, workspace, pruneLog, lock>>

\* The first transaction: the attempt is committed before any effect.
Attempt(o) ==
    LET r == passes[o].run
    IN /\ passes[o].at = "listed" /\ Unlocked
       /\ Len(pruneLog[r]) < LogBound
       /\ Guard(r, passes[o].cutoff) /\ Inspected(r, TRUE)
       /\ pruneLog' = LogFor(r, "attempted", o)
       /\ passes' = [passes EXCEPT ![o].at = "attempted"]
       /\ UNCHANGED <<today, runs, workspace, lock>>

\* The first transaction skips the run; the pass is over for it.
Skip(o) ==
    LET r == passes[o].run
    IN /\ passes[o].at = "listed" /\ Unlocked
       /\ ~Guard(r, passes[o].cutoff) \/ Inspected(r, FALSE)
       /\ passes' = [passes EXCEPT ![o] = Idle]
       /\ UNCHANGED <<today, runs, workspace, pruneLog, lock>>

\* A second transaction that relies on the first one's decision.
RemoveOnOldDecision(o) ==
    LET r == passes[o].run
    IN /\ passes[o].at = "attempted" /\ Unlocked
       /\ lock' = o
       /\ \E found \in BOOLEAN, left \in RemovalLeaves :
            /\ Inspected(r, found)
            /\ workspace' = [workspace EXCEPT ![r] = IF found THEN left ELSE @]
            /\ passes' = [passes EXCEPT ![o].at = "removed",
                                        ![o].done = found /\ left = "gone"]
       /\ UNCHANGED <<today, runs, pruneLog>>

\* The second transaction up to the removal: everything is decided again
\* under the lock, which stays held.  The removal may fail before it starts
\* or half-way.
RemoveTree(o) ==
    LET r == passes[o].run
        eligible == Guard(r, passes[o].cutoff)
    IN /\ passes[o].at = "attempted" /\ Unlocked
       /\ lock' = o
       /\ \E found \in BOOLEAN, left \in RemovalLeaves :
            /\ Inspected(r, found)
            /\ left = "ready" => workspace[r] = "ready"
            /\ workspace' = [workspace EXCEPT ![r] = IF eligible /\ found THEN left ELSE @]
            /\ passes' = [passes EXCEPT ![o].at = "removed",
                                        ![o].done = eligible /\ found /\ left = "gone"]
       /\ UNCHANGED <<today, runs, pruneLog>>

\* A result that takes the attempt for the removal.
ReportAlways(o) ==
    LET r == passes[o].run
    IN /\ passes[o].at = "removed" /\ Stored(r)
       /\ pruneLog' = LogFor(r, "pruned", o)
       /\ passes' = [passes EXCEPT ![o] = Idle]
       /\ lock' = Nobody
       /\ UNCHANGED <<today, runs, workspace>>

\* The result is appended and the second transaction commits.
Report(o) ==
    LET r == passes[o].run
    IN /\ passes[o].at = "removed" /\ Stored(r)
       /\ pruneLog' = LogFor(r, IF passes[o].done THEN "pruned" ELSE "failed", o)
       /\ passes' = [passes EXCEPT ![o] = Idle]
       /\ lock' = Nobody
       /\ UNCHANGED <<today, runs, workspace>>

\* The pass is killed, or the append fails because a reset deleted the run:
\* the open transaction is rolled back and the removal stands.
LosePass(o) ==
    /\ passes[o] # Idle
    /\ passes' = [passes EXCEPT ![o] = Idle]
    /\ lock' = IF lock = o THEN Nobody ELSE lock
    /\ UNCHANGED <<today, runs, workspace, pruneLog>>

GatewayStep(r) ==
    \/ StageWorkspace(r) \/ PlaceWorkspace(r) \/ InsertRun(r) \/ LoseCreation(r)
    \/ HoldAction(r) \/ ReleaseHold(r) \/ GrantHold(r) \/ StartAllowed(r)
    \/ RecordResult(r) \/ CloseStored(r)

OperatorStep(o) ==
    \/ BeginPass(o) \/ Attempt(o) \/ Skip(o) \/ RemoveTree(o) \/ Report(o) \/ LosePass(o)

RetentionNext ==
    \/ Tick \/ ResetDemo
    \/ \E r \in WorkspaceRuns : GatewayStep(r)
    \/ \E o \in Operators : OperatorStep(o)

RetentionSpec == RetentionInit /\ [][RetentionNext]_retentionVars

-----------------------------------------------------------------------------
(* Properties. *)

\* An execution has its run's whole workspace under it, and so has every run
\* that can still start one: no pass removes what it decided to remove once
\* and may be used by now.
WorkspaceOutlivesUse ==
    \A r \in WorkspaceRuns :
      runs[r].row = "open" \/ runs[r].executing \/ runs[r].approved
        => workspace[r] = "ready"

\* A workspace is removed, or begun to be, only from a run that is closed, has
\* no hold or execution left and was left alone for the whole window: also
\* when it was closed again between an operator's decision and the removal.
OnlySettledIsRemoved ==
    [][\A r \in WorkspaceRuns :
         workspace[r] = "ready" /\ workspace'[r] \in {"partial", "gone"}
           => /\ runs[r].row = "closed"
              /\ ~runs[r].pending /\ ~runs[r].approved /\ ~runs[r].executing
              /\ today - runs[r].updated >= Window]_retentionVars

Recorded(r, kind) == {i \in DOMAIN pruneLog[r] : pruneLog[r][i].kind = kind}

\* The evidence of a stored run tells what befell its workspace, with two
\* operators and with deaths: nothing is missing from the tree without an
\* attempt on record, a recorded removal was complete, happened once, and
\* came after an attempt of the same operator.
PruningIsOnRecord ==
    \A r \in WorkspaceRuns :
      Stored(r) =>
        /\ workspace[r] \in {"partial", "gone"} => Recorded(r, "attempted") # {}
        /\ Recorded(r, "pruned") # {} => workspace[r] = "gone"
        /\ \A i, j \in Recorded(r, "pruned") : i = j
        /\ \A i \in Recorded(r, "pruned") : \E j \in Recorded(r, "attempted") :
             j < i /\ pruneLog[r][j].by = pruneLog[r][i].by

=============================================================================
