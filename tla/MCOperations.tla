---------------------------- MODULE MCOperations ----------------------------
(***************************************************************************)
(* Four machines that share no variable, checked by one run of TLC: the    *)
(* event stream, the retention of workspaces, the remote dispatch and the  *)
(* staged execution.  A behaviour is one of the machine that part names;   *)
(* the others rest in their initial state.                                 *)
(***************************************************************************)
EXTENDS EventStream, WorkspaceRetention, RemoteDispatch, MCStaged, TLC

VARIABLE part

operationsVars == <<part, streamVars, retentionVars, dispatchVars, stagedVars>>

OperationsInit ==
    /\ part \in {"stream", "retention", "dispatch", "staged"}
    /\ StreamInit
    /\ RetentionInit
    /\ DispatchInit
    /\ StagedInit
    /\ part # "staged" =>
         /\ \A p \in Paths : host[p].kind # "link"
         /\ \A j \in StagedJobs : job[j].operation = "run_command"

StreamPart ==
    /\ part = "stream" /\ StreamNext
    /\ UNCHANGED <<part, retentionVars, dispatchVars, stagedVars>>

RetentionPart ==
    /\ part = "retention" /\ RetentionNext
    /\ UNCHANGED <<part, streamVars, dispatchVars, stagedVars>>

DispatchPart ==
    /\ part = "dispatch" /\ DispatchNext
    /\ UNCHANGED <<part, streamVars, retentionVars, stagedVars>>

StagedPart ==
    /\ part = "staged" /\ StagedNext
    /\ UNCHANGED <<part, streamVars, retentionVars, dispatchVars>>

OperationsNext == StreamPart \/ RetentionPart \/ DispatchPart \/ StagedPart

OperationsSpec == OperationsInit /\ [][OperationsNext]_operationsVars

\* Dispatches are interchangeable.
Interchangeable == Permutations(Dispatches)

=============================================================================
