-------------------------- MODULE MCEvidenceHistory --------------------------
(***************************************************************************)
(* Instances of EvidenceHistory for TLC.  Event types the rules treat      *)
(* alike are represented by one of them.                                   *)
(***************************************************************************)
EXTENDS EvidenceHistory, TLC

Representatives ==
    DecisionEvents \cup ExecutionEvents \cup ApprovalClosedEvents
      \cup {"APPROVAL_REQUESTED", "APPROVAL_GRANTED", "RUN_COMPLETED", "SYSTEM_ERROR",
            "WORKSPACE_PRUNED", "ACTION_REQUESTED"}

Interchangeable == Permutations(Actions)

=============================================================================
