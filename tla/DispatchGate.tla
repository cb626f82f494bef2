---------------------------- MODULE DispatchGate ----------------------------
(***************************************************************************)
(* The authorisation every executor backend asks for before it dispatches  *)
(* (dispatch_gate.py): a function of the action, the stored decision and   *)
(* the approval at hand.                                                   *)
(***************************************************************************)

\* The answers of authorize_dispatch: PROCEED, or the code of the refusal.
\* A decision is "none" when there is none to read; an approval is a record
\* of its status and of the action it was given for.
Verdict(action, decision, approval) ==
    CASE decision = "none" -> "NO_DECISION"
      [] decision = "DENY" -> "POLICY_DENY"
      [] decision \notin {"none", "DENY", "ALLOW", "HOLD"} -> "OUTCOME_REFUSED"
      [] /\ decision = "HOLD"
         /\ ~(approval.status = "APPROVED" /\ approval.action = action.id)
         -> "APPROVAL_REQUIRED"
      [] OTHER -> IF action.operation = "network_request"
                  THEN "NETWORK_FORBIDDEN" ELSE "OK"

Proceeds(action, decision, approval) ==
    Verdict(action, decision, approval) = "OK"

\* What the runner adds to the gate: an allowed action carries no approval.
RunnerProceeds(action, decision, approval) ==
    /\ Proceeds(action, decision, approval)
    /\ decision = "ALLOW" => approval.status = "none"

=============================================================================
