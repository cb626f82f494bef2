--------------------------- MODULE GatewayInvariant ---------------------------
(***************************************************************************)
(* The inductive invariants behind the safety properties of                *)
(* GatewayLifecycle.                                                       *)
(***************************************************************************)
EXTENDS GatewayLifecycle

Undecided == {"new", "audit", "decided"}

\* A submission stores its action once, and only a hold has an approval.
OneDecision ==
    \A a \in Actions :
        /\ submit[a].pc \in Undecided => decision[a] = "NONE"
        /\ submit[a].pc \in Executing => decision[a] = "ALLOW"
        /\ decision[a] = "HOLD" <=> approval[a] # "NONE"

\* Past its transaction, a reviewer holds an approval that is granted and
\* unspent, and no two reviewers hold the same one.
OneReviewerEach ==
    /\ \A q \in Reviewers : review[q].pc # "idle" => review[q].action \in Actions
    /\ \A q \in Reviewers : review[q].pc \in Executing => approval[review[q].action] = "APPROVED"
    /\ \A p, q \in Reviewers :
         /\ review[p].pc \in Executing
         /\ review[q].pc \in Executing
         /\ review[p].action = review[q].action
         => p = q

\* An action that had its effect is past the point where a request could
\* cause it, and nothing can bring it back there.
EffectIsPast ==
    \A a \in Actions : effects[a] # 0 =>
        /\ effects[a] = 1
        /\ submit[a].pc \in {"succeeded", "failed", "done"}
        /\ decision[a] = "ALLOW" \/ approval[a] \in {"APPROVED", "CONSUMED"}
        /\ \A q \in Reviewers :
             review[q].action = a => review[q].pc \notin {"dispatch", "running"}

\* Whichever requests race for an action and whichever of them die, one of
\* them at most is about to have its effect, and none once it happened: the
\* strengthening that makes AtMostOneEffect inductive.
SingleUse == OneDecision /\ OneReviewerEach /\ EffectIsPast

-----------------------------------------------------------------------------
\* A stored action belongs to the run its submission was made to.
OneOwner ==
    \A a \in Actions :
        /\ actionRun[a] = NoRun <=> decision[a] = "NONE"
        /\ submit[a].pc \notin {"new", "done"} => submit[a].run \in Runs
        /\ submit[a].pc \in Executing => actionRun[a] = submit[a].run

\* Whatever may execute has its start and its authority in its run's log.
StartIsLogged ==
    \A a \in Actions :
        /\ decision[a] = "ALLOW" =>
             /\ Logged(actionRun[a], a, {"EXECUTION_STARTED"})
             /\ Logged(actionRun[a], a, {"POLICY_ALLOWED", "APPROVAL_GRANTED"})
        /\ approval[a] \in {"APPROVED", "CONSUMED"} =>
             /\ Logged(actionRun[a], a, {"EXECUTION_STARTED"})
             /\ Logged(actionRun[a], a, {"POLICY_ALLOWED", "APPROVAL_GRANTED"})

\* An action that is not stored yet, or that a submission is executing, has
\* no terminal record in any log.
FinishIsLast ==
    \A r \in Runs, a \in Actions :
        Logged(r, a, TerminalExecutionEvents) =>
            decision[a] # "NONE" /\ submit[a].pc \notin Executing

\* What the log says of an execution is what closing a run relies on: while a
\* request executes an action, the log or the approval shows it in flight.
Closure == OneOwner /\ StartIsLogged /\ FinishIsLast /\ ClosedRunIsQuiet

-----------------------------------------------------------------------------
\* What the receipt column holds at each point of an action's life.
ReceiptsOf(a) ==
    CASE decision[a] = "DENY"  -> {"NOT_EXECUTED"}
      [] decision[a] = "ALLOW" -> {"NONE", "EXECUTED", "FAILED"}
      [] decision[a] = "HOLD" /\ approval[a] = "DENIED"   -> {"NOT_EXECUTED"}
      [] decision[a] = "HOLD" /\ approval[a] = "CONSUMED" -> {"EXECUTED", "FAILED"}
      [] OTHER                 -> {"NONE"}

ReceiptsInOrder ==
    \A a \in Actions :
        /\ receipt[a] \in ReceiptsOf(a)
        /\ submit[a].pc \in Executing => receipt[a] = "NONE"

\* Whoever reports success has seen the effect, before the receipt and after.
SuccessIsReal ==
    /\ \A a \in Actions :
         receipt[a] = "EXECUTED" \/ submit[a].pc = "succeeded" => effects[a] = 1
    /\ \A q \in Reviewers :
         review[q].pc = "succeeded" => effects[review[q].action] = 1

\* No log shows a start of what was not authorised, nor a finish that has no
\* receipt.
LogMatchesReceipt ==
    \A r \in Runs, a \in Actions :
        /\ Logged(r, a, {"EXECUTION_STARTED"}) =>
             decision[a] = "ALLOW" \/ approval[a] \in {"APPROVED", "CONSUMED"}
        /\ Logged(r, a, TerminalExecutionEvents) => receipt[a] \in {"EXECUTED", "FAILED"}

\* Receipts follow the approval and the workspace step by step, which
\* ReceiptAgrees says of the result.
Receipts == ReceiptsInOrder /\ SuccessIsReal /\ LogMatchesReceipt

-----------------------------------------------------------------------------
\* A stored action's run was created, and a reviewer about to answer saw its
\* run waiting: the stale read of resolve_approval is never wrong about that.
WaitingWasRead ==
    /\ \A a \in Actions : actionRun[a] \in Runs => runStatus[actionRun[a]] # "ABSENT"
    /\ \A q \in Reviewers : review[q].pc = "ready" => review[q].waiting

\* The strengthening that makes WaitingIsJustified inductive.
Waiting == WaitingWasRead /\ WaitingIsJustified

-----------------------------------------------------------------------------
\* What the verifier has to find in the log of an action, read off the rows
\* of its decision, its approval and its receipt.
DecisionRecorded(outcome) ==
    CASE outcome = "ALLOW" -> "POLICY_ALLOWED"
      [] outcome = "HOLD"  -> "POLICY_HELD"
      [] outcome = "DENY"  -> "POLICY_DENIED"
      [] OTHER             -> "NONE"

ApprovalRecorded(status) ==
    CASE status \in {"APPROVED", "CONSUMED"} -> "GRANTED"
      [] status \in {"DENIED", "EXPIRED"}    -> "CLOSED"
      [] OTHER                               -> "NONE"

LifecycleOf(a) ==
    [decision  |-> DecisionRecorded(decision[a]),
     requested |-> decision[a] = "HOLD",
     approval  |-> ApprovalRecorded(approval[a]),
     started   |-> decision[a] = "ALLOW" \/ approval[a] \in {"APPROVED", "CONSUMED"},
     terminal  |-> receipt[a] \in {"EXECUTED", "FAILED"}]

Lifecycles(r) ==
    [a \in Actions |-> IF actionRun[a] = r THEN LifecycleOf(a) ELSE NewLifecycle]

\* The verifier of a run's log accepts it and remembers exactly what the
\* tables hold, which makes EvidenceVerifies inductive: what a handler finds
\* in a table, the verifier has found in the log.
LogRecallsTables ==
    \A r \in Runs :
        Remembered(log[r]) = [ok      |-> TRUE,
                              closed  |-> runStatus[r] \in TerminalStatus,
                              actions |-> Lifecycles(r)]

=============================================================================
