--------------------------- MODULE GatewayLifecycle ---------------------------
(***************************************************************************)
(* The life of a run in the Scopewatch gateway: runs, the actions agents   *)
(* submit to them, the approvals reviewers resolve, the executor and the   *)
(* evidence log (service.py over repository.py, db.py and executor.py).    *)
(*                                                                         *)
(* Every handler is a request that runs concurrently with all the others.  *)
(* A step is one database transaction (BEGIN IMMEDIATE serialises writers),*)
(* or one read outside a transaction, or one stretch of work between two   *)
(* of those; what a request read earlier and still uses is in its record   *)
(* (submit, review, sweep).                                                *)
(*                                                                         *)
(* An action, its decision, its approval and its receipts are keyed by the *)
(* action: each submission creates one action under a fresh id, and a held *)
(* action gets one approval.                                               *)
(***************************************************************************)
EXTENDS EvidenceChain, FiniteSets

CONSTANTS
    Runs,           \* run ids
    NoRun,          \* the run of an action that is not stored yet
    Reviewers,      \* concurrent resolve_approval requests
    Sweepers,       \* concurrent reconcile_expired_approvals requests
    MaxCloses,      \* bound: close records of one run
    RequestsMayDie  \* requests can fail or be killed between two steps

ASSUME LifecycleAssumption ==
    /\ NoRun \notin Runs
    /\ NoAction \notin Actions
    /\ IsFiniteSet(Actions)
    /\ MaxCloses \in Nat
    /\ RequestsMayDie \in BOOLEAN

VARIABLES
    \* the database
    runStatus,  \* [Runs -> status], "ABSENT" before the run is created
    log,        \* evidence_events, per run in sequence order
    actionRun,  \* action_requests.run_id, NoRun before the row exists
    decision,   \* policy_decisions.outcome
    approval,   \* approval_requests.status
    receipt,    \* execution_receipts.status of the latest receipt
    \* the world
    overdue,    \* approvals whose expires_at has passed
    effects,    \* how often an action's effect reached the workspace
    \* requests in progress
    submit,     \* [Actions -> the submit_action request that creates it]
    review,     \* [Reviewers -> a resolve_approval request]
    sweep       \* [Sweepers -> a reconcile_expired_approvals request]

dbVars == <<runStatus, log, actionRun, decision, approval, receipt>>
vars == <<dbVars, overdue, effects, submit, review, sweep>>

-----------------------------------------------------------------------------
LiveStatus     == {"ACTIVE", "WAITING_FOR_APPROVAL"}
TerminalStatus == {"COMPLETED", "FAILED"}
RunStatus      == {"ABSENT"} \cup LiveStatus \cup TerminalStatus
PolicyOutcome  == {"ALLOW", "HOLD", "DENY"}
ApprovalStatus == {"NONE", "PENDING", "APPROVED", "DENIED", "EXPIRED", "CONSUMED"}
Verdict        == {"NO_CONCERN", "CONCERN", "FAILED"}

\* Stages of the two-phase dispatch that both kinds of request go through.
\* "running" may already have had its effect; the other two are over.
Executing == {"dispatch", "running", "succeeded", "failed"}

IdleReview ==
    [pc |-> "idle", action |-> NoAction, approve |-> FALSE,
     late |-> FALSE, waiting |-> FALSE]

NewSubmit  == [pc |-> "new", run |-> NoRun, outcome |-> "NONE", verdict |-> "NONE"]
DoneSubmit == [NewSubmit EXCEPT !.pc = "done"]

IdleSweep == [active |-> FALSE, late |-> {}]

Init ==
    /\ runStatus = [r \in Runs |-> "ABSENT"]
    /\ log       = [r \in Runs |-> <<>>]
    /\ actionRun = [a \in Actions |-> NoRun]
    /\ decision  = [a \in Actions |-> "NONE"]
    /\ approval  = [a \in Actions |-> "NONE"]
    /\ receipt   = [a \in Actions |-> "NONE"]
    /\ overdue   = {}
    /\ effects   = [a \in Actions |-> 0]
    /\ submit    = [a \in Actions |-> NewSubmit]
    /\ review    = [q \in Reviewers |-> IdleReview]
    /\ sweep     = [s \in Sweepers |-> IdleSweep]

-----------------------------------------------------------------------------
(* Queries and writes shared by the handlers. *)

\* append_event for each record in turn: MAX(sequence) + 1 within the run.
Record(r, records) == log' = [log EXCEPT ![r] = @ \o records]

Logged(r, a, types) == Mentions(log[r], a, types)

\* in_flight_action_ids: started, and no terminal execution event.
InFlight(r, a) ==
    /\ Logged(r, a, {"EXECUTION_STARTED"})
    /\ ~Logged(r, a, TerminalExecutionEvents)

\* Mutant: only approved actions count, a directly allowed one is forgotten.
HasInFlightApproved(r) == \E a \in Actions : actionRun[a] = r /\ approval[a] = "APPROVED"

HasInFlight(r) ==
    \E a \in Actions :
        \/ actionRun[a] = r /\ approval[a] = "APPROVED"
        \/ InFlight(r, a)

\* list_approvals(status PENDING, run) against the approvals ap.
PendingIn(ap, r) == {a \in Actions : actionRun[a] = r /\ ap[a] = "PENDING"}

\* Mutant: one approval resolved is enough, whatever else is pending.
ReleasedByAny(r, ap, statuses) ==
    IF runStatus[r] \in statuses THEN [runStatus EXCEPT ![r] = "ACTIVE"] ELSE runStatus

\* Mutant: the run is released without looking at its status.
ReleasedBlindly(r, ap, statuses) ==
    IF PendingIn(ap, r) = {} THEN [runStatus EXCEPT ![r] = "ACTIVE"] ELSE runStatus

\* Mutant: pending approvals are counted before the resolution is written.
ReleasedTooEarly(r, ap, statuses) ==
    IF PendingIn(approval, r) = {} /\ runStatus[r] \in statuses
    THEN [runStatus EXCEPT ![r] = "ACTIVE"]
    ELSE runStatus

\* The run's status once approvals are ap: a run of the given statuses goes
\* back to ACTIVE when nothing is left for a reviewer to decide.
Released(r, ap, statuses) ==
    IF PendingIn(ap, r) = {} /\ runStatus[r] \in statuses
    THEN [runStatus EXCEPT ![r] = "ACTIVE"]
    ELSE runStatus

-----------------------------------------------------------------------------
(* Runs. *)

CreateRun(r) ==
    /\ runStatus[r] = "ABSENT"
    /\ runStatus' = [runStatus EXCEPT ![r] = "ACTIVE"]
    /\ Record(r, <<Event("RUN_CREATED", NoAction)>>)
    /\ UNCHANGED <<actionRun, decision, approval, receipt, overdue, effects,
                   submit, review, sweep>>

Closes(r) == {i \in DOMAIN log[r] : log[r][i].type \in RunTerminalEvents}

\* _close_run: refused while an action executes, but not for a run that is
\* already closed, and the run's PENDING approvals are left as they are.
CloseRun(r, status, type) ==
    /\ runStatus[r] # "ABSENT"
    /\ Cardinality(Closes(r)) < MaxCloses
    /\ ~HasInFlight(r)
    /\ runStatus' = [runStatus EXCEPT ![r] = status]
    /\ Record(r, <<Event(type, NoAction)>>)
    /\ UNCHANGED <<actionRun, decision, approval, receipt, overdue, effects,
                   submit, review, sweep>>

CompleteRun(r) == CloseRun(r, "COMPLETED", "RUN_COMPLETED")
FailRun(r)     == CloseRun(r, "FAILED", "SYSTEM_ERROR")

-----------------------------------------------------------------------------
(* submit_action. *)

\* The run is read and the deterministic policy decides.  A DENY is never
\* audited; whether anything else is depends on the audit flag and on the
\* agent having supplied reasoning.
BeginSubmit(a, r) ==
    /\ submit[a].pc = "new"
    /\ runStatus[r] \in LiveStatus
    /\ \E outcome \in PolicyOutcome, audited \in BOOLEAN :
         /\ audited => outcome # "DENY"
         /\ submit' = [submit EXCEPT ![a] =
                [pc      |-> IF audited THEN "audit" ELSE "decided",
                 run     |-> r,
                 outcome |-> outcome,
                 verdict |-> "NONE"]]
    /\ UNCHANGED <<dbVars, overdue, effects, review, sweep>>

\* The merge rules: reasoning turns an ALLOW into a HOLD, and nothing else.
Escalate(outcome, verdict) ==
    IF outcome = "ALLOW" /\ verdict # "NO_CONCERN" THEN "HOLD" ELSE outcome

\* The awaited audit answers, times out (FAILED) or comes from the cache.
AuditReturns(a) ==
    /\ submit[a].pc = "audit"
    /\ \E verdict \in Verdict :
         submit' = [submit EXCEPT ![a].pc      = "decided",
                                  ![a].verdict = verdict,
                                  ![a].outcome = Escalate(@, verdict)]
    /\ UNCHANGED <<dbVars, overdue, effects, review, sweep>>

AuditRecord(a) ==
    CASE submit[a].verdict = "NONE"   -> <<>>
      [] submit[a].verdict = "FAILED" -> <<Event("REASONING_AUDIT_FAILED", a)>>
      [] OTHER                        -> <<Event("REASONING_AUDIT_COMPLETED", a)>>

\* Mutant: the run read before the audit is trusted.
StillLiveAsRead(a) == submit[a].run # NoRun

\* The run is read again inside the transaction that commits the decision.
StillLive(a) == runStatus[submit[a].run] \in LiveStatus

\* Phase 1: the action, its audit and its decision are stored together.
CommitDecision(a, outcome, records) ==
    /\ submit[a].pc = "decided"
    /\ submit[a].outcome = outcome
    /\ StillLive(a)
    /\ actionRun' = [actionRun EXCEPT ![a] = submit[a].run]
    /\ decision'  = [decision EXCEPT ![a] = outcome]
    /\ Record(submit[a].run,
              <<Event("ACTION_REQUESTED", a)>> \o AuditRecord(a) \o records)

\* Mutant: the start is not recorded ahead of the dispatch.
AllowRecordsLateStart(a) == <<Event("POLICY_ALLOWED", a)>>

AllowRecords(a) == <<Event("POLICY_ALLOWED", a), Event("EXECUTION_STARTED", a)>>

CommitAllow(a) ==
    /\ CommitDecision(a, "ALLOW", AllowRecords(a))
    /\ submit' = [submit EXCEPT ![a].pc = "dispatch"]
    /\ UNCHANGED <<runStatus, approval, receipt, overdue, effects, review, sweep>>

CommitHold(a) ==
    /\ CommitDecision(a, "HOLD", <<Event("POLICY_HELD", a),
                                   Event("APPROVAL_REQUESTED", a)>>)
    /\ approval'  = [approval EXCEPT ![a] = "PENDING"]
    /\ runStatus' = [runStatus EXCEPT ![submit[a].run] = "WAITING_FOR_APPROVAL"]
    /\ submit'    = [submit EXCEPT ![a] = DoneSubmit]
    /\ UNCHANGED <<receipt, overdue, effects, review, sweep>>

CommitDeny(a) ==
    /\ CommitDecision(a, "DENY", <<Event("POLICY_DENIED", a)>>)
    /\ receipt' = [receipt EXCEPT ![a] = "NOT_EXECUTED"]
    /\ submit'  = [submit EXCEPT ![a] = DoneSubmit]
    /\ UNCHANGED <<runStatus, approval, overdue, effects, review, sweep>>

\* RUN_NOT_ACTIVE: the run was closed while the audit ran.
RefuseSubmit(a) ==
    /\ submit[a].pc = "decided"
    /\ ~StillLive(a)
    /\ submit' = [submit EXCEPT ![a] = DoneSubmit]
    /\ UNCHANGED <<dbVars, overdue, effects, review, sweep>>

-----------------------------------------------------------------------------
(* The executor, as either request calls it in a worker thread. *)

\* The backend's own check of the stored run, just before the effect.
RunNotTerminal(r) == runStatus[r] \notin TerminalStatus

\* ... and, for a held action, of the stored approval and receipts.
StoredApprovalUsable(a) == approval[a] = "APPROVED" /\ receipt[a] = "NONE"

\* The backend runs: success means the effect happened; an error or a
\* failing command may have touched the workspace or not.
Effect(a, pc) ==
    \E touched \in BOOLEAN :
        /\ pc = "succeeded" => touched
        /\ effects' = [effects EXCEPT ![a] = @ + (IF touched THEN 1 ELSE 0)]

ExecutionRecord(a, pc) ==
    Event(IF pc = "succeeded" THEN "EXECUTION_SUCCEEDED" ELSE "EXECUTION_FAILED", a)

\* Mutant: a failed command is reported as never executed.
ReceiptStatusNotRun(pc) == IF pc = "succeeded" THEN "EXECUTED" ELSE "NOT_EXECUTED"

ReceiptStatus(pc) == IF pc = "succeeded" THEN "EXECUTED" ELSE "FAILED"

\* Phase 2 of submit_action for an ALLOW.
DispatchAllowed(a) ==
    /\ submit[a].pc = "dispatch"
    /\ submit' = [submit EXCEPT ![a].pc =
                    IF RunNotTerminal(submit[a].run) THEN "running" ELSE "failed"]
    /\ UNCHANGED <<dbVars, overdue, effects, review, sweep>>

\* Mutant: an exception of the backend escapes the handler.
RunAllowedUncaught(a) ==
    /\ submit[a].pc = "running"
    /\ \/ /\ Effect(a, "succeeded")
          /\ submit' = [submit EXCEPT ![a].pc = "succeeded"]
       \/ /\ Effect(a, "failed")
          /\ submit' = [submit EXCEPT ![a] = DoneSubmit]
    /\ UNCHANGED <<dbVars, overdue, review, sweep>>

RunAllowed(a) ==
    /\ submit[a].pc = "running"
    /\ \E pc \in {"succeeded", "failed"} :
         /\ Effect(a, pc)
         /\ submit' = [submit EXCEPT ![a].pc = pc]
    /\ UNCHANGED <<dbVars, overdue, review, sweep>>

RecordAllowed(a) ==
    /\ submit[a].pc \in {"succeeded", "failed"}
    /\ receipt' = [receipt EXCEPT ![a] = ReceiptStatus(submit[a].pc)]
    /\ Record(submit[a].run, <<ExecutionRecord(a, submit[a].pc)>>)
    /\ submit'  = [submit EXCEPT ![a] = DoneSubmit]
    /\ UNCHANGED <<runStatus, actionRun, decision, approval, overdue, effects,
                   review, sweep>>

-----------------------------------------------------------------------------
(* resolve_approval. *)

\* The reads before the transaction: approval, decision, run and clock.  An
\* approval never becomes PENDING again, and the transaction checks that it
\* still is, so reading them in one step loses no behaviour.
BeginResolve(q, a) ==
    /\ review[q].pc = "idle"
    /\ approval[a] = "PENDING"
    /\ runStatus[actionRun[a]] \in LiveStatus
    /\ \E approve \in BOOLEAN :
         /\ approve => decision[a] # "DENY"
         /\ review' = [review EXCEPT ![q] =
                [pc      |-> "ready",
                 action  |-> a,
                 approve |-> approve,
                 late    |-> a \in overdue,
                 waiting |-> runStatus[actionRun[a]] = "WAITING_FOR_APPROVAL"]]
    /\ UNCHANGED <<dbVars, overdue, effects, submit, sweep>>

\* Mutant: the approval read before the transaction is trusted.
ResolvableAsRead(a) == runStatus[actionRun[a]] \in LiveStatus

\* Mutant: the run read before the transaction is trusted.
ResolvableOnAnyRun(a) == approval[a] = "PENDING"

\* require_resolvable_run and the PENDING check of repository.resolve_approval,
\* both inside the transaction.
Resolvable(a) == runStatus[actionRun[a]] \in LiveStatus /\ approval[a] = "PENDING"

\* The reviewer came after the TTL: the approval expires instead.
ExpireOnResolve(q) ==
    LET a == review[q].action
        r == actionRun[a]
    IN  /\ review[q].pc = "ready"
        /\ review[q].late
        /\ Resolvable(a)
        /\ approval'  = [approval EXCEPT ![a] = "EXPIRED"]
        /\ Record(r, <<Event("APPROVAL_EXPIRED", a)>>)
        /\ runStatus' = IF review[q].waiting
                        THEN Released(r, approval', LiveStatus)
                        ELSE runStatus
        /\ review'    = [review EXCEPT ![q] = IdleReview]
        /\ UNCHANGED <<actionRun, decision, receipt, overdue, effects, submit, sweep>>

\* Phase 1 of an approval: grant and start are committed before the effect.
Grant(q) ==
    LET a == review[q].action
    IN  /\ review[q].pc = "ready"
        /\ ~review[q].late
        /\ review[q].approve
        /\ Resolvable(a)
        /\ approval' = [approval EXCEPT ![a] = "APPROVED"]
        /\ Record(actionRun[a], <<Event("APPROVAL_GRANTED", a),
                                  Event("EXECUTION_STARTED", a)>>)
        /\ review'   = [review EXCEPT ![q].pc = "dispatch"]
        /\ UNCHANGED <<runStatus, actionRun, decision, receipt, overdue, effects,
                       submit, sweep>>

DenyHold(q) ==
    LET a == review[q].action
        r == actionRun[a]
    IN  /\ review[q].pc = "ready"
        /\ ~review[q].late
        /\ ~review[q].approve
        /\ Resolvable(a)
        /\ approval'  = [approval EXCEPT ![a] = "DENIED"]
        /\ receipt'   = [receipt EXCEPT ![a] = "NOT_EXECUTED"]
        /\ Record(r, <<Event("APPROVAL_DENIED", a)>>)
        /\ runStatus' = Released(r, approval', LiveStatus)
        /\ review'    = [review EXCEPT ![q] = IdleReview]
        /\ UNCHANGED <<actionRun, decision, overdue, effects, submit, sweep>>

\* RUN_NOT_ACTIVE or APPROVAL_CONFLICT: somebody else got there first.
RefuseResolve(q) ==
    /\ review[q].pc = "ready"
    /\ ~Resolvable(review[q].action)
    /\ review' = [review EXCEPT ![q] = IdleReview]
    /\ UNCHANGED <<dbVars, overdue, effects, submit, sweep>>

\* Phase 2: the executor verifies the stored approval is unspent.
DispatchGranted(q) ==
    LET a == review[q].action
    IN  /\ review[q].pc = "dispatch"
        /\ review' = [review EXCEPT ![q].pc =
                IF RunNotTerminal(actionRun[a]) /\ StoredApprovalUsable(a)
                THEN "running" ELSE "failed"]
        /\ UNCHANGED <<dbVars, overdue, effects, submit, sweep>>

RunGranted(q) ==
    /\ review[q].pc = "running"
    /\ \E pc \in {"succeeded", "failed"} :
         /\ Effect(review[q].action, pc)
         /\ review' = [review EXCEPT ![q].pc = pc]
    /\ UNCHANGED <<dbVars, overdue, submit, sweep>>

\* Mutant: the receipt's status is written into the approval.
ConsumedAsExecuted(a) ==
    [approval EXCEPT ![a] = IF @ = "APPROVED" THEN "EXECUTED" ELSE @]

\* consume_approval: spends an APPROVED approval, and is silent about others.
Consumed(a) ==
    [approval EXCEPT ![a] = IF @ = "APPROVED" THEN "CONSUMED" ELSE @]

RecordGranted(q) ==
    LET a == review[q].action
        r == actionRun[a]
    IN  /\ review[q].pc \in {"succeeded", "failed"}
        /\ receipt'   = [receipt EXCEPT ![a] = ReceiptStatus(review[q].pc)]
        /\ Record(r, <<ExecutionRecord(a, review[q].pc)>>)
        /\ approval'  = Consumed(a)
        /\ runStatus' = Released(r, approval', LiveStatus)
        /\ review'    = [review EXCEPT ![q] = IdleReview]
        /\ UNCHANGED <<actionRun, decision, overdue, effects, submit, sweep>>

-----------------------------------------------------------------------------
(* Expiry. *)

\* The TTL of a pending approval runs out.
DeadlinePasses(a) ==
    /\ approval[a] = "PENDING"
    /\ a \notin overdue
    /\ overdue' = overdue \cup {a}
    /\ UNCHANGED <<dbVars, effects, submit, review, sweep>>

\* expire_approval_wait: the agent gives up waiting, whatever the TTL says.
\* The run may be closed already.
ExpireWait(a) ==
    LET r == actionRun[a]
    IN  /\ approval[a] = "PENDING"
        /\ approval'  = [approval EXCEPT ![a] = "EXPIRED"]
        /\ Record(r, <<Event("APPROVAL_EXPIRED", a)>>)
        /\ runStatus' = Released(r, approval', {"WAITING_FOR_APPROVAL"})
        /\ UNCHANGED <<actionRun, decision, receipt, overdue, effects, submit,
                       review, sweep>>

\* reconcile_expired_approvals lists the pending approvals of one run or of
\* all, and compares them with the clock, before it takes the write lock.
BeginSweep(s, scope) ==
    /\ ~sweep[s].active
    /\ sweep' = [sweep EXCEPT ![s] =
           [active |-> TRUE,
            late   |-> {a \in overdue : approval[a] = "PENDING" /\ actionRun[a] \in scope}]]
    /\ UNCHANGED <<dbVars, overdue, effects, submit, review>>

\* Mutant: what was listed is expired, resolved meanwhile or not.
ExpirableAsListed(s) == sweep[s].late

\* What a sweep still finds PENDING; a conflict on one approval is logged and
\* skipped, the rest of the sweep goes on.
Expirable(s) == {a \in sweep[s].late : approval[a] = "PENDING"}

\* The orders in which S can come out of the listing.
Listings(S) ==
    {f \in [1 .. Cardinality(S) -> S] : \A a \in S : \E i \in DOMAIN f : f[i] = a}

ExpiryRecords(listing) ==
    [i \in DOMAIN listing |-> Event("APPROVAL_EXPIRED", listing[i])]

CommitSweep(s) ==
    LET gone   == Expirable(s)
        of(r)  == {a \in gone : actionRun[a] = r}
    IN  /\ sweep[s].active
        /\ approval'  = [a \in Actions |-> IF a \in gone THEN "EXPIRED" ELSE approval[a]]
        /\ \E listing \in [Runs -> UNION {Listings(of(r)) : r \in Runs}] :
             /\ \A r \in Runs : listing[r] \in Listings(of(r))
             /\ log' = [r \in Runs |-> log[r] \o ExpiryRecords(listing[r])]
        /\ runStatus' = [r \in Runs |->
               IF of(r) # {} THEN Released(r, approval', {"WAITING_FOR_APPROVAL"})[r]
                             ELSE runStatus[r]]
        /\ sweep'     = [sweep EXCEPT ![s] = IdleSweep]
        /\ UNCHANGED <<actionRun, decision, receipt, overdue, effects, submit, review>>

-----------------------------------------------------------------------------
(* A request dies between two steps: the process is killed, or a transaction *)
(* cannot be committed and rolls back.  Nothing resumes it afterwards.       *)

LoseSubmit(a) ==
    /\ RequestsMayDie
    /\ submit[a].pc \notin {"new", "done"}
    /\ submit' = [submit EXCEPT ![a] = DoneSubmit]
    /\ UNCHANGED <<dbVars, overdue, effects, review, sweep>>

LoseReview(q) ==
    /\ RequestsMayDie
    /\ review[q].pc # "idle"
    /\ review' = [review EXCEPT ![q] = IdleReview]
    /\ UNCHANGED <<dbVars, overdue, effects, submit, sweep>>

LoseSweep(s) ==
    /\ RequestsMayDie
    /\ sweep[s].active
    /\ sweep' = [sweep EXCEPT ![s] = IdleSweep]
    /\ UNCHANGED <<dbVars, overdue, effects, submit, review>>

-----------------------------------------------------------------------------
SubmitStep(a) ==
    \/ AuditReturns(a)
    \/ CommitAllow(a) \/ CommitHold(a) \/ CommitDeny(a) \/ RefuseSubmit(a)
    \/ DispatchAllowed(a) \/ RunAllowed(a) \/ RecordAllowed(a)

ReviewStep(q) ==
    \/ ExpireOnResolve(q) \/ Grant(q) \/ DenyHold(q) \/ RefuseResolve(q)
    \/ DispatchGranted(q) \/ RunGranted(q) \/ RecordGranted(q)

SweepScopes == {Runs} \cup {{r} : r \in Runs}

Next ==
    \/ \E r \in Runs : CreateRun(r) \/ CompleteRun(r) \/ FailRun(r)
    \/ \E a \in Actions, r \in Runs : BeginSubmit(a, r)
    \/ \E a \in Actions :
         SubmitStep(a) \/ DeadlinePasses(a) \/ ExpireWait(a) \/ LoseSubmit(a)
    \/ \E q \in Reviewers, a \in Actions : BeginResolve(q, a)
    \/ \E q \in Reviewers : ReviewStep(q) \/ LoseReview(q)
    \/ \E s \in Sweepers, scope \in SweepScopes : BeginSweep(s, scope)
    \/ \E s \in Sweepers : CommitSweep(s) \/ LoseSweep(s)

Spec == Init /\ [][Next]_vars

(***************************************************************************)
(* Fairness.  Once begun, a request keeps running: the audit is awaited    *)
(* with a timeout, the executor's backends bound their work, SQLite hands  *)
(* the write lock on.  Time passes, and some client keeps polling the      *)
(* approvals inbox, which is what sweeps.  Nothing obliges an agent to     *)
(* submit or give up, a reviewer to answer, or anyone to close a run.      *)
(***************************************************************************)
Fairness ==
    /\ \A a \in Actions : WF_vars(SubmitStep(a)) /\ WF_vars(DeadlinePasses(a))
    /\ \A q \in Reviewers : WF_vars(ReviewStep(q))
    /\ \A s \in Sweepers : SF_vars(BeginSweep(s, Runs)) /\ WF_vars(CommitSweep(s))

FairSpec == Spec /\ Fairness

-----------------------------------------------------------------------------
(* Safety. *)

SubmitStages == {"new", "audit", "decided", "done"} \cup Executing
ReviewStages == {"idle", "ready"} \cup Executing

SubmitRequest ==
    [pc : SubmitStages, run : Runs \cup {NoRun},
     outcome : PolicyOutcome \cup {"NONE"}, verdict : Verdict \cup {"NONE"}]

ReviewRequest ==
    [pc : ReviewStages, action : Actions \cup {NoAction},
     approve : BOOLEAN, late : BOOLEAN, waiting : BOOLEAN]

\* Every table, and what every request carries, holds values of its column.
TypeOK ==
    /\ runStatus \in [Runs -> RunStatus]
    /\ log \in [Runs -> Seq(ChainRecord)]
    /\ actionRun \in [Actions -> Runs \cup {NoRun}]
    /\ decision \in [Actions -> PolicyOutcome \cup {"NONE"}]
    /\ approval \in [Actions -> ApprovalStatus]
    /\ receipt \in [Actions -> {"NONE", "EXECUTED", "FAILED", "NOT_EXECUTED"}]
    /\ overdue \subseteq Actions
    /\ effects \in [Actions -> Nat]
    /\ submit \in [Actions -> SubmitRequest]
    /\ review \in [Reviewers -> ReviewRequest]
    /\ sweep \in [Sweepers -> [active : BOOLEAN, late : SUBSET Actions]]

\* Whatever the handlers interleave, crash or repeat, the records they leave
\* are a history the offline verifier (verify_records) accepts.
EvidenceVerifies == \A r \in Runs : Verifies(log[r])

\* Evidence before effect: an action that touched the workspace has its
\* start, and the allowance or grant that start rests on, in the log already.
EffectHasAuthority ==
    \A a \in Actions : effects[a] > 0 =>
        LET r == actionRun[a]
        IN  /\ r \in Runs
            /\ Logged(r, a, {"EXECUTION_STARTED"})
            /\ Logged(r, a, {"POLICY_ALLOWED", "APPROVAL_GRANTED"})

\* Single use: however many reviewers answer one approval, and whatever dies
\* in between, an action has its effect at most once.
AtMostOneEffect == \A a \in Actions : effects[a] <= 1

ExecutingIn(r) ==
    \/ \E a \in Actions : submit[a].run = r /\ submit[a].pc \in Executing
    \/ \E q \in Reviewers : /\ review[q].pc \in Executing
                             /\ actionRun[review[q].action] = r

\* Closing is refused while anything executes and nothing starts afterwards:
\* a closed run has no executor at work and no approval granted but unspent.
ClosedRunIsQuiet ==
    \A r \in Runs : runStatus[r] \in TerminalStatus =>
        /\ ~ExecutingIn(r)
        /\ \A a \in Actions : actionRun[a] = r => approval[a] # "APPROVED"

\* A live run waits exactly when it has something to wait for: an ACTIVE run
\* has no pending approval, a waiting one has a pending or an executing one,
\* although four handlers set the status and one of them from a stale read.
WaitingIsJustified ==
    \A r \in Runs :
        /\ runStatus[r] = "ACTIVE" => PendingIn(approval, r) = {}
        /\ runStatus[r] = "WAITING_FOR_APPROVAL" =>
             \E a \in Actions : actionRun[a] = r /\ approval[a] \in {"PENDING", "APPROVED"}

\* Receipt, approval and workspace tell one story: an EXECUTED receipt means
\* the effect happened, a NOT_EXECUTED one that nothing ever started, and an
\* approval is spent exactly when its execution has a receipt.
ReceiptAgrees ==
    \A a \in Actions :
        /\ receipt[a] = "EXECUTED" => effects[a] = 1
        /\ receipt[a] = "NOT_EXECUTED" =>
             effects[a] = 0 /\ ~Logged(actionRun[a], a, {"EXECUTION_STARTED"})
        /\ decision[a] = "HOLD" =>
             (approval[a] = "CONSUMED" <=> receipt[a] \in {"EXECUTED", "FAILED"})

-----------------------------------------------------------------------------
(* What no step may do. *)

\* Late answers never reopen a run: a submission whose audit outlived the
\* run, an execution that outlived it, and an expiry all leave it closed.
ClosedStaysClosed ==
    [][\A r \in Runs : runStatus[r] \in TerminalStatus => runStatus'[r] \in TerminalStatus]_vars

\* Of concurrent reviewers, sweeps and agents giving up, one resolves an
\* approval and the others change nothing; only a grant is ever spent.
ApprovalResolvesOnce ==
    [][\A a \in Actions : approval'[a] # approval[a] =>
          CASE approval[a] = "NONE"     -> approval'[a] = "PENDING"
            [] approval[a] = "PENDING"  -> approval'[a] \in {"APPROVED", "DENIED", "EXPIRED"}
            [] approval[a] = "APPROVED" -> approval'[a] = "CONSUMED"
            [] OTHER                    -> FALSE]_vars

-----------------------------------------------------------------------------
(* Liveness, of FairSpec and without lost requests. *)

\* What was started is settled: every execution gets its receipt, so that
\* none keeps its run from being closed for ever.
DispatchSettles ==
    \A r \in Runs, a \in Actions : InFlight(r, a) ~> receipt[a] # "NONE"

\* A run does not wait for ever on a reviewer who never answers: the TTL and
\* the sweep release it.
WaitingRunIsReleased ==
    \A r \in Runs : runStatus[r] = "WAITING_FOR_APPROVAL" ~>
                       runStatus[r] # "WAITING_FOR_APPROVAL"

-----------------------------------------------------------------------------
(* What the repository's own words say of these handlers. *)

\* service.py:1787: "Closing a run expires its PENDING approvals (#187)."
ClosedRunHasNoPendingApproval ==
    \A r \in Runs : runStatus[r] \in TerminalStatus => PendingIn(approval, r) = {}

\* judge-runbook.md:35: "Approvals are single-use and expire after
\* SCOPEWATCH_APPROVAL_TTL seconds": none is granted past its deadline.
NoGrantAfterDeadline ==
    [][\A a \in overdue : approval'[a] = "APPROVED" => approval[a] = "APPROVED"]_vars

=============================================================================
