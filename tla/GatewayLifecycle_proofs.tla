---------------------- MODULE GatewayLifecycle_proofs -----------------------
(***************************************************************************)
(* Proofs about GatewayLifecycle, for every set of runs, actions,          *)
(* reviewers and sweeps: every table keeps its types, an action has its    *)
(* effect at most once, an approval is resolved and spent at most once,    *)
(* what has an effect has its authority in the log, and a closed run is    *)
(* quiet and stays closed, whatever races and whatever dies.  A run waits  *)
(* exactly when it has something to wait for, receipts tell what happened, *)
(* and the handlers implement RunAuthorization.                            *)
(***************************************************************************)
EXTENDS GatewayInvariant, GatewayRefinement, TLAPS, FiniteSetTheorems, SequenceTheorems

-----------------------------------------------------------------------------
(* Typing. *)

\* Every record a handler writes is one of the catalog's.
LEMMA EventType ==
    ASSUME NEW type \in KnownEvents, NEW a \in Actions \cup {NoAction}
    PROVE  Event(type, a) \in ChainRecord
BY DEF Event, ChainRecord

\* ... and so are the one or two records a handler writes at a time.
LEMMA OneRecord ==
    ASSUME NEW type \in KnownEvents, NEW a \in Actions \cup {NoAction}
    PROVE  <<Event(type, a)>> \in Seq(ChainRecord)
<1>1. Event(type, a) \in ChainRecord
  BY EventType
<1> QED
  BY <1>1

LEMMA TwoRecords ==
    ASSUME NEW first \in KnownEvents, NEW second \in KnownEvents,
           NEW a \in Actions \cup {NoAction}
    PROVE  <<Event(first, a), Event(second, a)>> \in Seq(ChainRecord)
<1>1. Event(first, a) \in ChainRecord /\ Event(second, a) \in ChainRecord
  BY EventType
<1> QED
  BY <1>1

\* Appending records to one run's log keeps every log well typed.
LEMMA RecordType ==
    ASSUME NEW r, NEW records \in Seq(ChainRecord),
           log \in [Runs -> Seq(ChainRecord)], Record(r, records)
    PROVE  log' \in [Runs -> Seq(ChainRecord)]
<1>1. \A x \in Runs : log[x] \o records \in Seq(ChainRecord)
  BY ConcatProperties
<1> QED
  BY <1>1 DEF Record

\* A handler that releases a run makes it ACTIVE or leaves it alone.
LEMMA ReleasedType ==
    ASSUME NEW r, NEW ap, NEW statuses,
           runStatus \in [Runs -> RunStatus]
    PROVE  Released(r, ap, statuses) \in [Runs -> RunStatus]
BY DEF Released, RunStatus, LiveStatus

\* The expiry records of a sweep are a sequence of the catalog's records.
LEMMA ExpiryType ==
    ASSUME NEW S \in SUBSET Actions, NEW listing \in Listings(S)
    PROVE  ExpiryRecords(listing) \in Seq(ChainRecord)
<1>1. Cardinality(S) \in Nat
  BY LifecycleAssumption, FS_Subset, FS_CardinalityType
<1>2. listing \in [1 .. Cardinality(S) -> S]
  BY DEF Listings
<1>3. \A i \in 1 .. Cardinality(S) : Event("APPROVAL_EXPIRED", listing[i]) \in ChainRecord
  BY <1>2, EventType DEF KnownEvents, ApprovalClosedEvents
<1>4. ExpiryRecords(listing) \in [1 .. Cardinality(S) -> ChainRecord]
  BY <1>2, <1>3 DEF ExpiryRecords
<1> QED
  BY <1>1, <1>4, IsASeq

\* Initially every table is empty and no request has begun.
LEMMA InitType == Init => TypeOK
BY LifecycleAssumption, EmptySeq
   DEF Init, TypeOK, RunStatus, ApprovalStatus, IdleReview, NewSubmit, IdleSweep,
       SubmitStages, ReviewStages, SubmitRequest, ReviewRequest

\* The steps of a submission before its execution.
LEMMA SubmitType ==
    ASSUME TypeOK, NEW a \in Actions
    PROVE  /\ \A r \in Runs : BeginSubmit(a, r) => TypeOK'
           /\ AuditReturns(a) \/ RefuseSubmit(a) \/ LoseSubmit(a) => TypeOK'
           /\ CommitAllow(a) \/ CommitHold(a) \/ CommitDeny(a) => TypeOK'
<1> USE DEF TypeOK, dbVars
<1>0. /\ submit[a] \in SubmitRequest
      /\ DoneSubmit \in SubmitRequest
      /\ \A x \in SubmitRequest : [submit EXCEPT ![a] = x] \in [Actions -> SubmitRequest]
      /\ \A pc \in Executing : [submit EXCEPT ![a].pc = pc] \in [Actions -> SubmitRequest]
  BY DEF SubmitRequest, DoneSubmit, NewSubmit, SubmitStages
<1>1. ASSUME NEW r \in Runs, BeginSubmit(a, r)
      PROVE  TypeOK'
  <2>1. submit' \in [Actions -> SubmitRequest]
    BY <1>1 DEF BeginSubmit, SubmitRequest, SubmitStages
  <2> QED
    BY <1>1, <2>1 DEF BeginSubmit
<1>2. ASSUME AuditReturns(a)
      PROVE  TypeOK'
  <2>1. PICK verdict \in Verdict :
           submit' = [submit EXCEPT ![a].pc      = "decided",
                                    ![a].verdict = verdict,
                                    ![a].outcome = Escalate(@, verdict)]
    BY <1>2 DEF AuditReturns
  <2>2. Escalate(submit[a].outcome, verdict) \in PolicyOutcome \cup {"NONE"}
    BY <1>0 DEF Escalate, SubmitRequest, PolicyOutcome
  <2>3. submit' \in [Actions -> SubmitRequest]
    BY <1>0, <2>1, <2>2 DEF SubmitRequest, SubmitStages
  <2> QED
    BY <1>2, <2>3 DEF AuditReturns
<1>3. ASSUME RefuseSubmit(a) \/ LoseSubmit(a)
      PROVE  TypeOK'
  BY <1>0, <1>3 DEF RefuseSubmit, LoseSubmit
<1>4. ASSUME NEW outcome \in PolicyOutcome, NEW records \in Seq(ChainRecord),
             CommitDecision(a, outcome, records)
      PROVE  /\ actionRun' \in [Actions -> Runs \cup {NoRun}]
             /\ decision' \in [Actions -> PolicyOutcome \cup {"NONE"}]
             /\ log' \in [Runs -> Seq(ChainRecord)]
  <2>1. AuditRecord(a) \in Seq(ChainRecord)
    BY OneRecord, EmptySeq DEF AuditRecord, KnownEvents
  <2>2. <<Event("ACTION_REQUESTED", a)>> \in Seq(ChainRecord)
    BY OneRecord DEF KnownEvents
  <2>3. <<Event("ACTION_REQUESTED", a)>> \o AuditRecord(a) \o records \in Seq(ChainRecord)
    BY <2>1, <2>2, ConcatProperties
  <2>4. log' \in [Runs -> Seq(ChainRecord)]
    BY <1>4, <2>3, RecordType DEF CommitDecision
  <2>5. submit[a].run \in Runs \cup {NoRun}
    BY <1>0 DEF SubmitRequest
  <2> QED
    BY <1>4, <2>4, <2>5 DEF CommitDecision
<1>5. ASSUME CommitAllow(a)
      PROVE  TypeOK'
  <2>1. AllowRecords(a) \in Seq(ChainRecord)
    BY TwoRecords DEF AllowRecords, KnownEvents, DecisionEvents, ExecutionEvents
  <2>2. submit' \in [Actions -> SubmitRequest]
    BY <1>0, <1>5 DEF CommitAllow, Executing
  <2> QED
    BY <1>4, <1>5, <2>1, <2>2 DEF CommitAllow, PolicyOutcome
<1>6. ASSUME CommitHold(a)
      PROVE  TypeOK'
  <2>1. <<Event("POLICY_HELD", a), Event("APPROVAL_REQUESTED", a)>> \in Seq(ChainRecord)
    BY TwoRecords DEF KnownEvents, DecisionEvents
  <2>2. approval' \in [Actions -> ApprovalStatus]
    BY <1>6 DEF CommitHold, ApprovalStatus
  <2>3. runStatus' \in [Runs -> RunStatus]
    BY <1>6 DEF CommitHold, RunStatus, LiveStatus
  <2>4. submit' \in [Actions -> SubmitRequest]
    BY <1>0, <1>6 DEF CommitHold
  <2> QED
    BY <1>4, <1>6, <2>1, <2>2, <2>3, <2>4 DEF CommitHold, PolicyOutcome
<1>7. ASSUME CommitDeny(a)
      PROVE  TypeOK'
  <2>1. <<Event("POLICY_DENIED", a)>> \in Seq(ChainRecord)
    BY OneRecord DEF KnownEvents, DecisionEvents
  <2>2. submit' \in [Actions -> SubmitRequest]
    BY <1>0, <1>7 DEF CommitDeny
  <2> QED
    BY <1>4, <1>7, <2>1, <2>2 DEF CommitDeny, PolicyOutcome
<1> QED
  BY <1>1, <1>2, <1>3, <1>5, <1>6, <1>7

\* The execution record and the receipt it comes with.
LEMMA ExecutionType ==
    ASSUME NEW a \in Actions \cup {NoAction}, NEW pc
    PROVE  /\ <<ExecutionRecord(a, pc)>> \in Seq(ChainRecord)
           /\ ReceiptStatus(pc) \in {"NONE", "EXECUTED", "FAILED", "NOT_EXECUTED"}
<1>1. ExecutionRecord(a, pc) \in ChainRecord
  BY EventType DEF ExecutionRecord, KnownEvents, ExecutionEvents, TerminalExecutionEvents
<1> QED
  BY <1>1 DEF ReceiptStatus

LEMMA EffectType ==
    ASSUME NEW a, NEW pc, effects \in [Actions -> Nat], Effect(a, pc)
    PROVE  effects' \in [Actions -> Nat]
<1>1. PICK touched \in BOOLEAN :
         effects' = [effects EXCEPT ![a] = @ + (IF touched THEN 1 ELSE 0)]
  BY DEF Effect
<1>2. \A b \in Actions : effects[b] \in Nat /\ effects[b] + 1 \in Nat /\ effects[b] + 0 \in Nat
  OBVIOUS
<1> QED
  BY <1>1, <1>2

\* The execution of an allowed action.
LEMMA AllowedType ==
    ASSUME TypeOK, NEW a \in Actions
    PROVE  DispatchAllowed(a) \/ RunAllowed(a) \/ RecordAllowed(a) => TypeOK'
<1> USE DEF TypeOK, dbVars
<1>0. /\ DoneSubmit \in SubmitRequest
      /\ \A x \in SubmitRequest : [submit EXCEPT ![a] = x] \in [Actions -> SubmitRequest]
      /\ \A pc \in Executing : [submit EXCEPT ![a].pc = pc] \in [Actions -> SubmitRequest]
  BY DEF SubmitRequest, DoneSubmit, NewSubmit, SubmitStages
<1>1. ASSUME DispatchAllowed(a)
      PROVE  TypeOK'
  BY <1>0, <1>1 DEF DispatchAllowed, Executing
<1>2. ASSUME RunAllowed(a)
      PROVE  TypeOK'
  BY <1>0, <1>2, EffectType DEF RunAllowed, Executing
<1>3. ASSUME RecordAllowed(a)
      PROVE  TypeOK'
  <2>1. log' \in [Runs -> Seq(ChainRecord)]
    BY <1>3, ExecutionType, RecordType DEF RecordAllowed
  <2>2. receipt' \in [Actions -> {"NONE", "EXECUTED", "FAILED", "NOT_EXECUTED"}]
    BY <1>3, ExecutionType DEF RecordAllowed
  <2> QED
    BY <1>0, <1>3, <2>1, <2>2 DEF RecordAllowed
<1> QED
  BY <1>1, <1>2, <1>3

\* A review, from its reads to the spending of the approval.
LEMMA ReviewType ==
    ASSUME TypeOK, NEW q \in Reviewers
    PROVE  /\ \A a \in Actions : BeginResolve(q, a) => TypeOK'
           /\ ReviewStep(q) \/ LoseReview(q) => TypeOK'
<1> USE DEF TypeOK, dbVars
<1> DEFINE a == review[q].action
           r == actionRun[a]
<1>0. /\ a \in Actions \cup {NoAction}
      /\ IdleReview \in ReviewRequest
      /\ \A x \in ReviewRequest : [review EXCEPT ![q] = x] \in [Reviewers -> ReviewRequest]
      /\ \A pc \in Executing : [review EXCEPT ![q].pc = pc] \in [Reviewers -> ReviewRequest]
      /\ \A x \in ApprovalStatus : [approval EXCEPT ![a] = x] \in [Actions -> ApprovalStatus]
  BY DEF ReviewRequest, IdleReview, ReviewStages
<1>1. ASSUME NEW b \in Actions, BeginResolve(q, b)
      PROVE  TypeOK'
  <2>1. review' \in [Reviewers -> ReviewRequest]
    BY <1>1 DEF BeginResolve, ReviewRequest, ReviewStages
  <2> QED
    BY <1>1, <2>1 DEF BeginResolve
<1>2. ASSUME ExpireOnResolve(q)
      PROVE  TypeOK'
  <2>1. log' \in [Runs -> Seq(ChainRecord)]
    BY <1>0, <1>2, OneRecord, RecordType DEF ExpireOnResolve, KnownEvents, ApprovalClosedEvents
  <2>2. runStatus' \in [Runs -> RunStatus]
    BY <1>2, ReleasedType DEF ExpireOnResolve
  <2> QED
    BY <1>0, <1>2, <2>1, <2>2 DEF ExpireOnResolve, ApprovalStatus
<1>3. ASSUME Grant(q)
      PROVE  TypeOK'
  <2>1. <<Event("APPROVAL_GRANTED", a), Event("EXECUTION_STARTED", a)>> \in Seq(ChainRecord)
    BY <1>0, TwoRecords DEF KnownEvents, ExecutionEvents
  <2>2. log' \in [Runs -> Seq(ChainRecord)]
    BY <1>3, <2>1, RecordType DEF Grant
  <2> QED
    BY <1>0, <1>3, <2>2 DEF Grant, ApprovalStatus, Executing
<1>4. ASSUME DenyHold(q)
      PROVE  TypeOK'
  <2>1. log' \in [Runs -> Seq(ChainRecord)]
    BY <1>0, <1>4, OneRecord, RecordType DEF DenyHold, KnownEvents, ApprovalClosedEvents
  <2>2. runStatus' \in [Runs -> RunStatus]
    BY <1>4, ReleasedType DEF DenyHold
  <2> QED
    BY <1>0, <1>4, <2>1, <2>2 DEF DenyHold, ApprovalStatus
<1>5. ASSUME RefuseResolve(q) \/ LoseReview(q)
      PROVE  TypeOK'
  BY <1>0, <1>5 DEF RefuseResolve, LoseReview
<1>6. ASSUME DispatchGranted(q)
      PROVE  TypeOK'
  BY <1>0, <1>6 DEF DispatchGranted, Executing
<1>7. ASSUME RunGranted(q)
      PROVE  TypeOK'
  BY <1>0, <1>7, EffectType DEF RunGranted, Executing
<1>8. ASSUME RecordGranted(q)
      PROVE  TypeOK'
  <2>1. log' \in [Runs -> Seq(ChainRecord)]
    BY <1>0, <1>8, ExecutionType, RecordType DEF RecordGranted
  <2>2. runStatus' \in [Runs -> RunStatus]
    BY <1>8, ReleasedType DEF RecordGranted
  <2>3. receipt' \in [Actions -> {"NONE", "EXECUTED", "FAILED", "NOT_EXECUTED"}]
    BY <1>0, <1>8, ExecutionType DEF RecordGranted
  <2>4. approval' \in [Actions -> ApprovalStatus]
    BY <1>0, <1>8 DEF RecordGranted, Consumed, ApprovalStatus
  <2> QED
    BY <1>0, <1>8, <2>1, <2>2, <2>3, <2>4 DEF RecordGranted
<1> QED
  BY <1>1, <1>2, <1>3, <1>4, <1>5, <1>6, <1>7, <1>8 DEF ReviewStep

\* Deadlines, agents that give up, and sweeps.
LEMMA ExpiryStepType ==
    ASSUME TypeOK
    PROVE  /\ \A a \in Actions : DeadlinePasses(a) \/ ExpireWait(a) => TypeOK'
           /\ \A s \in Sweepers :
                /\ \A scope \in SweepScopes : BeginSweep(s, scope) => TypeOK'
                /\ CommitSweep(s) \/ LoseSweep(s) => TypeOK'
<1> USE DEF TypeOK, dbVars
<1>1. ASSUME NEW a \in Actions, DeadlinePasses(a)
      PROVE  TypeOK'
  BY <1>1 DEF DeadlinePasses
<1>2. ASSUME NEW a \in Actions, ExpireWait(a)
      PROVE  TypeOK'
  <2>1. log' \in [Runs -> Seq(ChainRecord)]
    BY <1>2, OneRecord, RecordType DEF ExpireWait, KnownEvents, ApprovalClosedEvents
  <2>2. runStatus' \in [Runs -> RunStatus]
    BY <1>2, ReleasedType DEF ExpireWait
  <2> QED
    BY <1>2, <2>1, <2>2 DEF ExpireWait, ApprovalStatus
<1>3. ASSUME NEW s \in Sweepers, NEW scope \in SweepScopes, BeginSweep(s, scope)
      PROVE  TypeOK'
  BY <1>3 DEF BeginSweep
<1>4. ASSUME NEW s \in Sweepers, LoseSweep(s)
      PROVE  TypeOK'
  BY <1>4 DEF LoseSweep, IdleSweep
<1>5. ASSUME NEW s \in Sweepers, CommitSweep(s)
      PROVE  TypeOK'
  <2> DEFINE of(r) == {a \in Expirable(s) : actionRun[a] = r}
  <2>1. \A r \in Runs : of(r) \in SUBSET Actions
    BY DEF Expirable
  <2>2. PICK listing :
          /\ \A r \in Runs : listing[r] \in Listings(of(r))
          /\ log' = [r \in Runs |-> log[r] \o ExpiryRecords(listing[r])]
    BY <1>5 DEF CommitSweep
  <2>3. \A r \in Runs : log[r] \o ExpiryRecords(listing[r]) \in Seq(ChainRecord)
    BY <2>1, <2>2, ExpiryType, ConcatProperties
  <2>4. runStatus' \in [Runs -> RunStatus]
    BY <1>5 DEF CommitSweep, Released, RunStatus, LiveStatus
  <2>5. approval' \in [Actions -> ApprovalStatus]
    BY <1>5 DEF CommitSweep, ApprovalStatus
  <2>6. sweep' \in [Sweepers -> [active : BOOLEAN, late : SUBSET Actions]]
    BY <1>5 DEF CommitSweep, IdleSweep
  <2> QED
    BY <1>5, <2>2, <2>3, <2>4, <2>5, <2>6 DEF CommitSweep
<1> QED
  BY <1>1, <1>2, <1>3, <1>4, <1>5

\* Runs are created and closed.
LEMMA RunType ==
    ASSUME TypeOK, NEW r \in Runs
    PROVE  CreateRun(r) \/ CompleteRun(r) \/ FailRun(r) => TypeOK'
<1> USE DEF TypeOK, dbVars
<1>1. ASSUME CreateRun(r)
      PROVE  TypeOK'
  BY <1>1, OneRecord, RecordType DEF CreateRun, RunStatus, LiveStatus, KnownEvents
<1>2. ASSUME CompleteRun(r) \/ FailRun(r)
      PROVE  TypeOK'
  BY <1>2, OneRecord, RecordType
     DEF CompleteRun, FailRun, CloseRun, RunStatus, TerminalStatus, KnownEvents, RunTerminalEvents
<1> QED
  BY <1>1, <1>2

LEMMA StepType == TypeOK /\ [Next]_vars => TypeOK'
<1> SUFFICES ASSUME TypeOK, [Next]_vars
             PROVE  TypeOK'
  OBVIOUS
<1>1. ASSUME NEW r \in Runs, CreateRun(r) \/ CompleteRun(r) \/ FailRun(r)
      PROVE  TypeOK'
  BY <1>1, RunType
<1>2. ASSUME NEW a \in Actions, SubmitStep(a)
      PROVE  TypeOK'
  BY <1>2, SubmitType, AllowedType DEF SubmitStep
<1>3. CASE UNCHANGED vars
  BY <1>3 DEF vars, dbVars, TypeOK
<1> QED
  BY <1>1, <1>2, <1>3, SubmitType, ReviewType, ExpiryStepType DEF Next

\* Every table and every request holds values of its columns, for ever.
THEOREM TypeCorrect == Spec => []TypeOK
BY InitType, StepType, PTL DEF Spec

-----------------------------------------------------------------------------
(* Single use. *)

SingleUseVars == <<submit, review, decision, approval, effects>>

\* Initially nothing is decided, nobody reviews and nothing has happened.
LEMMA InitSingleUse == Init => SingleUse
BY DEF Init, SingleUse, OneDecision, OneReviewerEach, EffectIsPast,
       NewSubmit, IdleReview, Undecided, Executing

\* Steps that touch nothing SingleUse speaks of.
LEMMA OtherStepsKeepSingleUse ==
    ASSUME SingleUse, UNCHANGED SingleUseVars
    PROVE  SingleUse'
BY DEF SingleUse, OneDecision, OneReviewerEach, EffectIsPast, SingleUseVars

\* A submission up to and including its transaction, or its death.
LEMMA SubmitKeepsSingleUse ==
    ASSUME TypeOK, SingleUse, NEW a \in Actions
    PROVE  /\ \A r \in Runs : BeginSubmit(a, r) => SingleUse'
           /\ AuditReturns(a) \/ RefuseSubmit(a) \/ LoseSubmit(a) => SingleUse'
           /\ CommitAllow(a) \/ CommitHold(a) \/ CommitDeny(a) => SingleUse'
<1> USE DEF SingleUse, OneDecision, OneReviewerEach, EffectIsPast, Undecided, Executing, dbVars
<1>0. /\ submit \in [Actions -> SubmitRequest] /\ submit[a].pc \in SubmitStages
      /\ decision \in [Actions -> PolicyOutcome \cup {"NONE"}]
      /\ approval \in [Actions -> ApprovalStatus]
  BY DEF TypeOK, SubmitRequest
<1>1. ASSUME NEW r \in Runs, BeginSubmit(a, r)
      PROVE  SingleUse'
  <2>1. /\ submit[a].pc = "new"
        /\ submit'[a].pc \in {"audit", "decided"}
        /\ \A b \in Actions \ {a} : submit'[b] = submit[b]
        /\ UNCHANGED <<review, decision, approval, effects>>
    BY <1>0, <1>1 DEF BeginSubmit
  <2> QED
    BY <2>1
<1>2. ASSUME AuditReturns(a)
      PROVE  SingleUse'
  <2>1. /\ submit[a].pc = "audit"
        /\ submit'[a].pc = "decided"
        /\ \A b \in Actions \ {a} : submit'[b] = submit[b]
        /\ UNCHANGED <<review, decision, approval, effects>>
    BY <1>0, <1>2 DEF AuditReturns, SubmitRequest
  <2> QED
    BY <2>1
<1>3. ASSUME RefuseSubmit(a) \/ LoseSubmit(a)
      PROVE  SingleUse'
  <2>1. /\ submit'[a].pc = "done"
        /\ \A b \in Actions \ {a} : submit'[b] = submit[b]
        /\ UNCHANGED <<review, decision, approval, effects>>
    BY <1>0, <1>3 DEF RefuseSubmit, LoseSubmit, DoneSubmit, NewSubmit
  <2> QED
    BY <2>1
<1>4. ASSUME CommitAllow(a) \/ CommitDeny(a)
      PROVE  SingleUse'
  <2>1. /\ submit[a].pc = "decided"
        /\ \/ submit'[a].pc = "dispatch" /\ decision'[a] = "ALLOW"
           \/ submit'[a].pc = "done" /\ decision'[a] = "DENY"
        /\ \A b \in Actions \ {a} : submit'[b] = submit[b] /\ decision'[b] = decision[b]
        /\ UNCHANGED <<review, approval, effects>>
    <3>1. CASE CommitAllow(a)
      BY <1>0, <3>1 DEF CommitAllow, CommitDecision, SubmitRequest
    <3>2. CASE CommitDeny(a)
      BY <1>0, <3>2 DEF CommitDeny, CommitDecision, DoneSubmit, NewSubmit
    <3> QED
      BY <1>4, <3>1, <3>2
  <2> QED
    BY <2>1
<1>5. ASSUME CommitHold(a)
      PROVE  SingleUse'
  <2>1. /\ submit[a].pc = "decided"
        /\ submit'[a].pc = "done" /\ decision'[a] = "HOLD" /\ approval'[a] = "PENDING"
        /\ \A b \in Actions \ {a} : /\ submit'[b] = submit[b]
                                    /\ decision'[b] = decision[b]
                                    /\ approval'[b] = approval[b]
        /\ UNCHANGED <<review, effects>>
    BY <1>0, <1>5 DEF CommitHold, CommitDecision, DoneSubmit, NewSubmit
  <2>2. approval[a] = "NONE" /\ effects[a] = 0
    BY <2>1
  <2> QED
    BY <2>1, <2>2
<1> QED
  BY <1>1, <1>2, <1>3, <1>4, <1>5

\* The execution of an allowed action.
LEMMA AllowedKeepsSingleUse ==
    ASSUME TypeOK, SingleUse, NEW a \in Actions
    PROVE  DispatchAllowed(a) \/ RunAllowed(a) \/ RecordAllowed(a) => SingleUse'
<1> USE DEF SingleUse, OneDecision, OneReviewerEach, EffectIsPast, Undecided, Executing, dbVars
<1>0. submit \in [Actions -> SubmitRequest] /\ effects \in [Actions -> Nat]
  BY DEF TypeOK
<1>1. ASSUME DispatchAllowed(a)
      PROVE  SingleUse'
  <2>1. /\ submit[a].pc = "dispatch"
        /\ submit'[a].pc \in {"running", "failed"}
        /\ \A b \in Actions \ {a} : submit'[b] = submit[b]
        /\ UNCHANGED <<review, decision, approval, effects>>
    BY <1>0, <1>1 DEF DispatchAllowed, SubmitRequest
  <2> QED
    BY <2>1
<1>2. ASSUME RunAllowed(a)
      PROVE  SingleUse'
  <2>1. /\ submit[a].pc = "running"
        /\ submit'[a].pc \in {"succeeded", "failed"}
        /\ effects'[a] \in {effects[a], effects[a] + 1}
        /\ \A b \in Actions \ {a} : submit'[b] = submit[b] /\ effects'[b] = effects[b]
        /\ UNCHANGED <<review, decision, approval>>
    BY <1>0, <1>2 DEF RunAllowed, Effect, SubmitRequest
  <2>2. effects[a] = 0 /\ decision[a] = "ALLOW" /\ approval[a] = "NONE"
    BY <2>1
  <2>3. \A q \in Reviewers : review[q].action = a => review[q].pc \notin {"dispatch", "running"}
    BY <2>2
  <2>4. effects'[a] \in {0, 1}
    BY <2>1, <2>2
  <2> QED
    BY <2>1, <2>2, <2>3, <2>4
<1>3. ASSUME RecordAllowed(a)
      PROVE  SingleUse'
  <2>1. /\ submit[a].pc \in {"succeeded", "failed"}
        /\ submit'[a].pc = "done"
        /\ \A b \in Actions \ {a} : submit'[b] = submit[b]
        /\ UNCHANGED <<review, decision, approval, effects>>
    BY <1>0, <1>3 DEF RecordAllowed, DoneSubmit, NewSubmit
  <2> QED
    BY <2>1
<1> QED
  BY <1>1, <1>2, <1>3

\* A review, in each of its steps.
LEMMA ReviewKeepsSingleUse ==
    ASSUME TypeOK, SingleUse, NEW q \in Reviewers
    PROVE  /\ \A a \in Actions : BeginResolve(q, a) => SingleUse'
           /\ ReviewStep(q) \/ LoseReview(q) => SingleUse'
<1> USE DEF SingleUse, OneDecision, OneReviewerEach, EffectIsPast, Undecided, Executing, dbVars
<1> DEFINE a == review[q].action
<1>0. /\ review \in [Reviewers -> ReviewRequest]
      /\ effects \in [Actions -> Nat]
      /\ approval \in [Actions -> ApprovalStatus]
      /\ \A b \in Actions : submit[b].pc \in SubmitStages
      /\ DOMAIN review = Reviewers
  BY DEF TypeOK, SubmitRequest
<1>1. ASSUME NEW b \in Actions, BeginResolve(q, b)
      PROVE  SingleUse'
  <2>1. /\ review[q].pc = "idle" /\ review'[q].pc = "ready" /\ review'[q].action = b
        /\ \A p \in Reviewers \ {q} : review'[p] = review[p]
        /\ UNCHANGED <<submit, decision, approval, effects>>
    BY <1>0, <1>1 DEF BeginResolve
  <2> QED
    BY <2>1
<1>2. ASSUME ExpireOnResolve(q) \/ DenyHold(q)
      PROVE  SingleUse'
  <2>1. /\ review[q].pc = "ready" /\ review'[q].pc = "idle"
        /\ approval[a] = "PENDING" /\ approval'[a] \in {"EXPIRED", "DENIED"}
        /\ \A p \in Reviewers \ {q} : review'[p] = review[p]
        /\ \A b \in Actions \ {a} : approval'[b] = approval[b]
        /\ UNCHANGED <<submit, decision, effects>>
    BY <1>0, <1>2 DEF ExpireOnResolve, DenyHold, Resolvable, IdleReview
  <2> QED
    BY <1>0, <2>1
<1>3. ASSUME Grant(q)
      PROVE  SingleUse'
  <2>1. /\ review[q].pc = "ready" /\ review'[q].pc = "dispatch" /\ review'[q].action = a
        /\ approval[a] = "PENDING" /\ approval'[a] = "APPROVED"
        /\ \A p \in Reviewers \ {q} : review'[p] = review[p]
        /\ \A b \in Actions \ {a} : approval'[b] = approval[b]
        /\ UNCHANGED <<submit, decision, effects>>
    BY <1>0, <1>3 DEF Grant, Resolvable, ReviewRequest
  <2>2. effects[a] = 0
    BY <2>1
  <2> QED
    BY <1>0, <2>1, <2>2
<1>4. ASSUME RefuseResolve(q) \/ LoseReview(q)
      PROVE  SingleUse'
  <2>1. /\ review'[q].pc = "idle"
        /\ \A p \in Reviewers \ {q} : review'[p] = review[p]
        /\ UNCHANGED <<submit, decision, approval, effects>>
    BY <1>0, <1>4 DEF RefuseResolve, LoseReview, IdleReview
  <2> QED
    BY <2>1
<1>5. ASSUME DispatchGranted(q)
      PROVE  SingleUse'
  <2>1. /\ review[q].pc = "dispatch" /\ review'[q].pc \in {"running", "failed"}
        /\ review'[q].action = a
        /\ \A p \in Reviewers \ {q} : review'[p] = review[p]
        /\ UNCHANGED <<submit, decision, approval, effects>>
    BY <1>0, <1>5 DEF DispatchGranted, ReviewRequest
  <2> QED
    BY <2>1
<1>6. ASSUME RunGranted(q)
      PROVE  SingleUse'
  <2>1. /\ review[q].pc = "running" /\ review'[q].pc \in {"succeeded", "failed"}
        /\ review'[q].action = a
        /\ \A p \in Reviewers \ {q} : review'[p] = review[p]
        /\ UNCHANGED <<submit, decision, approval>>
    BY <1>0, <1>6 DEF RunGranted, ReviewRequest
  <2>2. a \in Actions /\ approval[a] = "APPROVED"
    BY <2>1
  <2>3. /\ effects'[a] \in {effects[a], effects[a] + 1}
        /\ \A b \in Actions \ {a} : effects'[b] = effects[b]
    BY <1>0, <1>6, <2>2 DEF RunGranted, Effect
  <2>4. effects[a] = 0
    BY <2>1, <2>2
  <2>5. submit[a].pc = "done"
    BY <1>0, <2>2 DEF SubmitStages
  <2>6. effects'[a] \in {0, 1}
    BY <2>3, <2>4
  <2> QED
    BY <2>1, <2>2, <2>3, <2>5, <2>6
<1>7. ASSUME RecordGranted(q)
      PROVE  SingleUse'
  <2>1. /\ review[q].pc \in {"succeeded", "failed"} /\ review'[q].pc = "idle"
        /\ \A p \in Reviewers \ {q} : review'[p] = review[p]
        /\ \A b \in Actions \ {a} : approval'[b] = approval[b]
        /\ UNCHANGED <<submit, decision, effects>>
    BY <1>0, <1>7 DEF RecordGranted, Consumed, IdleReview
  <2>2. a \in Actions /\ approval[a] = "APPROVED"
    BY <2>1
  <2>3. approval'[a] = "CONSUMED"
    BY <1>0, <1>7, <2>2 DEF RecordGranted, Consumed
  <2> QED
    BY <2>1, <2>2, <2>3
<1> QED
  BY <1>1, <1>2, <1>3, <1>4, <1>5, <1>6, <1>7 DEF ReviewStep

\* Approvals that expire were pending, so no reviewer holds them.
LEMMA ExpiryKeepsSingleUse ==
    ASSUME TypeOK, SingleUse, UNCHANGED <<submit, review, decision, effects>>,
           approval' \in [Actions -> ApprovalStatus],
           \A a \in Actions : \/ approval'[a] = approval[a]
                              \/ approval[a] = "PENDING" /\ approval'[a] = "EXPIRED"
    PROVE  SingleUse'
BY DEF SingleUse, OneDecision, OneReviewerEach, EffectIsPast, Undecided, Executing

LEMMA StepSingleUse == TypeOK /\ TypeOK' /\ SingleUse /\ [Next]_vars => SingleUse'
<1> SUFFICES ASSUME TypeOK, TypeOK', SingleUse, [Next]_vars
             PROVE  SingleUse'
  OBVIOUS
<1>1. ASSUME NEW r \in Runs, CreateRun(r) \/ CompleteRun(r) \/ FailRun(r)
      PROVE  SingleUse'
  BY <1>1, OtherStepsKeepSingleUse
     DEF CreateRun, CompleteRun, FailRun, CloseRun, SingleUseVars
<1>2. ASSUME NEW a \in Actions, SubmitStep(a) \/ LoseSubmit(a)
      PROVE  SingleUse'
  BY <1>2, SubmitKeepsSingleUse, AllowedKeepsSingleUse DEF SubmitStep
<1>3. ASSUME NEW a \in Actions, DeadlinePasses(a)
      PROVE  SingleUse'
  BY <1>3, OtherStepsKeepSingleUse DEF DeadlinePasses, SingleUseVars, dbVars
<1>4. ASSUME NEW a \in Actions, ExpireWait(a)
      PROVE  SingleUse'
  BY <1>4, ExpiryKeepsSingleUse DEF ExpireWait, TypeOK
<1>5. ASSUME NEW s \in Sweepers, NEW scope \in SweepScopes, BeginSweep(s, scope) \/ LoseSweep(s)
      PROVE  SingleUse'
  BY <1>5, OtherStepsKeepSingleUse DEF BeginSweep, LoseSweep, SingleUseVars, dbVars
<1>6. ASSUME NEW s \in Sweepers, CommitSweep(s)
      PROVE  SingleUse'
  BY <1>6, ExpiryKeepsSingleUse DEF CommitSweep, Expirable, TypeOK
<1>7. CASE UNCHANGED vars
  BY <1>7, OtherStepsKeepSingleUse DEF vars, dbVars, SingleUseVars
<1> QED
  BY <1>1, <1>2, <1>3, <1>4, <1>5, <1>6, <1>7, SubmitKeepsSingleUse, ReviewKeepsSingleUse
     DEF Next, LoseSweep, SweepScopes

\* One request at most is about to have an action's effect.
THEOREM SingleUseHolds == Spec => []SingleUse
<1>1. Init => SingleUse
  BY InitSingleUse
<1>2. TypeOK /\ TypeOK' /\ SingleUse /\ [Next]_vars => SingleUse'
  BY StepSingleUse
<1> QED
  BY <1>1, <1>2, TypeCorrect, PTL DEF Spec

\* However many reviewers answer one approval, and whatever dies between two
\* steps, an action reaches the workspace at most once.
THEOREM EffectAtMostOnce == Spec => []AtMostOneEffect
<1>1. SingleUse => AtMostOneEffect
  <2> SUFFICES ASSUME SingleUse, NEW a \in Actions
               PROVE  effects[a] <= 1
    BY DEF AtMostOneEffect
  <2>1. effects[a] = 0 \/ effects[a] = 1
    BY DEF SingleUse, EffectIsPast
  <2> QED
    BY <2>1
<1> QED
  BY <1>1, SingleUseHolds, PTL

\* Of everybody who may resolve an approval one does, and the others change
\* nothing; what is spent was granted, and what was not pending never expires.
THEOREM OneResolution == Spec => ApprovalResolvesOnce
<1> DEFINE A == \A a \in Actions : approval'[a] # approval[a] =>
                  CASE approval[a] = "NONE"     -> approval'[a] = "PENDING"
                    [] approval[a] = "PENDING"  -> approval'[a] \in {"APPROVED", "DENIED", "EXPIRED"}
                    [] approval[a] = "APPROVED" -> approval'[a] = "CONSUMED"
                    [] OTHER                    -> FALSE
<1>1. ASSUME TypeOK, SingleUse, [Next]_vars
      PROVE  [A]_vars
  <2>1. approval \in [Actions -> ApprovalStatus]
    BY <1>1 DEF TypeOK
  <2>2. ASSUME NEW a \in Actions, SubmitStep(a) \/ LoseSubmit(a)
        PROVE  A
    <3>1. CASE CommitHold(a)
      <4>1. approval[a] = "NONE"
        BY <1>1, <3>1 DEF SingleUse, OneDecision, Undecided, CommitHold, CommitDecision
      <4> QED
        BY <2>1, <3>1, <4>1 DEF CommitHold
    <3>2. CASE UNCHANGED approval
      BY <3>2
    <3> QED
      BY <2>2, <3>1, <3>2
         DEF SubmitStep, LoseSubmit, AuditReturns, CommitAllow, CommitDeny, RefuseSubmit,
             DispatchAllowed, RunAllowed, RecordAllowed, dbVars
  <2>3. ASSUME NEW q \in Reviewers, ReviewStep(q) \/ LoseReview(q)
        PROVE  A
    <3>1. CASE ExpireOnResolve(q) \/ Grant(q) \/ DenyHold(q)
      BY <2>1, <3>1 DEF ExpireOnResolve, Grant, DenyHold, Resolvable
    <3>2. CASE RecordGranted(q)
      BY <2>1, <3>2 DEF RecordGranted, Consumed
    <3>3. CASE UNCHANGED approval
      BY <3>3
    <3> QED
      BY <2>3, <3>1, <3>2, <3>3
         DEF ReviewStep, LoseReview, RefuseResolve, DispatchGranted, RunGranted, dbVars
  <2>4. ASSUME NEW a \in Actions, ExpireWait(a)
        PROVE  A
    BY <2>1, <2>4 DEF ExpireWait
  <2>5. ASSUME NEW s \in Sweepers, CommitSweep(s)
        PROVE  A
    BY <2>5 DEF CommitSweep, Expirable
  <2>6. CASE UNCHANGED approval
    BY <2>6
  <2> QED
    BY <1>1, <2>2, <2>3, <2>4, <2>5, <2>6
       DEF Next, CreateRun, CompleteRun, FailRun, CloseRun, BeginSubmit, BeginResolve,
           DeadlinePasses, BeginSweep, LoseSweep, vars, dbVars
<1> QED
  BY <1>1, TypeCorrect, SingleUseHolds, PTL DEF Spec, ApprovalResolvesOnce

-----------------------------------------------------------------------------
(* What appending records does to Logged. *)

\* The records of a concatenation are those of its two parts.
LEMMA ConcatRecords ==
    ASSUME NEW s \in Seq(ChainRecord), NEW t \in Seq(ChainRecord), NEW a, NEW types
    PROVE  Mentions(s \o t, a, types) <=> Mentions(s, a, types) \/ Mentions(t, a, types)
<1>1. /\ Len(s) \in Nat /\ Len(t) \in Nat
      /\ DOMAIN s = 1 .. Len(s) /\ DOMAIN t = 1 .. Len(t)
      /\ DOMAIN (s \o t) = 1 .. Len(s) + Len(t)
  BY ConcatProperties, LenProperties
<1>2. \A i \in 1 .. Len(s) : i \in 1 .. Len(s) + Len(t) /\ (s \o t)[i] = s[i]
  BY <1>1, ConcatProperties
<1>3. \A i \in 1 .. Len(t) : Len(s) + i \in 1 .. Len(s) + Len(t) /\ (s \o t)[Len(s) + i] = t[i]
  BY <1>1, ConcatProperties
<1>4. \A i \in 1 .. Len(s) + Len(t) :
         \/ i \in 1 .. Len(s)
         \/ i - Len(s) \in 1 .. Len(t) /\ Len(s) + (i - Len(s)) = i
  BY <1>1
<1> DEFINE named(rec) == rec.action = a /\ rec.type \in types
<1>5. ASSUME NEW i \in DOMAIN (s \o t), named((s \o t)[i])
      PROVE  (\E j \in DOMAIN s : named(s[j])) \/ (\E j \in DOMAIN t : named(t[j]))
  <2>1. CASE i \in 1 .. Len(s)
    <3>1. named(s[i])
      BY <1>2, <1>5, <2>1
    <3> QED
      BY <1>1, <2>1, <3>1
  <2>2. CASE i - Len(s) \in 1 .. Len(t) /\ Len(s) + (i - Len(s)) = i
    <3>1. (s \o t)[i] = t[i - Len(s)]
      BY <1>3, <2>2
    <3>2. named(t[i - Len(s)])
      BY <1>5, <3>1
    <3> QED
      BY <1>1, <2>2, <3>2
  <2> QED
    BY <1>1, <1>4, <2>1, <2>2
<1>6. ASSUME NEW i \in DOMAIN s, named(s[i])
      PROVE  \E j \in DOMAIN (s \o t) : named((s \o t)[j])
  <2>1. i \in DOMAIN (s \o t) /\ (s \o t)[i] = s[i]
    BY <1>1, <1>2
  <2> QED
    BY <1>6, <2>1
<1>7. ASSUME NEW i \in DOMAIN t, named(t[i])
      PROVE  \E j \in DOMAIN (s \o t) : named((s \o t)[j])
  <2>1. Len(s) + i \in DOMAIN (s \o t) /\ (s \o t)[Len(s) + i] = t[i]
    BY <1>1, <1>3
  <2> QED
    BY <1>7, <2>1
<1> QED
  BY <1>5, <1>6, <1>7 DEF Mentions

\* Records only add to a log.
LEMMA LoggedGrows ==
    ASSUME NEW r, NEW records \in Seq(ChainRecord),
           log \in [Runs -> Seq(ChainRecord)], Record(r, records)
    PROVE  \A x \in Runs : \A a, types :
               Logged(x, a, types)' <=>
                   Logged(x, a, types) \/ (x = r /\ Mentions(records, a, types))
<1> SUFFICES ASSUME NEW x \in Runs, NEW a, NEW types
             PROVE  Logged(x, a, types)' <=>
                        Logged(x, a, types) \/ (x = r /\ Mentions(records, a, types))
  OBVIOUS
<1>1. CASE x = r
  <2>1. log'[x] = log[x] \o records
    BY <1>1 DEF Record
  <2> QED
    BY <1>1, <2>1, ConcatRecords DEF Logged
<1>2. CASE x # r
  <2>1. log'[x] = log[x]
    BY <1>2 DEF Record
  <2> QED
    BY <1>2, <2>1 DEF Logged
<1> QED
  BY <1>1, <1>2

\* What the records of a handler mention.
LEMMA OneMention ==
    ASSUME NEW type, NEW a
    PROVE  \A b, types : Mentions(<<Event(type, a)>>, b, types) <=> b = a /\ type \in types
BY DEF Mentions, Event

LEMMA TwoMentions ==
    ASSUME NEW first, NEW second, NEW a
    PROVE  \A b, types : Mentions(<<Event(first, a), Event(second, a)>>, b, types)
                           <=> b = a /\ (first \in types \/ second \in types)
<1> SUFFICES ASSUME NEW b, NEW types
             PROVE  Mentions(<<Event(first, a), Event(second, a)>>, b, types)
                      <=> b = a /\ (first \in types \/ second \in types)
  OBVIOUS
<1> DEFINE s == <<Event(first, a), Event(second, a)>>
<1>1. /\ DOMAIN s = 1 .. 2
      /\ s[1].action = a /\ s[1].type = first
      /\ s[2].action = a /\ s[2].type = second
  BY DEF Event
<1> HIDE DEF s
<1>2. Mentions(s, b, types) <=> \E i \in 1 .. 2 : s[i].action = b /\ s[i].type \in types
  BY <1>1 DEF Mentions
<1> QED
  BY <1>1, <1>2 DEF s

\* The log keeps what it has ...
LogGrows ==
    \A x \in Runs : \A b, types : Logged(x, b, types) => Logged(x, b, types)'

\* ... and, in most steps, gains no record that an execution finished.
NothingFinishes ==
    \A x \in Runs : \A b : Logged(x, b, TerminalExecutionEvents)' =>
                               Logged(x, b, TerminalExecutionEvents)

LEMMA LogUnchanged ==
    ASSUME log' = log
    PROVE  LogGrows /\ NothingFinishes
BY DEF LogGrows, NothingFinishes, Logged

LEMMA LogOther ==
    ASSUME NEW r, NEW type \in KnownEvents \ TerminalExecutionEvents,
           NEW a \in Actions \cup {NoAction},
           log \in [Runs -> Seq(ChainRecord)], Record(r, <<Event(type, a)>>)
    PROVE  LogGrows /\ NothingFinishes
<1>1. <<Event(type, a)>> \in Seq(ChainRecord)
  BY OneRecord
<1>2. \A b : ~Mentions(<<Event(type, a)>>, b, TerminalExecutionEvents)
  BY OneMention
<1> QED
  BY <1>1, <1>2, LoggedGrows DEF LogGrows, NothingFinishes

\* A sweep logs expiries and nothing else.
LEMMA SweepSays ==
    ASSUME NEW s \in Sweepers, TypeOK, CommitSweep(s)
    PROVE  \A x \in Runs : \A b, types :
             /\ Logged(x, b, types) => Logged(x, b, types)'
             /\ "APPROVAL_EXPIRED" \notin types /\ Logged(x, b, types)' => Logged(x, b, types)
<1> DEFINE of(r) == {a \in Expirable(s) : actionRun[a] = r}
<1>0. \A r \in Runs : of(r) \in SUBSET Actions /\ log[r] \in Seq(ChainRecord)
  BY DEF TypeOK, Expirable
<1>1. PICK listing :
        /\ \A r \in Runs : listing[r] \in Listings(of(r))
        /\ log' = [r \in Runs |-> log[r] \o ExpiryRecords(listing[r])]
  BY DEF CommitSweep
<1>2. ASSUME NEW r \in Runs
      PROVE  /\ ExpiryRecords(listing[r]) \in Seq(ChainRecord)
             /\ \A b, types : Mentions(ExpiryRecords(listing[r]), b, types) =>
                                  "APPROVAL_EXPIRED" \in types
  <2>1. ExpiryRecords(listing[r]) \in Seq(ChainRecord)
    BY <1>0, <1>1, ExpiryType
  <2>2. \A b, types : Mentions(ExpiryRecords(listing[r]), b, types) =>
                          "APPROVAL_EXPIRED" \in types
    BY DEF Mentions, ExpiryRecords, Event
  <2> QED
    BY <2>1, <2>2
<1>3. ASSUME NEW r \in Runs
      PROVE  \A b, types : Logged(r, b, types)' <=>
               Logged(r, b, types) \/ Mentions(ExpiryRecords(listing[r]), b, types)
  <2>1. log'[r] = log[r] \o ExpiryRecords(listing[r])
    BY <1>1
  <2> QED
    BY <1>0, <1>2, <2>1, ConcatRecords DEF Logged
<1> QED
  BY <1>2, <1>3

LEMMA LogExpiries ==
    ASSUME NEW s \in Sweepers, TypeOK, CommitSweep(s)
    PROVE  LogGrows /\ NothingFinishes
<1>1. "APPROVAL_EXPIRED" \notin TerminalExecutionEvents
  BY DEF TerminalExecutionEvents
<1> QED
  BY <1>1, SweepSays DEF LogGrows, NothingFinishes

-----------------------------------------------------------------------------
(* Closure is inductive. *)

ClosureVars == <<runStatus, log, actionRun, decision, approval, submit>>

\* Initially no run exists.
LEMMA InitClosure == Init => Closure
BY LifecycleAssumption
   DEF Init, Closure, OneOwner, StartIsLogged, FinishIsLast, ClosedRunIsQuiet, ExecutingIn,
       NewSubmit, Executing, TerminalStatus, Logged, Mentions

\* Steps that concern no run, action or log, of requests that do not start
\* executing.
LEMMA OtherStepsKeepClosure ==
    ASSUME Closure, UNCHANGED ClosureVars,
           \A q \in Reviewers : review'[q].pc \in Executing =>
               review[q].pc \in Executing /\ review'[q].action = review[q].action
    PROVE  Closure'
BY DEF Closure, OneOwner, StartIsLogged, FinishIsLast, ClosedRunIsQuiet, ExecutingIn,
       ClosureVars, Logged

\* A submission before its transaction, or its death.
LEMMA SubmitKeepsClosure ==
    ASSUME TypeOK, SingleUse, Closure, NEW a \in Actions,
           \/ \E r \in Runs : BeginSubmit(a, r)
           \/ AuditReturns(a) \/ RefuseSubmit(a) \/ LoseSubmit(a)
           \/ DispatchAllowed(a) \/ RunAllowed(a)
    PROVE  Closure'
<1> USE DEF Closure, OneOwner, StartIsLogged, FinishIsLast, ClosedRunIsQuiet, ExecutingIn,
            Executing, dbVars
<1>1. UNCHANGED <<runStatus, log, actionRun, decision, approval, review>>
  BY DEF BeginSubmit, AuditReturns, RefuseSubmit, LoseSubmit, DispatchAllowed, RunAllowed
<1>2. \A b \in Actions \ {a} : submit'[b] = submit[b]
  BY DEF BeginSubmit, AuditReturns, RefuseSubmit, LoseSubmit, DispatchAllowed, RunAllowed, TypeOK
<1>3. /\ submit'[a].pc \in Executing =>
           submit[a].pc \in Executing /\ submit'[a].run = submit[a].run
      /\ submit'[a].pc \notin {"new", "done"} => submit'[a].run \in Runs
  <2>0. submit \in [Actions -> SubmitRequest]
    BY DEF TypeOK
  <2>1. CASE \E r \in Runs : BeginSubmit(a, r)
    <3>1. submit'[a].pc \in {"audit", "decided"} /\ submit'[a].run \in Runs
      BY <2>0, <2>1 DEF BeginSubmit
    <3> QED
      BY <3>1
  <2>2. CASE AuditReturns(a)
    <3>1. PICK verdict \in Verdict :
             submit' = [submit EXCEPT ![a].pc      = "decided",
                                      ![a].verdict = verdict,
                                      ![a].outcome = Escalate(@, verdict)]
      BY <2>2 DEF AuditReturns
    <3>2. submit'[a].pc = "decided" /\ submit'[a].run = submit[a].run
      BY <2>0, <3>1 DEF SubmitRequest
    <3>3. submit[a].pc = "audit"
      BY <2>2 DEF AuditReturns
    <3> QED
      BY <3>2, <3>3
  <2>3. CASE RefuseSubmit(a) \/ LoseSubmit(a)
    <3>1. submit'[a].pc = "done"
      BY <2>0, <2>3 DEF RefuseSubmit, LoseSubmit, DoneSubmit, NewSubmit
    <3> QED
      BY <3>1
  <2>4. CASE DispatchAllowed(a)
    <3>1. submit[a].pc = "dispatch" /\ submit'[a].run = submit[a].run
      BY <2>0, <2>4 DEF DispatchAllowed, SubmitRequest
    <3> QED
      BY <3>1
  <2>5. CASE RunAllowed(a)
    <3>1. submit[a].pc = "running" /\ submit'[a].run = submit[a].run
      BY <2>0, <2>5 DEF RunAllowed, SubmitRequest
    <3> QED
      BY <3>1
  <2> QED
    BY <2>1, <2>2, <2>3, <2>4, <2>5
<1>4. \A r, b, types : Logged(r, b, types)' <=> Logged(r, b, types)
  BY <1>1 DEF Logged
<1> QED
  BY <1>1, <1>2, <1>3, <1>4

\* The transaction of a submission logs its request, its audit and what it
\* decides, of its own action in its own run.
LEMMA CommitSays ==
    ASSUME TypeOK, NEW a \in Actions, NEW outcome, NEW records \in Seq(ChainRecord),
           CommitDecision(a, outcome, records)
    PROVE  \A x \in Runs : \A b, types :
             /\ Logged(x, b, types) => Logged(x, b, types)'
             /\ x = submit[a].run /\ Mentions(records, b, types) => Logged(x, b, types)'
             /\ Logged(x, b, types)' =>
                  \/ Logged(x, b, types)
                  \/ Mentions(records, b, types)
                  \/ b = a /\ {"ACTION_REQUESTED", "REASONING_AUDIT_FAILED",
                               "REASONING_AUDIT_COMPLETED"} \cap types # {}
<1> DEFINE requested == <<Event("ACTION_REQUESTED", a)>>
           all == requested \o AuditRecord(a) \o records
<1>1. requested \in Seq(ChainRecord) /\ AuditRecord(a) \in Seq(ChainRecord)
  BY OneRecord, EmptySeq DEF AuditRecord, KnownEvents
<1>2. requested \o AuditRecord(a) \in Seq(ChainRecord) /\ all \in Seq(ChainRecord)
  BY <1>1, ConcatProperties
<1>3. \A b, types : Mentions(requested, b, types) => b = a /\ "ACTION_REQUESTED" \in types
  BY OneMention
<1>4. \A b, types : Mentions(AuditRecord(a), b, types) =>
          b = a /\ ("REASONING_AUDIT_FAILED" \in types \/ "REASONING_AUDIT_COMPLETED" \in types)
  <2>1. \A b, types : ~Mentions(<<>>, b, types)
    BY DEF Mentions
  <2>2. \A b, types :
          /\ Mentions(<<Event("REASONING_AUDIT_FAILED", a)>>, b, types) <=>
               b = a /\ "REASONING_AUDIT_FAILED" \in types
          /\ Mentions(<<Event("REASONING_AUDIT_COMPLETED", a)>>, b, types) <=>
               b = a /\ "REASONING_AUDIT_COMPLETED" \in types
    BY OneMention
  <2>3. AuditRecord(a) \in {<<>>, <<Event("REASONING_AUDIT_FAILED", a)>>,
                            <<Event("REASONING_AUDIT_COMPLETED", a)>>}
    BY DEF AuditRecord
  <2> QED
    BY <2>1, <2>2, <2>3
<1>5. \A b, types : Mentions(all, b, types) <=>
          \/ Mentions(requested, b, types)
          \/ Mentions(AuditRecord(a), b, types)
          \/ Mentions(records, b, types)
  BY <1>1, <1>2, ConcatRecords
<1>6. log \in [Runs -> Seq(ChainRecord)] /\ Record(submit[a].run, all)
  BY DEF TypeOK, CommitDecision
<1> HIDE DEF all, requested
<1>7. \A x \in Runs : \A b, types :
          Logged(x, b, types)' <=>
              Logged(x, b, types) \/ (x = submit[a].run /\ Mentions(all, b, types))
  BY <1>2, <1>6, LoggedGrows
<1> QED
  BY <1>3, <1>4, <1>5, <1>7

\* What a transaction decides is logged, and finishes nothing.
LEMMA CommitLog ==
    ASSUME TypeOK, NEW a \in Actions, NEW outcome, NEW records \in Seq(ChainRecord),
           CommitDecision(a, outcome, records),
           \A b : ~Mentions(records, b, TerminalExecutionEvents)
    PROVE  /\ LogGrows /\ NothingFinishes
           /\ \A r \in Runs : \A types :
                r = submit[a].run /\ Mentions(records, a, types) => Logged(r, a, types)'
<1>1. {"ACTION_REQUESTED", "REASONING_AUDIT_FAILED", "REASONING_AUDIT_COMPLETED"}
         \cap TerminalExecutionEvents = {}
  BY DEF TerminalExecutionEvents
<1>2. NothingFinishes
  BY <1>1, CommitSays DEF NothingFinishes
<1>3. LogGrows
  BY CommitSays DEF LogGrows
<1> QED
  BY <1>2, <1>3, CommitSays

\* The transaction of a submission.
LEMMA CommitKeepsClosure ==
    ASSUME TypeOK, TypeOK', SingleUse, Closure, NEW a \in Actions,
           CommitAllow(a) \/ CommitHold(a) \/ CommitDeny(a)
    PROVE  Closure'
<1> DEFINE r == submit[a].run
<1>0. /\ submit \in [Actions -> SubmitRequest]
      /\ actionRun \in [Actions -> Runs \cup {NoRun}]
      /\ decision \in [Actions -> PolicyOutcome \cup {"NONE"}]
      /\ approval \in [Actions -> ApprovalStatus]
      /\ runStatus \in [Runs -> RunStatus]
  BY DEF TypeOK
<1>1. /\ submit[a].pc = "decided" /\ r \in Runs /\ runStatus[r] \in LiveStatus
      /\ decision[a] = "NONE" /\ actionRun[a] = NoRun /\ approval[a] = "NONE"
      /\ \A x \in Runs : ~Logged(x, a, TerminalExecutionEvents)
  BY DEF CommitAllow, CommitHold, CommitDeny, CommitDecision, StillLive, Closure, OneOwner,
         FinishIsLast, SingleUse, OneDecision, Undecided
<1>2. /\ actionRun'[a] = r /\ review' = review
      /\ \A b \in Actions \ {a} : /\ submit'[b] = submit[b]
                                  /\ actionRun'[b] = actionRun[b]
                                  /\ decision'[b] = decision[b]
                                  /\ approval'[b] = approval[b]
      /\ \A x \in Runs : runStatus'[x] = runStatus[x] \/ x = r
      /\ runStatus'[r] \in LiveStatus
  BY <1>0, <1>1 DEF CommitAllow, CommitHold, CommitDeny, CommitDecision, LiveStatus
<1>3. LogGrows /\ NothingFinishes
  <2>1. CASE CommitAllow(a)
    <3>1. AllowRecords(a) \in Seq(ChainRecord)
      BY TwoRecords DEF AllowRecords, KnownEvents, DecisionEvents, ExecutionEvents
    <3>2. \A b : ~Mentions(AllowRecords(a), b, TerminalExecutionEvents)
      BY TwoMentions DEF AllowRecords, TerminalExecutionEvents
    <3> QED
      BY <2>1, <3>1, <3>2, CommitLog DEF CommitAllow
  <2>2. CASE CommitHold(a)
    <3> DEFINE records == <<Event("POLICY_HELD", a), Event("APPROVAL_REQUESTED", a)>>
    <3>1. records \in Seq(ChainRecord)
      BY TwoRecords DEF KnownEvents, DecisionEvents
    <3>2. \A b : ~Mentions(records, b, TerminalExecutionEvents)
      BY TwoMentions DEF TerminalExecutionEvents
    <3> QED
      BY <2>2, <3>1, <3>2, CommitLog DEF CommitHold
  <2>3. CASE CommitDeny(a)
    <3>1. <<Event("POLICY_DENIED", a)>> \in Seq(ChainRecord)
      BY OneRecord DEF KnownEvents, DecisionEvents
    <3>2. \A b : ~Mentions(<<Event("POLICY_DENIED", a)>>, b, TerminalExecutionEvents)
      BY OneMention DEF TerminalExecutionEvents
    <3> QED
      BY <2>3, <3>1, <3>2, CommitLog DEF CommitDeny
  <2> QED
    BY <2>1, <2>2, <2>3
<1>4. \/ /\ decision'[a] = "ALLOW" /\ approval'[a] = "NONE"
         /\ submit'[a].pc = "dispatch" /\ submit'[a].run = r
         /\ Logged(actionRun[a], a, {"EXECUTION_STARTED"})'
         /\ Logged(actionRun[a], a, {"POLICY_ALLOWED", "APPROVAL_GRANTED"})'
      \/ /\ decision'[a] \in {"HOLD", "DENY"} /\ approval'[a] \in {"NONE", "PENDING"}
         /\ submit'[a].pc = "done"
  <2>1. CASE CommitAllow(a)
    <3>1. AllowRecords(a) \in Seq(ChainRecord)
      BY TwoRecords DEF AllowRecords, KnownEvents, DecisionEvents, ExecutionEvents
    <3>2. /\ \A b : ~Mentions(AllowRecords(a), b, TerminalExecutionEvents)
          /\ Mentions(AllowRecords(a), a, {"EXECUTION_STARTED"})
          /\ Mentions(AllowRecords(a), a, {"POLICY_ALLOWED", "APPROVAL_GRANTED"})
      BY TwoMentions DEF AllowRecords, TerminalExecutionEvents
    <3>3. ASSUME NEW x \in Runs, x = r
          PROVE  /\ Logged(x, a, {"EXECUTION_STARTED"})'
                 /\ Logged(x, a, {"POLICY_ALLOWED", "APPROVAL_GRANTED"})'
      BY <2>1, <3>1, <3>2, <3>3, CommitLog DEF CommitAllow
    <3>4. /\ Logged(actionRun[a], a, {"EXECUTION_STARTED"})'
          /\ Logged(actionRun[a], a, {"POLICY_ALLOWED", "APPROVAL_GRANTED"})'
      BY <1>1, <1>2, <3>3
    <3> QED
      BY <1>0, <1>1, <2>1, <3>4 DEF CommitAllow, CommitDecision, SubmitRequest
  <2>2. CASE CommitHold(a)
    BY <1>0, <2>2 DEF CommitHold, CommitDecision, DoneSubmit, NewSubmit
  <2>3. CASE CommitDeny(a)
    BY <1>0, <1>1, <2>3 DEF CommitDeny, CommitDecision, DoneSubmit, NewSubmit
  <2> QED
    BY <2>1, <2>2, <2>3
<1>5. OneOwner'
  BY <1>1, <1>2, <1>4, LifecycleAssumption DEF Closure, OneOwner, Executing
<1>6. StartIsLogged'
  <2>1. ASSUME NEW b \in Actions \ {a}
        PROVE  actionRun[b] \in Runs \/ (decision[b] = "NONE" /\ approval[b] = "NONE")
    <3>1. actionRun[b] = NoRun => decision[b] = "NONE"
      BY DEF Closure, OneOwner
    <3>2. decision[b] = "NONE" => approval[b] = "NONE"
      BY DEF SingleUse, OneDecision
    <3> QED
      BY <1>0, <3>1, <3>2
  <2> QED
    BY <1>1, <1>2, <1>3, <1>4, <2>1 DEF Closure, StartIsLogged, LogGrows
<1>7. FinishIsLast'
  <2>1. \A b \in Actions \ {a}, x \in Runs : Logged(x, b, TerminalExecutionEvents)' =>
           decision[b] # "NONE" /\ submit[b].pc \notin Executing
    BY <1>3 DEF Closure, FinishIsLast, NothingFinishes
  <2>2. \A x \in Runs : ~Logged(x, a, TerminalExecutionEvents)'
    BY <1>1, <1>3 DEF NothingFinishes
  <2> QED
    BY <1>2, <2>1, <2>2 DEF FinishIsLast
<1>8. ClosedRunIsQuiet'
  <2>1. \A x \in Runs : runStatus'[x] \in TerminalStatus => runStatus[x] \in TerminalStatus /\ x # r
    BY <1>1, <1>2 DEF LiveStatus, TerminalStatus
  <2>2. \A q \in Reviewers : review[q].pc \in Executing => review[q].action \in Actions
    BY DEF SingleUse, OneReviewerEach, Executing
  <2> QED
    BY <1>2, <1>4, <2>1, <2>2 DEF Closure, ClosedRunIsQuiet, ExecutingIn, Executing
<1> QED
  BY <1>5, <1>6, <1>7, <1>8 DEF Closure

\* Releasing a run neither closes nor reopens one.
LEMMA ReleasedKeepsClosed ==
    ASSUME NEW r, NEW ap, NEW statuses \in {LiveStatus, {"WAITING_FOR_APPROVAL"}},
           runStatus \in [Runs -> RunStatus]
    PROVE  \A x \in Runs : /\ Released(r, ap, statuses)[x] \in TerminalStatus
                                <=> runStatus[x] \in TerminalStatus
                           /\ runStatus[x] \in TerminalStatus =>
                                Released(r, ap, statuses)[x] = runStatus[x]
BY DEF Released, LiveStatus, TerminalStatus

\* An action without a run has neither a decision nor an approval.
LEMMA StoredHasRun ==
    ASSUME TypeOK, SingleUse, Closure, NEW a \in Actions
    PROVE  \/ actionRun[a] \in Runs
           \/ decision[a] = "NONE" /\ approval[a] = "NONE"
<1>1. actionRun[a] = NoRun => decision[a] = "NONE"
  BY DEF Closure, OneOwner
<1>2. decision[a] = "NONE" => approval[a] = "NONE"
  BY DEF SingleUse, OneDecision
<1> QED
  BY <1>1, <1>2 DEF TypeOK

\* Steps that only close approvals, release runs and record neither a start
\* nor a finish.
LEMMA ExpiryKeepsClosure ==
    ASSUME TypeOK, SingleUse, Closure, LogGrows, NothingFinishes,
           UNCHANGED <<actionRun, decision, submit>>,
           \A a \in Actions : approval'[a] = approval[a] \/ approval'[a] \notin {"APPROVED", "CONSUMED"},
           \A r \in Runs : runStatus'[r] \in TerminalStatus => runStatus[r] \in TerminalStatus,
           \A q \in Reviewers : review'[q].pc \in Executing =>
               review[q].pc \in Executing /\ review'[q].action = review[q].action
    PROVE  Closure'
<1>1. OneOwner'
  BY DEF Closure, OneOwner
<1>2. StartIsLogged'
  <2>1. \A a \in Actions : \/ actionRun[a] \in Runs
                           \/ decision[a] = "NONE" /\ approval[a] = "NONE"
    BY StoredHasRun
  <2> QED
    BY <2>1 DEF Closure, StartIsLogged, LogGrows
<1>3. FinishIsLast'
  BY DEF Closure, FinishIsLast, NothingFinishes
<1>4. ClosedRunIsQuiet'
  BY DEF Closure, ClosedRunIsQuiet, ExecutingIn
<1> QED
  BY <1>1, <1>2, <1>3, <1>4 DEF Closure

\* The end of a directly allowed execution: the only step that finishes it,
\* and the submission stops executing with it.
LEMMA RecordAllowedKeepsClosure ==
    ASSUME TypeOK, SingleUse, Closure, NEW a \in Actions, RecordAllowed(a)
    PROVE  Closure'
<1>1. /\ submit[a].pc \in Executing /\ decision[a] = "ALLOW"
      /\ submit'[a].pc = "done"
      /\ \A b \in Actions \ {a} : submit'[b] = submit[b]
      /\ UNCHANGED <<runStatus, actionRun, decision, approval, review>>
  BY DEF RecordAllowed, TypeOK, DoneSubmit, NewSubmit, SingleUse, OneDecision, Executing
<1>2. <<ExecutionRecord(a, submit[a].pc)>> \in Seq(ChainRecord)
  BY ExecutionType
<1>3. \A x \in Runs : \A b, types :
          Logged(x, b, types)' <=>
            \/ Logged(x, b, types)
            \/ x = submit[a].run /\ Mentions(<<ExecutionRecord(a, submit[a].pc)>>, b, types)
  BY <1>2, LoggedGrows DEF RecordAllowed, TypeOK
<1>4. \A b, types : Mentions(<<ExecutionRecord(a, submit[a].pc)>>, b, types) => b = a
  BY OneMention DEF ExecutionRecord
<1>5. OneOwner'
  BY <1>1 DEF Closure, OneOwner, Executing
<1>6. StartIsLogged'
  <2>1. \A b \in Actions : \/ actionRun[b] \in Runs
                           \/ decision[b] = "NONE" /\ approval[b] = "NONE"
    BY StoredHasRun
  <2> QED
    BY <1>1, <1>3, <2>1 DEF Closure, StartIsLogged
<1>7. FinishIsLast'
  BY <1>1, <1>3, <1>4 DEF Closure, FinishIsLast, Executing
<1>8. ClosedRunIsQuiet'
  BY <1>1 DEF Closure, ClosedRunIsQuiet, ExecutingIn, Executing
<1> QED
  BY <1>5, <1>6, <1>7, <1>8 DEF Closure

\* Closing is refused while the log or an approval shows an execution.
LEMMA CloseKeepsClosure ==
    ASSUME TypeOK, SingleUse, Closure, NEW r \in Runs, CompleteRun(r) \/ FailRun(r)
    PROVE  Closure'
<1>1. /\ ~HasInFlight(r)
      /\ \A x \in Runs \ {r} : runStatus'[x] = runStatus[x]
      /\ UNCHANGED <<actionRun, decision, approval, submit, review>>
  BY DEF CompleteRun, FailRun, CloseRun, TypeOK
<1>2. LogGrows /\ NothingFinishes
  BY LogOther DEF CompleteRun, FailRun, CloseRun, TypeOK, KnownEvents, RunTerminalEvents,
                  TerminalExecutionEvents
<1>3. OneOwner'
  BY <1>1 DEF Closure, OneOwner
<1>4. StartIsLogged'
  <2>1. \A b \in Actions : \/ actionRun[b] \in Runs
                           \/ decision[b] = "NONE" /\ approval[b] = "NONE"
    BY StoredHasRun
  <2> QED
    BY <1>1, <1>2, <2>1 DEF Closure, StartIsLogged, LogGrows
<1>5. FinishIsLast'
  BY <1>1, <1>2 DEF Closure, FinishIsLast, NothingFinishes
<1>6. ClosedRunIsQuiet'
  <2>1. \A a \in Actions : ~(submit[a].run = r /\ submit[a].pc \in Executing)
    <3> SUFFICES ASSUME NEW a \in Actions, submit[a].run = r, submit[a].pc \in Executing
                 PROVE  FALSE
      OBVIOUS
    <3>1. actionRun[a] = r /\ decision[a] = "ALLOW"
      BY DEF Closure, OneOwner, SingleUse, OneDecision
    <3>2. Logged(r, a, {"EXECUTION_STARTED"}) /\ ~Logged(r, a, TerminalExecutionEvents)
      BY <3>1 DEF Closure, StartIsLogged, FinishIsLast
    <3> QED
      BY <1>1, <3>2 DEF HasInFlight, InFlight
  <2>2. \A a \in Actions : actionRun[a] = r => approval[a] # "APPROVED"
    BY <1>1 DEF HasInFlight
  <2>3. \A q \in Reviewers : review[q].pc \in Executing =>
           review[q].action \in Actions /\ approval[review[q].action] = "APPROVED"
    BY DEF SingleUse, OneReviewerEach, Executing
  <2> QED
    BY <1>1, <2>1, <2>2, <2>3 DEF Closure, ClosedRunIsQuiet, ExecutingIn
<1> QED
  BY <1>3, <1>4, <1>5, <1>6 DEF Closure

\* A grant commits its start with it, in a run that is still open.
LEMMA GrantKeepsClosure ==
    ASSUME TypeOK, SingleUse, Closure, NEW q \in Reviewers, Grant(q)
    PROVE  Closure'
<1> DEFINE a == review[q].action
           records == <<Event("APPROVAL_GRANTED", a), Event("EXECUTION_STARTED", a)>>
<1>0. a \in Actions
  BY DEF Grant, SingleUse, OneReviewerEach
<1>1. /\ approval[a] = "PENDING" /\ approval'[a] = "APPROVED"
      /\ runStatus[actionRun[a]] \in LiveStatus
      /\ \A b \in Actions \ {a} : approval'[b] = approval[b]
      /\ \A p \in Reviewers \ {q} : review'[p] = review[p]
      /\ review'[q].action = a
      /\ UNCHANGED <<runStatus, actionRun, decision, submit>>
  BY <1>0 DEF Grant, Resolvable, TypeOK, ReviewRequest
<1>2. actionRun[a] \in Runs
  BY <1>0, <1>1, StoredHasRun
<1>3. records \in Seq(ChainRecord)
  BY <1>0, TwoRecords DEF KnownEvents, ExecutionEvents
<1>4. /\ \A b : ~Mentions(records, b, TerminalExecutionEvents)
      /\ Mentions(records, a, {"EXECUTION_STARTED"})
      /\ Mentions(records, a, {"POLICY_ALLOWED", "APPROVAL_GRANTED"})
  BY TwoMentions DEF TerminalExecutionEvents
<1>5. \A x \in Runs : \A b, types :
          Logged(x, b, types)' <=>
              Logged(x, b, types) \/ (x = actionRun[a] /\ Mentions(records, b, types))
  BY <1>3, LoggedGrows DEF Grant, TypeOK
<1> HIDE DEF records
<1>6. LogGrows /\ NothingFinishes
  BY <1>4, <1>5 DEF LogGrows, NothingFinishes
<1>7. ASSUME NEW x \in Runs, NEW b \in Actions, x = actionRun[a], b = a
      PROVE  /\ Logged(x, b, {"EXECUTION_STARTED"})'
             /\ Logged(x, b, {"POLICY_ALLOWED", "APPROVAL_GRANTED"})'
  BY <1>4, <1>5, <1>7
<1>8. OneOwner'
  BY <1>1 DEF Closure, OneOwner
<1>9. StartIsLogged'
  <2>1. \A b \in Actions : \/ actionRun[b] \in Runs
                           \/ decision[b] = "NONE" /\ approval[b] = "NONE"
    BY StoredHasRun
  <2> HIDE DEF a
  <2>2. \A b \in Actions \ {a} :
           /\ decision'[b] = "ALLOW" \/ approval'[b] \in {"APPROVED", "CONSUMED"} =>
                /\ Logged(actionRun[b], b, {"EXECUTION_STARTED"})
                /\ Logged(actionRun[b], b, {"POLICY_ALLOWED", "APPROVAL_GRANTED"})
    BY <1>1 DEF Closure, StartIsLogged
  <2>3. ASSUME NEW b \in Actions, b # a,
               decision'[b] = "ALLOW" \/ approval'[b] \in {"APPROVED", "CONSUMED"}
        PROVE  /\ Logged(actionRun[b], b, {"EXECUTION_STARTED"})'
               /\ Logged(actionRun[b], b, {"POLICY_ALLOWED", "APPROVAL_GRANTED"})'
    BY <1>1, <1>6, <2>1, <2>2, <2>3 DEF LogGrows
  <2>4. ASSUME NEW b \in Actions, b = a
        PROVE  /\ Logged(actionRun[b], b, {"EXECUTION_STARTED"})'
               /\ Logged(actionRun[b], b, {"POLICY_ALLOWED", "APPROVAL_GRANTED"})'
    <3>1. PICK x \in Runs : x = actionRun[a]
      BY <1>2
    <3>2. /\ Logged(x, b, {"EXECUTION_STARTED"})'
          /\ Logged(x, b, {"POLICY_ALLOWED", "APPROVAL_GRANTED"})'
      BY <1>7, <2>4, <3>1
    <3>3. actionRun'[b] = x
      BY <1>1, <2>4, <3>1
    <3> QED
      BY <3>2, <3>3
  <2> QED
    BY <2>3, <2>4 DEF StartIsLogged
<1>10. FinishIsLast'
  BY <1>1, <1>6 DEF Closure, FinishIsLast, NothingFinishes
<1>11. ClosedRunIsQuiet'
  <2>1. runStatus[actionRun[a]] \notin TerminalStatus
    BY <1>1 DEF LiveStatus, TerminalStatus
  <2> QED
    BY <1>1, <2>1 DEF Closure, ClosedRunIsQuiet, ExecutingIn
<1> QED
  BY <1>8, <1>9, <1>10, <1>11 DEF Closure

\* The end of a granted execution: the approval is spent with it.
LEMMA RecordGrantedKeepsClosure ==
    ASSUME TypeOK, SingleUse, Closure, NEW q \in Reviewers, RecordGranted(q)
    PROVE  Closure'
<1> DEFINE a == review[q].action
           records == <<ExecutionRecord(a, review[q].pc)>>
<1>0. a \in Actions /\ approval[a] = "APPROVED" /\ decision[a] = "HOLD"
  BY DEF RecordGranted, SingleUse, OneReviewerEach, OneDecision, Executing
<1>1. /\ approval'[a] = "CONSUMED"
      /\ \A b \in Actions \ {a} : approval'[b] = approval[b]
      /\ \A p \in Reviewers \ {q} : review'[p] = review[p]
      /\ review'[q].pc = "idle"
      /\ UNCHANGED <<actionRun, decision, submit>>
  BY <1>0 DEF RecordGranted, Consumed, TypeOK, IdleReview
<1>2. \A x \in Runs : runStatus'[x] \in TerminalStatus => runStatus[x] \in TerminalStatus
  BY ReleasedKeepsClosed DEF RecordGranted, TypeOK
<1>3. records \in Seq(ChainRecord)
  BY <1>0, ExecutionType
<1>4. \A b, types : Mentions(records, b, types) => b = a
  BY OneMention DEF ExecutionRecord
<1>5. \A x \in Runs : \A b, types :
          Logged(x, b, types)' <=>
              Logged(x, b, types) \/ (x = actionRun[a] /\ Mentions(records, b, types))
  BY <1>3, LoggedGrows DEF RecordGranted, TypeOK
<1> HIDE DEF records
<1>6. LogGrows
  BY <1>5 DEF LogGrows
<1>7. OneOwner'
  BY <1>1 DEF Closure, OneOwner
<1>8. StartIsLogged'
  <2>1. \A b \in Actions : \/ actionRun[b] \in Runs
                           \/ decision[b] = "NONE" /\ approval[b] = "NONE"
    BY StoredHasRun
  <2>2. \A b \in Actions : approval'[b] \in {"APPROVED", "CONSUMED"} =>
                               approval[b] \in {"APPROVED", "CONSUMED"}
    BY <1>0, <1>1
  <2> QED
    BY <1>1, <1>6, <2>1, <2>2 DEF Closure, StartIsLogged, LogGrows
<1>9. FinishIsLast'
  <2>1. submit[a].pc \notin Executing
    BY <1>0 DEF SingleUse, OneDecision
  <2> QED
    BY <1>0, <1>1, <1>4, <1>5, <2>1 DEF Closure, FinishIsLast
<1>10. ClosedRunIsQuiet'
  BY <1>0, <1>1, <1>2 DEF Closure, ClosedRunIsQuiet, ExecutingIn, Executing
<1> QED
  BY <1>7, <1>8, <1>9, <1>10 DEF Closure

\* The other steps of a review.
LEMMA ReviewKeepsClosure ==
    ASSUME TypeOK, SingleUse, Closure, NEW q \in Reviewers
    PROVE  /\ \A a \in Actions : BeginResolve(q, a) => Closure'
           /\ ReviewStep(q) \/ LoseReview(q) => Closure'
<1>0. review \in [Reviewers -> ReviewRequest]
  BY DEF TypeOK
<1>1. ASSUME \/ \E a \in Actions : BeginResolve(q, a)
             \/ RefuseResolve(q) \/ LoseReview(q) \/ DispatchGranted(q) \/ RunGranted(q)
      PROVE  Closure'
  <2>1. UNCHANGED ClosureVars
    BY <1>1 DEF BeginResolve, RefuseResolve, LoseReview, DispatchGranted, RunGranted,
                ClosureVars, dbVars
  <2>2. /\ \A p \in Reviewers \ {q} : review'[p] = review[p]
        /\ review'[q].pc \in Executing =>
             review[q].pc \in Executing /\ review'[q].action = review[q].action
    <3>1. CASE \E a \in Actions : BeginResolve(q, a)
      BY <1>0, <3>1 DEF BeginResolve, Executing
    <3>2. CASE RefuseResolve(q) \/ LoseReview(q)
      BY <1>0, <3>2 DEF RefuseResolve, LoseReview, IdleReview, Executing
    <3>3. CASE DispatchGranted(q)
      BY <1>0, <3>3 DEF DispatchGranted, ReviewRequest, Executing
    <3>4. CASE RunGranted(q)
      BY <1>0, <3>4 DEF RunGranted, ReviewRequest, Executing
    <3> QED
      BY <1>1, <3>1, <3>2, <3>3, <3>4
  <2> QED
    BY <2>1, <2>2, OtherStepsKeepClosure
<1>2. ASSUME ExpireOnResolve(q) \/ DenyHold(q)
      PROVE  Closure'
  <2> DEFINE a == review[q].action
  <2>1. /\ \A b \in Actions : approval'[b] \in {approval[b], "EXPIRED", "DENIED"}
        /\ UNCHANGED <<actionRun, decision, submit>>
        /\ \A p \in Reviewers \ {q} : review'[p] = review[p]
        /\ review'[q].pc = "idle"
    BY <1>0, <1>2 DEF ExpireOnResolve, DenyHold, TypeOK, IdleReview
  <2>2. \A r \in Runs : runStatus'[r] \in TerminalStatus => runStatus[r] \in TerminalStatus
    BY <1>2, ReleasedKeepsClosed DEF ExpireOnResolve, DenyHold, TypeOK
  <2>3. a \in Actions
    BY <1>2 DEF ExpireOnResolve, DenyHold, SingleUse, OneReviewerEach
  <2>4. LogGrows /\ NothingFinishes
    <3>1. CASE ExpireOnResolve(q)
      BY <2>3, <3>1, LogOther DEF ExpireOnResolve, TypeOK, KnownEvents, ApprovalClosedEvents,
                                  TerminalExecutionEvents
    <3>2. CASE DenyHold(q)
      BY <2>3, <3>2, LogOther DEF DenyHold, TypeOK, KnownEvents, ApprovalClosedEvents,
                                  TerminalExecutionEvents
    <3> QED
      BY <1>2, <3>1, <3>2
  <2> QED
    BY <2>1, <2>2, <2>4, ExpiryKeepsClosure DEF Executing
<1> QED
  BY <1>1, <1>2, GrantKeepsClosure, RecordGrantedKeepsClosure DEF ReviewStep

LEMMA StepClosure == TypeOK /\ TypeOK' /\ SingleUse /\ Closure /\ [Next]_vars => Closure'
<1> SUFFICES ASSUME TypeOK, TypeOK', SingleUse, Closure, [Next]_vars
             PROVE  Closure'
  OBVIOUS
<1>1. ASSUME NEW r \in Runs, CreateRun(r)
      PROVE  Closure'
  <2>1. LogGrows /\ NothingFinishes
    BY <1>1, LogOther DEF CreateRun, TypeOK, KnownEvents, TerminalExecutionEvents
  <2>2. \A x \in Runs : runStatus'[x] \in TerminalStatus => runStatus[x] \in TerminalStatus
    BY <1>1 DEF CreateRun, TypeOK, TerminalStatus
  <2> QED
    BY <1>1, <2>1, <2>2, ExpiryKeepsClosure DEF CreateRun
<1>2. ASSUME NEW a \in Actions, SubmitStep(a) \/ LoseSubmit(a)
      PROVE  Closure'
  BY <1>2, SubmitKeepsClosure, CommitKeepsClosure, RecordAllowedKeepsClosure DEF SubmitStep
<1>3. ASSUME NEW a \in Actions, DeadlinePasses(a)
      PROVE  Closure'
  BY <1>3, OtherStepsKeepClosure DEF DeadlinePasses, ClosureVars, dbVars
<1>4. ASSUME NEW a \in Actions, ExpireWait(a)
      PROVE  Closure'
  <2>1. LogGrows /\ NothingFinishes
    BY <1>4, LogOther DEF ExpireWait, TypeOK, KnownEvents, ApprovalClosedEvents,
                          TerminalExecutionEvents
  <2>2. \A x \in Runs : runStatus'[x] \in TerminalStatus => runStatus[x] \in TerminalStatus
    BY <1>4, ReleasedKeepsClosed DEF ExpireWait, TypeOK
  <2>3. \A b \in Actions : approval'[b] \in {approval[b], "EXPIRED"}
    BY <1>4 DEF ExpireWait, TypeOK
  <2> QED
    BY <1>4, <2>1, <2>2, <2>3, ExpiryKeepsClosure DEF ExpireWait
<1>5. ASSUME NEW s \in Sweepers, NEW scope \in SweepScopes, BeginSweep(s, scope) \/ LoseSweep(s)
      PROVE  Closure'
  BY <1>5, OtherStepsKeepClosure DEF BeginSweep, LoseSweep, ClosureVars, dbVars
<1>6. ASSUME NEW s \in Sweepers, CommitSweep(s)
      PROVE  Closure'
  <2>1. LogGrows /\ NothingFinishes
    BY <1>6, LogExpiries
  <2>2. \A x \in Runs : runStatus'[x] \in TerminalStatus => runStatus[x] \in TerminalStatus
    BY <1>6 DEF CommitSweep, Released, TerminalStatus
  <2>3. \A b \in Actions : approval'[b] \in {approval[b], "EXPIRED"}
    BY <1>6 DEF CommitSweep
  <2> QED
    BY <1>6, <2>1, <2>2, <2>3, ExpiryKeepsClosure DEF CommitSweep
<1>7. CASE UNCHANGED vars
  BY <1>7, OtherStepsKeepClosure DEF vars, dbVars, ClosureVars
<1> QED
  BY <1>1, <1>2, <1>3, <1>4, <1>5, <1>6, <1>7, SubmitKeepsClosure, CloseKeepsClosure,
     ReviewKeepsClosure
     DEF Next, SweepScopes, LoseSweep

THEOREM ClosureHolds == Spec => []Closure
<1>1. Init => Closure
  BY InitClosure
<1>2. TypeOK /\ TypeOK' /\ SingleUse /\ Closure /\ [Next]_vars => Closure'
  BY StepClosure
<1> QED
  BY <1>1, <1>2, TypeCorrect, SingleUseHolds, PTL DEF Spec

-----------------------------------------------------------------------------
\* A run that is COMPLETED or FAILED has no executor at work and no approval
\* granted but unspent, and never will.
THEOREM ClosedIsQuiet == Spec => []ClosedRunIsQuiet
<1>1. Closure => ClosedRunIsQuiet
  BY DEF Closure
<1> QED
  BY <1>1, ClosureHolds, PTL

\* Whatever reached the workspace has its start, and the allowance or grant
\* behind it, in its run's log.
THEOREM AuthorityBeforeEffect == Spec => []EffectHasAuthority
<1>1. TypeOK /\ SingleUse /\ Closure => EffectHasAuthority
  <2> SUFFICES ASSUME TypeOK, SingleUse, Closure, NEW a \in Actions, effects[a] > 0
               PROVE  /\ actionRun[a] \in Runs
                      /\ Logged(actionRun[a], a, {"EXECUTION_STARTED"})
                      /\ Logged(actionRun[a], a, {"POLICY_ALLOWED", "APPROVAL_GRANTED"})
    BY DEF EffectHasAuthority
  <2>1. decision[a] = "ALLOW" \/ approval[a] \in {"APPROVED", "CONSUMED"}
    BY DEF SingleUse, EffectIsPast
  <2>2. actionRun[a] \in Runs
    BY <2>1, StoredHasRun
  <2> QED
    BY <2>1, <2>2 DEF Closure, StartIsLogged
<1> QED
  BY <1>1, TypeCorrect, SingleUseHolds, ClosureHolds, PTL

\* No late answer, expiry or execution ever reopens a closed run.
THEOREM NeverReopened == Spec => ClosedStaysClosed
<1> DEFINE A == \A r \in Runs : runStatus[r] \in TerminalStatus => runStatus'[r] \in TerminalStatus
<1>1. ASSUME TypeOK, [Next]_vars
      PROVE  [A]_vars
  <2>1. runStatus \in [Runs -> RunStatus]
    BY <1>1 DEF TypeOK
  <2> USE DEF TerminalStatus, LiveStatus
  <2>2. \A r, ap : \A statuses \in {LiveStatus, {"WAITING_FOR_APPROVAL"}} :
           \A x \in Runs : runStatus[x] \in TerminalStatus => Released(r, ap, statuses)[x] = runStatus[x]
    BY <2>1, ReleasedKeepsClosed
  <2>3. ASSUME NEW r \in Runs, CreateRun(r) \/ CompleteRun(r) \/ FailRun(r)
        PROVE  A
    BY <2>1, <2>3 DEF CreateRun, CompleteRun, FailRun, CloseRun
  <2>4. ASSUME NEW a \in Actions, CommitHold(a)
        PROVE  A
    BY <2>1, <2>4 DEF CommitHold, CommitDecision, StillLive
  <2>5. ASSUME NEW q \in Reviewers, ExpireOnResolve(q) \/ DenyHold(q) \/ RecordGranted(q)
        PROVE  A
    BY <2>2, <2>5 DEF ExpireOnResolve, DenyHold, RecordGranted
  <2>6. ASSUME NEW a \in Actions, ExpireWait(a)
        PROVE  A
    BY <2>2, <2>6 DEF ExpireWait
  <2>7. ASSUME NEW s \in Sweepers, CommitSweep(s)
        PROVE  A
    BY <2>2, <2>7 DEF CommitSweep
  <2>8. CASE UNCHANGED runStatus
    BY <2>8
  <2> QED
    BY <1>1, <2>3, <2>4, <2>5, <2>6, <2>7, <2>8
       DEF Next, SubmitStep, ReviewStep, BeginSubmit, AuditReturns, CommitAllow, CommitDeny,
           RefuseSubmit, DispatchAllowed, RunAllowed, RecordAllowed, LoseSubmit, BeginResolve,
           Grant, RefuseResolve, DispatchGranted, RunGranted, LoseReview, DeadlinePasses,
           BeginSweep, LoseSweep, vars, dbVars
<1> QED
  BY <1>1, TypeCorrect, PTL DEF Spec, ClosedStaysClosed

-----------------------------------------------------------------------------
(* Receipts is inductive. *)

\* One record of one action says nothing of other types, nor of others.
LEMMA OneSays ==
    ASSUME NEW r, NEW type \in KnownEvents, NEW a \in Actions \cup {NoAction},
           log \in [Runs -> Seq(ChainRecord)], Record(r, <<Event(type, a)>>)
    PROVE  \A x \in Runs : \A b, types :
             /\ Logged(x, b, types) => Logged(x, b, types)'
             /\ Logged(x, b, types)' => Logged(x, b, types) \/ (b = a /\ type \in types)
<1> DEFINE records == <<Event(type, a)>>
<1>1. records \in Seq(ChainRecord)
  BY OneRecord
<1>2. \A b, types : Mentions(records, b, types) <=> b = a /\ type \in types
  BY OneMention
<1>3. Record(r, records)
  OBVIOUS
<1> HIDE DEF records
<1>4. \A x \in Runs : \A b, types :
         Logged(x, b, types)' <=>
             Logged(x, b, types) \/ (x = r /\ Mentions(records, b, types))
  BY <1>1, <1>3, LoggedGrows
<1> QED
  BY <1>2, <1>4

LEMMA InitReceipts == Init => Receipts
BY DEF Init, Receipts, ReceiptsInOrder, ReceiptsOf, SuccessIsReal, LogMatchesReceipt,
       NewSubmit, IdleReview, Executing, Logged, Mentions

\* Steps that store nothing about actions: no request starts to execute or
\* to report success.
LEMMA OtherStepsKeepReceipts ==
    ASSUME Receipts, UNCHANGED <<decision, approval, receipt, effects, log>>,
           \A a \in Actions :
             /\ submit'[a].pc \in Executing => submit[a].pc \in Executing
             /\ submit'[a].pc = "succeeded" => submit[a].pc = "succeeded",
           \A q \in Reviewers : review'[q].pc = "succeeded" =>
               review[q].pc = "succeeded" /\ review'[q].action = review[q].action
    PROVE  Receipts'
<1>1. ReceiptsInOrder'
  BY DEF Receipts, ReceiptsInOrder, ReceiptsOf
<1>2. SuccessIsReal'
  BY DEF Receipts, SuccessIsReal
<1>3. LogMatchesReceipt'
  BY DEF Receipts, LogMatchesReceipt, Logged
<1> QED
  BY <1>1, <1>2, <1>3 DEF Receipts

\* Runs are created and closed.
LEMMA RunKeepsReceipts ==
    ASSUME TypeOK, Receipts, NEW r \in Runs, CreateRun(r) \/ CompleteRun(r) \/ FailRun(r)
    PROVE  Receipts'
<1>1. UNCHANGED <<decision, approval, receipt, effects, submit, review>>
  BY DEF CreateRun, CompleteRun, FailRun, CloseRun
<1>2. PICK type \in {"RUN_CREATED"} \cup RunTerminalEvents : Record(r, <<Event(type, NoAction)>>)
  BY DEF CreateRun, CompleteRun, FailRun, CloseRun, RunTerminalEvents
<1>3. \A x \in Runs : \A b, types : type \notin types /\ Logged(x, b, types)' => Logged(x, b, types)
  BY <1>2, OneSays DEF TypeOK, KnownEvents
<1>4. type \notin {"EXECUTION_STARTED"} /\ type \notin TerminalExecutionEvents
  BY DEF RunTerminalEvents, TerminalExecutionEvents
<1>5. ReceiptsInOrder'
  BY <1>1 DEF Receipts, ReceiptsInOrder, ReceiptsOf
<1>6. SuccessIsReal'
  BY <1>1 DEF Receipts, SuccessIsReal
<1>7. LogMatchesReceipt'
  BY <1>1, <1>3, <1>4 DEF Receipts, LogMatchesReceipt
<1> QED
  BY <1>5, <1>6, <1>7 DEF Receipts

\* The steps of a submission that store nothing.
LEMMA SubmitKeepsReceipts ==
    ASSUME TypeOK, Receipts, NEW a \in Actions,
           \/ \E r \in Runs : BeginSubmit(a, r)
           \/ AuditReturns(a) \/ RefuseSubmit(a) \/ LoseSubmit(a) \/ DispatchAllowed(a)
    PROVE  Receipts'
<1>0. submit \in [Actions -> SubmitRequest]
  BY DEF TypeOK
<1>1. UNCHANGED <<decision, approval, receipt, effects, log, review>>
  BY DEF BeginSubmit, AuditReturns, RefuseSubmit, LoseSubmit, DispatchAllowed, dbVars
<1>2. \A b \in Actions \ {a} : submit'[b] = submit[b]
  BY <1>0 DEF BeginSubmit, AuditReturns, RefuseSubmit, LoseSubmit, DispatchAllowed
<1>3. /\ submit'[a].pc \in Executing => submit[a].pc \in Executing
      /\ submit'[a].pc # "succeeded"
  <2>1. CASE \E r \in Runs : BeginSubmit(a, r)
    BY <1>0, <2>1 DEF BeginSubmit, Executing
  <2>2. CASE AuditReturns(a)
    <3>1. PICK verdict \in Verdict :
             submit' = [submit EXCEPT ![a].pc      = "decided",
                                      ![a].verdict = verdict,
                                      ![a].outcome = Escalate(@, verdict)]
      BY <2>2 DEF AuditReturns
    <3>2. submit'[a].pc = "decided"
      BY <1>0, <3>1 DEF SubmitRequest
    <3> QED
      BY <3>2 DEF Executing
  <2>3. CASE RefuseSubmit(a) \/ LoseSubmit(a)
    BY <1>0, <2>3 DEF RefuseSubmit, LoseSubmit, DoneSubmit, NewSubmit, Executing
  <2>4. CASE DispatchAllowed(a)
    <3>1. submit[a].pc = "dispatch" /\ submit'[a].pc \in {"running", "failed"}
      BY <1>0, <2>4 DEF DispatchAllowed, SubmitRequest
    <3> QED
      BY <3>1 DEF Executing
  <2> QED
    BY <2>1, <2>2, <2>3, <2>4
<1> QED
  BY <1>1, <1>2, <1>3, OtherStepsKeepReceipts

\* The transaction of a submission: a refused action has its receipt with it.
LEMMA CommitKeepsReceipts ==
    ASSUME TypeOK, SingleUse, Closure, Receipts, NEW a \in Actions,
           CommitAllow(a) \/ CommitHold(a) \/ CommitDeny(a)
    PROVE  Receipts'
<1>0. /\ submit \in [Actions -> SubmitRequest]
      /\ decision \in [Actions -> PolicyOutcome \cup {"NONE"}]
      /\ approval \in [Actions -> ApprovalStatus]
      /\ receipt \in [Actions -> {"NONE", "EXECUTED", "FAILED", "NOT_EXECUTED"}]
  BY DEF TypeOK
<1>1. /\ submit[a].pc = "decided" /\ decision[a] = "NONE" /\ approval[a] = "NONE"
      /\ receipt[a] = "NONE"
  BY DEF CommitAllow, CommitHold, CommitDeny, CommitDecision, SingleUse, OneDecision,
         Undecided, Receipts, ReceiptsInOrder, ReceiptsOf
<1>2. /\ \A b \in Actions \ {a} : /\ submit'[b] = submit[b]
                                  /\ decision'[b] = decision[b]
                                  /\ approval'[b] = approval[b]
                                  /\ receipt'[b] = receipt[b]
      /\ UNCHANGED <<effects, review>>
  BY <1>0 DEF CommitAllow, CommitHold, CommitDeny, CommitDecision
<1>3. \/ /\ CommitAllow(a)
         /\ decision'[a] = "ALLOW" /\ approval'[a] = "NONE" /\ receipt'[a] = "NONE"
         /\ submit'[a].pc = "dispatch"
      \/ /\ CommitHold(a)
         /\ decision'[a] = "HOLD" /\ approval'[a] = "PENDING" /\ receipt'[a] = "NONE"
         /\ submit'[a].pc = "done"
      \/ /\ CommitDeny(a)
         /\ decision'[a] = "DENY" /\ approval'[a] = "NONE" /\ receipt'[a] = "NOT_EXECUTED"
         /\ submit'[a].pc = "done"
  <2>1. CASE CommitAllow(a)
    BY <1>0, <1>1, <2>1 DEF CommitAllow, CommitDecision, SubmitRequest
  <2>2. CASE CommitHold(a)
    BY <1>0, <1>1, <2>2 DEF CommitHold, CommitDecision, DoneSubmit, NewSubmit
  <2>3. CASE CommitDeny(a)
    BY <1>0, <1>1, <2>3 DEF CommitDeny, CommitDecision, DoneSubmit, NewSubmit
  <2> QED
    BY <2>1, <2>2, <2>3
<1>4. ReceiptsInOrder'
  BY <1>2, <1>3 DEF Receipts, ReceiptsInOrder, ReceiptsOf, Executing
<1>5. SuccessIsReal'
  BY <1>2, <1>3 DEF Receipts, SuccessIsReal
<1>6. ASSUME NEW x \in Runs, NEW b \in Actions
      PROVE  /\ Logged(x, b, {"EXECUTION_STARTED"})' =>
                  Logged(x, b, {"EXECUTION_STARTED"}) \/ (b = a /\ CommitAllow(a))
             /\ Logged(x, b, TerminalExecutionEvents)' => Logged(x, b, TerminalExecutionEvents)
  <2> DEFINE own == {"ACTION_REQUESTED", "REASONING_AUDIT_FAILED", "REASONING_AUDIT_COMPLETED"}
  <2>1. own \cap {"EXECUTION_STARTED"} = {} /\ own \cap TerminalExecutionEvents = {}
    BY DEF TerminalExecutionEvents
  <2>2. CASE CommitAllow(a)
    <3>1. AllowRecords(a) \in Seq(ChainRecord)
      BY TwoRecords DEF AllowRecords, KnownEvents, DecisionEvents, ExecutionEvents
    <3>2. /\ ~Mentions(AllowRecords(a), b, TerminalExecutionEvents)
          /\ Mentions(AllowRecords(a), b, {"EXECUTION_STARTED"}) => b = a
      BY TwoMentions DEF AllowRecords, TerminalExecutionEvents
    <3>3. CommitDecision(a, "ALLOW", AllowRecords(a))
      BY <2>2 DEF CommitAllow
    <3> QED
      BY <2>1, <2>2, <3>1, <3>2, <3>3, CommitSays
  <2>3. CASE CommitHold(a)
    <3> DEFINE records == <<Event("POLICY_HELD", a), Event("APPROVAL_REQUESTED", a)>>
    <3>1. records \in Seq(ChainRecord)
      BY TwoRecords DEF KnownEvents, DecisionEvents
    <3>2. /\ ~Mentions(records, b, TerminalExecutionEvents)
          /\ ~Mentions(records, b, {"EXECUTION_STARTED"})
      BY TwoMentions DEF TerminalExecutionEvents
    <3>3. CommitDecision(a, "HOLD", records)
      BY <2>3 DEF CommitHold
    <3> HIDE DEF records
    <3> QED
      BY <2>1, <3>1, <3>2, <3>3, CommitSays
  <2>4. CASE CommitDeny(a)
    <3> DEFINE records == <<Event("POLICY_DENIED", a)>>
    <3>1. records \in Seq(ChainRecord)
      BY OneRecord DEF KnownEvents, DecisionEvents
    <3>2. /\ ~Mentions(records, b, TerminalExecutionEvents)
          /\ ~Mentions(records, b, {"EXECUTION_STARTED"})
      BY OneMention DEF TerminalExecutionEvents
    <3>3. CommitDecision(a, "DENY", records)
      BY <2>4 DEF CommitDeny
    <3> HIDE DEF records
    <3> QED
      BY <2>1, <3>1, <3>2, <3>3, CommitSays
  <2> QED
    BY <2>2, <2>3, <2>4
<1>7. LogMatchesReceipt'
  <2>1. \A x \in Runs : \A b \in Actions : Logged(x, b, {"EXECUTION_STARTED"})' =>
           decision'[b] = "ALLOW" \/ approval'[b] \in {"APPROVED", "CONSUMED"}
    <3>1. \A x \in Runs : ~Logged(x, a, {"EXECUTION_STARTED"})
      BY <1>1 DEF Receipts, LogMatchesReceipt
    <3>2. CommitAllow(a) => decision'[a] = "ALLOW"
      BY <1>0 DEF CommitAllow, CommitDecision
    <3> QED
      BY <1>2, <1>6, <3>1, <3>2 DEF Receipts, LogMatchesReceipt
  <2>2. \A x \in Runs : ~Logged(x, a, TerminalExecutionEvents)
    BY <1>1 DEF Receipts, LogMatchesReceipt
  <2>3. \A x \in Runs : \A b \in Actions : Logged(x, b, TerminalExecutionEvents)' =>
           receipt'[b] \in {"EXECUTED", "FAILED"}
    BY <1>2, <1>6, <2>2 DEF Receipts, LogMatchesReceipt
  <2> QED
    BY <2>1, <2>3 DEF LogMatchesReceipt
<1> QED
  BY <1>4, <1>5, <1>7 DEF Receipts

\* The effect of an action and the receipt that reports it.
LEMMA AllowedKeepsReceipts ==
    ASSUME TypeOK, SingleUse, Receipts, NEW a \in Actions, RunAllowed(a) \/ RecordAllowed(a)
    PROVE  Receipts'
<1>0. /\ submit \in [Actions -> SubmitRequest] /\ effects \in [Actions -> Nat]
      /\ receipt \in [Actions -> {"NONE", "EXECUTED", "FAILED", "NOT_EXECUTED"}]
  BY DEF TypeOK
<1>1. CASE RunAllowed(a)
  <2>1. PICK pc \in {"succeeded", "failed"} :
          /\ Effect(a, pc)
          /\ submit' = [submit EXCEPT ![a].pc = pc]
    BY <1>1 DEF RunAllowed
  <2>2. /\ submit[a].pc = "running" /\ submit'[a].pc = pc
        /\ \A b \in Actions \ {a} : submit'[b] = submit[b]
        /\ UNCHANGED <<decision, approval, receipt, log, review>>
    BY <1>0, <1>1, <2>1 DEF RunAllowed, SubmitRequest, dbVars
  <2>3. effects[a] = 0 /\ receipt[a] = "NONE" /\ decision[a] = "ALLOW" /\ approval[a] = "NONE"
    BY <2>2 DEF SingleUse, OneDecision, EffectIsPast, Receipts, ReceiptsInOrder, Executing
  <2>4. /\ pc = "succeeded" => effects'[a] = 1
        /\ \A b \in Actions \ {a} : effects'[b] = effects[b]
    BY <1>0, <2>1, <2>3 DEF Effect
  <2>5. \A q \in Reviewers : review[q].pc = "succeeded" => review[q].action \in Actions \ {a}
    BY <2>3 DEF SingleUse, OneReviewerEach, Executing
  <2>6. ReceiptsInOrder'
    BY <2>2 DEF Receipts, ReceiptsInOrder, ReceiptsOf, Executing
  <2>7. SuccessIsReal'
    BY <2>2, <2>3, <2>4, <2>5 DEF Receipts, SuccessIsReal
  <2>8. LogMatchesReceipt'
    BY <2>2 DEF Receipts, LogMatchesReceipt, Logged
  <2> QED
    BY <2>6, <2>7, <2>8 DEF Receipts
<1>2. CASE RecordAllowed(a)
  <2>1. /\ submit[a].pc \in {"succeeded", "failed"} /\ submit'[a].pc = "done"
        /\ receipt'[a] = ReceiptStatus(submit[a].pc)
        /\ \A b \in Actions \ {a} : submit'[b] = submit[b] /\ receipt'[b] = receipt[b]
        /\ UNCHANGED <<decision, approval, effects, review>>
    BY <1>0, <1>2 DEF RecordAllowed, DoneSubmit, NewSubmit
  <2>2. /\ decision[a] = "ALLOW" /\ receipt'[a] \in {"EXECUTED", "FAILED"}
        /\ receipt'[a] = "EXECUTED" => submit[a].pc = "succeeded"
    BY <2>1 DEF SingleUse, OneDecision, Executing, ReceiptStatus
  <2>3. /\ ExecutionRecord(a, submit[a].pc)
             \in {Event("EXECUTION_SUCCEEDED", a), Event("EXECUTION_FAILED", a)}
        /\ Record(submit[a].run, <<ExecutionRecord(a, submit[a].pc)>>)
    BY <1>2 DEF ExecutionRecord, RecordAllowed
  <2>4. PICK type \in TerminalExecutionEvents : Record(submit[a].run, <<Event(type, a)>>)
    BY <2>3 DEF TerminalExecutionEvents
  <2>5. type \in KnownEvents /\ type \notin {"EXECUTION_STARTED"}
    BY <2>4 DEF KnownEvents, ExecutionEvents, TerminalExecutionEvents
  <2>6. \A x \in Runs : \A b, types :
          Logged(x, b, types)' => Logged(x, b, types) \/ (b = a /\ type \in types)
    BY <2>4, <2>5, OneSays DEF TypeOK
  <2>7. ReceiptsInOrder'
    BY <2>1, <2>2 DEF Receipts, ReceiptsInOrder, ReceiptsOf, Executing
  <2>8. SuccessIsReal'
    BY <2>1, <2>2 DEF Receipts, SuccessIsReal
  <2>9. LogMatchesReceipt'
    BY <2>1, <2>2, <2>5, <2>6 DEF Receipts, LogMatchesReceipt
  <2> QED
    BY <2>7, <2>8, <2>9 DEF Receipts
<1> QED
  BY <1>1, <1>2

\* Approvals that expire have no receipt, before or after.
LEMMA ExpiryKeepsReceipts ==
    ASSUME TypeOK, SingleUse, Receipts,
           UNCHANGED <<decision, receipt, effects, submit>>,
           \A a \in Actions : \/ approval'[a] = approval[a]
                              \/ approval[a] = "PENDING" /\ approval'[a] = "EXPIRED",
           \A q \in Reviewers : review'[q].pc = "succeeded" =>
               review[q].pc = "succeeded" /\ review'[q].action = review[q].action,
           \A x \in Runs : \A b, types :
               "APPROVAL_EXPIRED" \notin types /\ Logged(x, b, types)' => Logged(x, b, types)
    PROVE  Receipts'
<1>1. ReceiptsInOrder'
  <2>1. ASSUME NEW a \in Actions, approval[a] = "PENDING", approval'[a] = "EXPIRED"
        PROVE  receipt[a] = "NONE" /\ decision[a] = "HOLD"
    BY <2>1 DEF SingleUse, OneDecision, Receipts, ReceiptsInOrder, ReceiptsOf
  <2> QED
    BY <2>1 DEF Receipts, ReceiptsInOrder, ReceiptsOf
<1>2. SuccessIsReal'
  BY DEF Receipts, SuccessIsReal
<1>3. "APPROVAL_EXPIRED" \notin TerminalExecutionEvents
  BY DEF TerminalExecutionEvents
<1>4. LogMatchesReceipt'
  BY <1>3 DEF Receipts, LogMatchesReceipt
<1> QED
  BY <1>1, <1>2, <1>4 DEF Receipts

\* What a reviewer's transaction does to the approval and the receipt of the
\* action under review, and what its record says.
LEMMA ReviewedKeepsReceipts ==
    ASSUME TypeOK, SingleUse, Receipts, NEW q \in Reviewers, NEW a \in Actions,
           decision[a] = "HOLD",
           UNCHANGED <<decision, effects, submit>>,
           \A b \in Actions \ {a} : approval'[b] = approval[b] /\ receipt'[b] = receipt[b],
           \/ approval'[a] = "APPROVED" /\ receipt'[a] = "NONE"
           \/ approval'[a] = "DENIED" /\ receipt'[a] = "NOT_EXECUTED" /\ approval[a] = "PENDING"
           \/ approval'[a] = "CONSUMED" /\ receipt'[a] \in {"EXECUTED", "FAILED"},
           receipt'[a] = "EXECUTED" => effects[a] = 1,
           \A p \in Reviewers \ {q} : review'[p] = review[p],
           review'[q].pc # "succeeded",
           approval[a] \in {"PENDING", "APPROVED"},
           \A x \in Runs : \A b \in Actions :
             /\ Logged(x, b, {"EXECUTION_STARTED"})' =>
                  \/ Logged(x, b, {"EXECUTION_STARTED"})
                  \/ b = a /\ approval'[a] = "APPROVED"
             /\ Logged(x, b, TerminalExecutionEvents)' =>
                  \/ Logged(x, b, TerminalExecutionEvents)
                  \/ b = a /\ approval'[a] = "CONSUMED"
    PROVE  Receipts'
<1>1. submit[a].pc \notin Executing
  BY DEF SingleUse, OneDecision
<1>2. ReceiptsInOrder'
  BY <1>1 DEF Receipts, ReceiptsInOrder, ReceiptsOf
<1>3. SuccessIsReal'
  <2>1. \A b \in Actions : submit[b].pc = "succeeded" => effects[b] = 1
    BY DEF Receipts, SuccessIsReal
  <2>2. \A b \in Actions : receipt'[b] = "EXECUTED" => effects[b] = 1
    BY DEF Receipts, SuccessIsReal
  <2>3. \A p \in Reviewers : review'[p].pc = "succeeded" =>
          review[p].pc = "succeeded" /\ review'[p].action = review[p].action
    OBVIOUS
  <2> QED
    BY <2>1, <2>2, <2>3 DEF Receipts, SuccessIsReal
<1>4. LogMatchesReceipt'
  <2>1. receipt[a] = "NONE"
    BY DEF Receipts, ReceiptsInOrder, ReceiptsOf
  <2>2. \A x \in Runs : ~Logged(x, a, TerminalExecutionEvents)
    BY <2>1 DEF Receipts, LogMatchesReceipt
  <2>3. \A x \in Runs : Logged(x, a, {"EXECUTION_STARTED"}) => approval[a] = "APPROVED"
    BY DEF Receipts, LogMatchesReceipt
  <2>4. approval[a] = "APPROVED" => approval'[a] \in {"APPROVED", "CONSUMED"}
    OBVIOUS
  <2>5. \A x \in Runs : \A b \in Actions : Logged(x, b, {"EXECUTION_STARTED"})' =>
           decision'[b] = "ALLOW" \/ approval'[b] \in {"APPROVED", "CONSUMED"}
    BY <2>3, <2>4 DEF Receipts, LogMatchesReceipt
  <2>6. \A x \in Runs : \A b \in Actions : Logged(x, b, TerminalExecutionEvents)' =>
           receipt'[b] \in {"EXECUTED", "FAILED"}
    BY <2>2 DEF Receipts, LogMatchesReceipt
  <2> QED
    BY <2>5, <2>6 DEF LogMatchesReceipt
<1> QED
  BY <1>2, <1>3, <1>4 DEF Receipts

\* A review, in each of its steps.
LEMMA ReviewKeepsReceipts ==
    ASSUME TypeOK, SingleUse, Receipts, NEW q \in Reviewers
    PROVE  /\ \A a \in Actions : BeginResolve(q, a) => Receipts'
           /\ ReviewStep(q) \/ LoseReview(q) => Receipts'
<1> DEFINE a == review[q].action
<1>0. /\ review \in [Reviewers -> ReviewRequest]
      /\ effects \in [Actions -> Nat]
      /\ approval \in [Actions -> ApprovalStatus]
      /\ receipt \in [Actions -> {"NONE", "EXECUTED", "FAILED", "NOT_EXECUTED"}]
      /\ log \in [Runs -> Seq(ChainRecord)]
  BY DEF TypeOK
<1>1. ASSUME \/ \E b \in Actions : BeginResolve(q, b)
             \/ RefuseResolve(q) \/ LoseReview(q) \/ DispatchGranted(q)
      PROVE  Receipts'
  <2>1. UNCHANGED <<decision, approval, receipt, effects, log, submit>>
    BY <1>1 DEF BeginResolve, RefuseResolve, LoseReview, DispatchGranted, dbVars
  <2>2. /\ \A p \in Reviewers \ {q} : review'[p] = review[p]
        /\ review'[q].pc # "succeeded"
    <3>1. CASE \E b \in Actions : BeginResolve(q, b)
      BY <1>0, <3>1 DEF BeginResolve
    <3>2. CASE RefuseResolve(q) \/ LoseReview(q)
      BY <1>0, <3>2 DEF RefuseResolve, LoseReview, IdleReview
    <3>3. CASE DispatchGranted(q)
      BY <1>0, <3>3 DEF DispatchGranted, ReviewRequest
    <3> QED
      BY <1>1, <3>1, <3>2, <3>3
  <2> QED
    BY <2>1, <2>2, OtherStepsKeepReceipts
<1>2. ASSUME review[q].pc \in Executing \cup {"ready"}
      PROVE  /\ a \in Actions
             /\ review[q].pc \in Executing =>
                  /\ approval[a] = "APPROVED" /\ decision[a] = "HOLD" /\ receipt[a] = "NONE"
                  /\ submit[a].pc # "succeeded"
             /\ approval[a] = "PENDING" => decision[a] = "HOLD" /\ receipt[a] = "NONE"
  BY <1>2 DEF SingleUse, OneDecision, OneReviewerEach, Receipts, ReceiptsInOrder, ReceiptsOf,
              Executing
<1>3. ASSUME ExpireOnResolve(q)
      PROVE  Receipts'
  <2>1. a \in Actions /\ approval[a] = "PENDING"
    BY <1>2, <1>3 DEF ExpireOnResolve, Resolvable
  <2>2. /\ approval'[a] = "EXPIRED"
        /\ \A b \in Actions \ {a} : approval'[b] = approval[b]
        /\ \A p \in Reviewers \ {q} : review'[p] = review[p]
        /\ review'[q].pc = "idle"
        /\ UNCHANGED <<decision, receipt, effects, submit>>
    BY <1>0, <1>3, <2>1 DEF ExpireOnResolve, IdleReview
  <2>3. Record(actionRun[a], <<Event("APPROVAL_EXPIRED", a)>>)
    BY <1>3 DEF ExpireOnResolve
  <2>4. "APPROVAL_EXPIRED" \in KnownEvents
    BY DEF KnownEvents, ApprovalClosedEvents
  <2>5. \A x \in Runs : \A b, types :
           "APPROVAL_EXPIRED" \notin types /\ Logged(x, b, types)' => Logged(x, b, types)
    BY <1>0, <2>1, <2>3, <2>4, OneSays
  <2> QED
    BY <2>1, <2>2, <2>5, ExpiryKeepsReceipts
<1>4. ASSUME Grant(q)
      PROVE  Receipts'
  <2> DEFINE records == <<Event("APPROVAL_GRANTED", a), Event("EXECUTION_STARTED", a)>>
  <2>1. a \in Actions /\ approval[a] = "PENDING" /\ receipt[a] = "NONE" /\ decision[a] = "HOLD"
    BY <1>2, <1>4 DEF Grant, Resolvable
  <2>2. /\ approval'[a] = "APPROVED"
        /\ \A b \in Actions \ {a} : approval'[b] = approval[b]
        /\ \A p \in Reviewers \ {q} : review'[p] = review[p]
        /\ review'[q].pc = "dispatch"
        /\ UNCHANGED <<decision, receipt, effects, submit>>
    BY <1>0, <1>4, <2>1 DEF Grant
  <2>3. records \in Seq(ChainRecord) /\ Record(actionRun[a], records)
    BY <1>4, <2>1, TwoRecords DEF Grant, KnownEvents, ExecutionEvents
  <2>4. \A b, types : Mentions(records, b, types) <=>
           b = a /\ ("APPROVAL_GRANTED" \in types \/ "EXECUTION_STARTED" \in types)
    BY TwoMentions
  <2> HIDE DEF records
  <2>5. \A x \in Runs : \A b, types : Logged(x, b, types)' =>
           Logged(x, b, types) \/ Mentions(records, b, types)
    BY <1>0, <2>3, LoggedGrows
  <2>6. "APPROVAL_GRANTED" \notin TerminalExecutionEvents
        /\ "EXECUTION_STARTED" \notin TerminalExecutionEvents
    BY DEF TerminalExecutionEvents
  <2>7. \A x \in Runs : \A b \in Actions :
          /\ Logged(x, b, {"EXECUTION_STARTED"})' => Logged(x, b, {"EXECUTION_STARTED"}) \/ b = a
          /\ Logged(x, b, TerminalExecutionEvents)' => Logged(x, b, TerminalExecutionEvents)
    BY <2>4, <2>5, <2>6
  <2> HIDE DEF a
  <2>8. receipt'[a] = "NONE"
    BY <2>1, <2>2
  <2> QED
    BY <2>1, <2>2, <2>7, <2>8, ReviewedKeepsReceipts
<1>5. ASSUME DenyHold(q)
      PROVE  Receipts'
  <2>1. a \in Actions /\ approval[a] = "PENDING" /\ receipt[a] = "NONE" /\ decision[a] = "HOLD"
    BY <1>2, <1>5 DEF DenyHold, Resolvable
  <2>2. /\ approval'[a] = "DENIED" /\ receipt'[a] = "NOT_EXECUTED"
        /\ \A b \in Actions \ {a} : approval'[b] = approval[b] /\ receipt'[b] = receipt[b]
        /\ \A p \in Reviewers \ {q} : review'[p] = review[p]
        /\ review'[q].pc = "idle"
        /\ UNCHANGED <<decision, effects, submit>>
    BY <1>0, <1>5, <2>1 DEF DenyHold, IdleReview
  <2>3. /\ Record(actionRun[a], <<Event("APPROVAL_DENIED", a)>>)
        /\ "APPROVAL_DENIED" \in KnownEvents /\ "APPROVAL_DENIED" \notin TerminalExecutionEvents
    BY <1>5 DEF DenyHold, KnownEvents, ApprovalClosedEvents, TerminalExecutionEvents
  <2>4. \A x \in Runs : \A b, types :
           "APPROVAL_DENIED" \notin types /\ Logged(x, b, types)' => Logged(x, b, types)
    BY <1>0, <2>1, <2>3, OneSays
  <2> HIDE DEF a
  <2>5. \A x \in Runs : \A b \in Actions :
          /\ Logged(x, b, {"EXECUTION_STARTED"})' => Logged(x, b, {"EXECUTION_STARTED"})
          /\ Logged(x, b, TerminalExecutionEvents)' => Logged(x, b, TerminalExecutionEvents)
    BY <2>3, <2>4
  <2> QED
    BY <2>1, <2>2, <2>5, ReviewedKeepsReceipts
<1>6. ASSUME RunGranted(q)
      PROVE  Receipts'
  <2>1. review[q].pc \in Executing
    BY <1>6 DEF RunGranted, Executing
  <2>2. a \in Actions /\ receipt[a] = "NONE" /\ submit[a].pc # "succeeded"
    BY <1>2, <2>1
  <2>3. PICK pc \in {"succeeded", "failed"} :
          /\ Effect(a, pc)
          /\ review' = [review EXCEPT ![q].pc = pc]
    BY <1>6 DEF RunGranted
  <2>4. effects[a] = 0
    BY <1>6, <2>2 DEF RunGranted, SingleUse, EffectIsPast
  <2>5. /\ pc = "succeeded" => effects'[a] = 1
        /\ \A b \in Actions \ {a} : effects'[b] = effects[b]
    BY <1>0, <2>2, <2>3, <2>4 DEF Effect
  <2>6. /\ review'[q].pc = pc /\ review'[q].action = a
        /\ \A p \in Reviewers \ {q} : review'[p] = review[p]
        /\ UNCHANGED <<decision, approval, receipt, log, submit>>
    BY <1>0, <1>6, <2>3 DEF RunGranted, ReviewRequest, dbVars
  <2>7. \A p \in Reviewers \ {q} : review[p].pc = "succeeded" => review[p].action \in Actions \ {a}
    BY <2>1 DEF SingleUse, OneReviewerEach, Executing
  <2> HIDE DEF a
  <2>8. ReceiptsInOrder'
    BY <2>6 DEF Receipts, ReceiptsInOrder, ReceiptsOf
  <2>9. SuccessIsReal'
    BY <2>2, <2>5, <2>6, <2>7 DEF Receipts, SuccessIsReal
  <2>10. LogMatchesReceipt'
    BY <2>6 DEF Receipts, LogMatchesReceipt, Logged
  <2> QED
    BY <2>8, <2>9, <2>10 DEF Receipts
<1>7. ASSUME RecordGranted(q)
      PROVE  Receipts'
  <2>1. review[q].pc \in {"succeeded", "failed"} /\ review[q].pc \in Executing
    BY <1>7 DEF RecordGranted, Executing
  <2>2. a \in Actions /\ approval[a] = "APPROVED" /\ decision[a] = "HOLD"
    BY <1>2, <2>1
  <2>3. /\ approval'[a] = "CONSUMED" /\ receipt'[a] = ReceiptStatus(review[q].pc)
        /\ \A b \in Actions \ {a} : approval'[b] = approval[b] /\ receipt'[b] = receipt[b]
        /\ \A p \in Reviewers \ {q} : review'[p] = review[p]
        /\ review'[q].pc = "idle"
        /\ UNCHANGED <<decision, effects, submit>>
    BY <1>0, <1>7, <2>2 DEF RecordGranted, Consumed, IdleReview
  <2>4. /\ receipt'[a] \in {"EXECUTED", "FAILED"}
        /\ receipt'[a] = "EXECUTED" => effects[a] = 1
    BY <2>1, <2>3 DEF ReceiptStatus, Receipts, SuccessIsReal
  <2>5. /\ ExecutionRecord(a, review[q].pc)
             \in {Event("EXECUTION_SUCCEEDED", a), Event("EXECUTION_FAILED", a)}
        /\ Record(actionRun[a], <<ExecutionRecord(a, review[q].pc)>>)
    BY <1>7 DEF ExecutionRecord, RecordGranted
  <2>6. PICK type \in TerminalExecutionEvents : Record(actionRun[a], <<Event(type, a)>>)
    BY <2>5 DEF TerminalExecutionEvents
  <2>7. type \in KnownEvents /\ type \notin {"EXECUTION_STARTED"}
    BY <2>6 DEF KnownEvents, ExecutionEvents, TerminalExecutionEvents
  <2>8. \A x \in Runs : \A b, types :
          Logged(x, b, types)' => Logged(x, b, types) \/ (b = a /\ type \in types)
    BY <1>0, <2>2, <2>6, <2>7, OneSays
  <2> HIDE DEF a
  <2>9. \A x \in Runs : \A b \in Actions :
          /\ Logged(x, b, {"EXECUTION_STARTED"})' => Logged(x, b, {"EXECUTION_STARTED"})
          /\ Logged(x, b, TerminalExecutionEvents)' =>
               Logged(x, b, TerminalExecutionEvents) \/ b = a
    BY <2>7, <2>8
  <2> QED
    BY <2>2, <2>3, <2>4, <2>9, ReviewedKeepsReceipts
<1> QED
  BY <1>1, <1>3, <1>4, <1>5, <1>6, <1>7 DEF ReviewStep

LEMMA StepReceipts == TypeOK /\ SingleUse /\ Closure /\ Receipts /\ [Next]_vars => Receipts'
<1> SUFFICES ASSUME TypeOK, SingleUse, Closure, Receipts, [Next]_vars
             PROVE  Receipts'
  OBVIOUS
<1>1. ASSUME NEW a \in Actions, SubmitStep(a) \/ LoseSubmit(a)
      PROVE  Receipts'
  BY <1>1, SubmitKeepsReceipts, CommitKeepsReceipts, AllowedKeepsReceipts DEF SubmitStep
<1>2. ASSUME NEW a \in Actions, DeadlinePasses(a)
      PROVE  Receipts'
  BY <1>2, OtherStepsKeepReceipts DEF DeadlinePasses, dbVars
<1>3. ASSUME NEW a \in Actions, ExpireWait(a)
      PROVE  Receipts'
  <2>1. /\ approval[a] = "PENDING" /\ approval'[a] = "EXPIRED"
        /\ \A b \in Actions \ {a} : approval'[b] = approval[b]
        /\ UNCHANGED <<decision, receipt, effects, submit, review>>
    BY <1>3 DEF ExpireWait, TypeOK
  <2>2. Record(actionRun[a], <<Event("APPROVAL_EXPIRED", a)>>)
    BY <1>3 DEF ExpireWait
  <2>3. "APPROVAL_EXPIRED" \in KnownEvents
    BY DEF KnownEvents, ApprovalClosedEvents
  <2>4. \A x \in Runs : \A b, types :
           "APPROVAL_EXPIRED" \notin types /\ Logged(x, b, types)' => Logged(x, b, types)
    BY <2>2, <2>3, OneSays DEF TypeOK
  <2> QED
    BY <2>1, <2>4, ExpiryKeepsReceipts
<1>4. ASSUME NEW s \in Sweepers, NEW scope \in SweepScopes, BeginSweep(s, scope) \/ LoseSweep(s)
      PROVE  Receipts'
  BY <1>4, OtherStepsKeepReceipts DEF BeginSweep, LoseSweep, dbVars
<1>5. ASSUME NEW s \in Sweepers, CommitSweep(s)
      PROVE  Receipts'
  <2>1. /\ \A a \in Actions : \/ approval'[a] = approval[a]
                              \/ approval[a] = "PENDING" /\ approval'[a] = "EXPIRED"
        /\ UNCHANGED <<decision, receipt, effects, submit, review>>
    BY <1>5 DEF CommitSweep, Expirable
  <2>2. \A x \in Runs : \A b, types :
           "APPROVAL_EXPIRED" \notin types /\ Logged(x, b, types)' => Logged(x, b, types)
    BY <1>5, SweepSays
  <2> QED
    BY <2>1, <2>2, ExpiryKeepsReceipts
<1>6. CASE UNCHANGED vars
  BY <1>6, OtherStepsKeepReceipts DEF vars, dbVars
<1> QED
  BY <1>1, <1>2, <1>3, <1>4, <1>5, <1>6, RunKeepsReceipts, SubmitKeepsReceipts,
     ReviewKeepsReceipts
     DEF Next, SweepScopes, LoseSweep

THEOREM ReceiptsHold == Spec => []Receipts
<1>1. Init => Receipts
  BY InitReceipts
<1>2. TypeOK /\ SingleUse /\ Closure /\ Receipts /\ [Next]_vars => Receipts'
  BY StepReceipts
<1> QED
  BY <1>1, <1>2, TypeCorrect, SingleUseHolds, ClosureHolds, PTL DEF Spec

\* An EXECUTED receipt means that the effect happened, a NOT_EXECUTED one that
\* nothing ever started, and an approval is spent exactly when its execution
\* has a receipt.
THEOREM ReceiptsTellTheStory == Spec => []ReceiptAgrees
<1>1. TypeOK /\ SingleUse /\ Closure /\ Receipts => ReceiptAgrees
  <2> SUFFICES ASSUME TypeOK, SingleUse, Closure, Receipts, NEW a \in Actions
               PROVE  /\ receipt[a] = "EXECUTED" => effects[a] = 1
                      /\ receipt[a] = "NOT_EXECUTED" =>
                           effects[a] = 0 /\ ~Logged(actionRun[a], a, {"EXECUTION_STARTED"})
                      /\ decision[a] = "HOLD" =>
                           (approval[a] = "CONSUMED" <=> receipt[a] \in {"EXECUTED", "FAILED"})
    BY DEF ReceiptAgrees
  <2>1. receipt[a] \in ReceiptsOf(a)
    BY DEF Receipts, ReceiptsInOrder
  <2>2. receipt[a] = "NOT_EXECUTED" =>
          /\ decision[a] # "NONE" /\ decision[a] # "ALLOW"
          /\ approval[a] \notin {"APPROVED", "CONSUMED"}
    BY <2>1 DEF ReceiptsOf, SingleUse, OneDecision
  <2>3. receipt[a] = "NOT_EXECUTED" => effects[a] = 0
    BY <2>2 DEF SingleUse, EffectIsPast
  <2>4. receipt[a] = "NOT_EXECUTED" => actionRun[a] \in Runs
    BY <2>2, StoredHasRun
  <2>5. receipt[a] = "NOT_EXECUTED" => ~Logged(actionRun[a], a, {"EXECUTION_STARTED"})
    BY <2>2, <2>4 DEF Receipts, LogMatchesReceipt
  <2>6. decision[a] = "HOLD" =>
          (approval[a] = "CONSUMED" <=> receipt[a] \in {"EXECUTED", "FAILED"})
    BY <2>1 DEF ReceiptsOf
  <2>7. receipt[a] = "EXECUTED" => effects[a] = 1
    BY DEF Receipts, SuccessIsReal
  <2> QED
    BY <2>3, <2>5, <2>6, <2>7
<1> QED
  BY <1>1, TypeCorrect, SingleUseHolds, ClosureHolds, ReceiptsHold, PTL

-----------------------------------------------------------------------------
(* Waiting is inductive. *)

LEMMA InitWaiting == Init => Waiting
BY LifecycleAssumption
   DEF Init, Waiting, WaitingWasRead, WaitingIsJustified, PendingIn, IdleReview

\* Steps that touch neither runs nor approvals.
LEMMA OtherStepsKeepWaiting ==
    ASSUME Waiting, UNCHANGED <<runStatus, actionRun, approval>>,
           \A q \in Reviewers : review'[q].pc = "ready" => review'[q].waiting
    PROVE  Waiting'
BY DEF Waiting, WaitingWasRead, WaitingIsJustified, PendingIn

\* An approval that is over releases its run when it was the last one to
\* decide, and only then.
LEMMA ReleaseKeepsWaiting ==
    ASSUME TypeOK, Waiting, NEW a \in Actions, actionRun[a] \in Runs,
           NEW statuses \in {LiveStatus, {"WAITING_FOR_APPROVAL"}},
           actionRun' = actionRun,
           \A b \in Actions \ {a} : approval'[b] = approval[b],
           approval'[a] \notin {"PENDING", "APPROVED"},
           runStatus' = Released(actionRun[a], approval', statuses),
           \A q \in Reviewers : review'[q].pc = "ready" => review'[q].waiting
    PROVE  Waiting'
<1> DEFINE r == actionRun[a]
<1>0. runStatus \in [Runs -> RunStatus]
  BY DEF TypeOK
<1>1. PendingIn(approval', r) \subseteq PendingIn(approval, r)
  BY DEF PendingIn
<1>2. \A x \in Runs \ {r} :
        /\ runStatus'[x] = runStatus[x]
        /\ PendingIn(approval', x) = PendingIn(approval, x)
        /\ \A b \in Actions : actionRun[b] = x => approval'[b] = approval[b]
  BY <1>0 DEF PendingIn, Released
<1>3. \/ runStatus'[r] = "ACTIVE" /\ PendingIn(approval', r) = {}
      \/ /\ runStatus'[r] = runStatus[r]
         /\ PendingIn(approval', r) # {} \/ runStatus[r] # "WAITING_FOR_APPROVAL"
  BY <1>0 DEF Released, LiveStatus
<1>4. WaitingIsJustified'
  <2> SUFFICES ASSUME NEW x \in Runs
               PROVE  /\ runStatus'[x] = "ACTIVE" => PendingIn(approval, x)' = {}
                      /\ runStatus'[x] = "WAITING_FOR_APPROVAL" =>
                           \E b \in Actions : actionRun[b] = x /\ approval'[b] \in {"PENDING", "APPROVED"}
    BY DEF WaitingIsJustified
  <2>1. PendingIn(approval, x)' = PendingIn(approval', x)
    BY DEF PendingIn
  <2>2. CASE x = r
    <3>1. runStatus'[r] = "ACTIVE" => PendingIn(approval', r) = {}
      BY <1>1, <1>3 DEF Waiting, WaitingIsJustified
    <3>2. runStatus'[r] = "WAITING_FOR_APPROVAL" =>
            \E b \in Actions : actionRun[b] = r /\ approval'[b] = "PENDING"
      BY <1>3 DEF PendingIn
    <3> QED
      BY <2>1, <2>2, <3>1, <3>2
  <2>3. CASE x # r
    BY <1>2, <2>1, <2>3 DEF Waiting, WaitingIsJustified, PendingIn
  <2> QED
    BY <2>2, <2>3
<1>5. WaitingWasRead'
  <2>1. runStatus[r] # "ABSENT" => runStatus'[r] # "ABSENT"
    BY <1>3
  <2> QED
    BY <1>2, <2>1 DEF Waiting, WaitingWasRead
<1> QED
  BY <1>4, <1>5 DEF Waiting

\* Runs are created and closed.
LEMMA RunKeepsWaiting ==
    ASSUME TypeOK, Waiting, NEW r \in Runs, CreateRun(r) \/ CompleteRun(r) \/ FailRun(r)
    PROVE  Waiting'
<1>1. /\ \A x \in Runs \ {r} : runStatus'[x] = runStatus[x]
      /\ \/ runStatus[r] = "ABSENT" /\ runStatus'[r] = "ACTIVE"
         \/ runStatus'[r] \in TerminalStatus
      /\ UNCHANGED <<actionRun, approval, review>>
  BY DEF CreateRun, CompleteRun, FailRun, CloseRun, TypeOK, TerminalStatus
<1>2. runStatus[r] = "ABSENT" => PendingIn(approval, r) = {}
  BY DEF Waiting, WaitingWasRead, PendingIn
<1>3. WaitingIsJustified'
  BY <1>1, <1>2 DEF Waiting, WaitingIsJustified, PendingIn, TerminalStatus
<1>4. WaitingWasRead'
  BY <1>1 DEF Waiting, WaitingWasRead, TerminalStatus
<1> QED
  BY <1>3, <1>4 DEF Waiting

\* The transaction of a submission: a hold makes its run wait.
LEMMA CommitKeepsWaiting ==
    ASSUME TypeOK, SingleUse, Closure, Waiting, NEW a \in Actions,
           CommitAllow(a) \/ CommitHold(a) \/ CommitDeny(a)
    PROVE  Waiting'
<1> DEFINE r == submit[a].run
<1>1. /\ submit[a].pc = "decided" /\ runStatus[r] \in LiveStatus
      /\ actionRun' = [actionRun EXCEPT ![a] = r] /\ review' = review
      /\ \/ UNCHANGED <<runStatus, approval>>
         \/ /\ approval' = [approval EXCEPT ![a] = "PENDING"]
            /\ runStatus' = [runStatus EXCEPT ![r] = "WAITING_FOR_APPROVAL"]
  BY DEF CommitAllow, CommitHold, CommitDeny, CommitDecision, StillLive
<1>2. r \in Runs /\ actionRun[a] = NoRun /\ approval[a] = "NONE"
  BY <1>1 DEF Closure, OneOwner, SingleUse, OneDecision, Undecided
<1>3. /\ actionRun'[a] = r /\ runStatus'[r] # "ABSENT"
      /\ \A b \in Actions \ {a} : actionRun'[b] = actionRun[b] /\ approval'[b] = approval[b]
      /\ \A x \in Runs \ {r} : runStatus'[x] = runStatus[x]
      /\ \/ runStatus'[r] = runStatus[r] /\ approval'[a] = "NONE"
         \/ runStatus'[r] = "WAITING_FOR_APPROVAL" /\ approval'[a] = "PENDING"
  BY <1>1, <1>2 DEF TypeOK, LiveStatus
<1>4. NoRun \notin Runs
  BY LifecycleAssumption
<1> HIDE DEF r
<1>5. WaitingIsJustified'
  BY <1>2, <1>3, <1>4 DEF Waiting, WaitingIsJustified, PendingIn
<1>6. WaitingWasRead'
  BY <1>1, <1>2, <1>3 DEF Waiting, WaitingWasRead
<1> QED
  BY <1>5, <1>6 DEF Waiting

\* A review, in each of its steps.
LEMMA ReviewKeepsWaiting ==
    ASSUME TypeOK, SingleUse, Closure, Waiting, NEW q \in Reviewers
    PROVE  /\ \A a \in Actions : BeginResolve(q, a) => Waiting'
           /\ ReviewStep(q) \/ LoseReview(q) => Waiting'
<1> DEFINE a == review[q].action
<1>0. /\ review \in [Reviewers -> ReviewRequest]
      /\ approval \in [Actions -> ApprovalStatus]
      /\ \A p \in Reviewers : review[p].pc = "ready" => review[p].waiting
  BY DEF TypeOK, Waiting, WaitingWasRead
<1>1. ASSUME NEW b \in Actions, BeginResolve(q, b)
      PROVE  Waiting'
  <2>1. approval[b] = "PENDING" /\ runStatus[actionRun[b]] \in LiveStatus
    BY <1>1 DEF BeginResolve
  <2>2. actionRun[b] \in Runs
    BY <2>1, StoredHasRun
  <2>3. runStatus[actionRun[b]] = "WAITING_FOR_APPROVAL"
    BY <2>1, <2>2 DEF Waiting, WaitingIsJustified, PendingIn, LiveStatus
  <2>4. /\ review'[q].waiting
        /\ \A p \in Reviewers \ {q} : review'[p] = review[p]
        /\ UNCHANGED <<runStatus, actionRun, approval>>
    <3>1. PICK approve \in BOOLEAN :
            review' = [review EXCEPT ![q] =
              [pc      |-> "ready",
               action  |-> b,
               approve |-> approve,
               late    |-> b \in overdue,
               waiting |-> runStatus[actionRun[b]] = "WAITING_FOR_APPROVAL"]]
      BY <1>1 DEF BeginResolve
    <3>2. review'[q].waiting = (runStatus[actionRun[b]] = "WAITING_FOR_APPROVAL")
      BY <1>0, <3>1
    <3>3. \A p \in Reviewers \ {q} : review'[p] = review[p]
      BY <1>0, <3>1
    <3> QED
      BY <1>1, <2>3, <3>2, <3>3 DEF BeginResolve, dbVars
  <2> QED
    BY <1>0, <2>4, OtherStepsKeepWaiting
<1>2. ASSUME RefuseResolve(q) \/ LoseReview(q) \/ DispatchGranted(q) \/ RunGranted(q)
      PROVE  Waiting'
  <2>1. review'[q].pc # "ready"
    <3>1. CASE RefuseResolve(q) \/ LoseReview(q)
      BY <1>0, <3>1 DEF RefuseResolve, LoseReview, IdleReview
    <3>2. CASE DispatchGranted(q)
      BY <1>0, <3>2 DEF DispatchGranted, ReviewRequest
    <3>3. CASE RunGranted(q)
      BY <1>0, <3>3 DEF RunGranted, ReviewRequest
    <3> QED
      BY <1>2, <3>1, <3>2, <3>3
  <2>2. /\ \A p \in Reviewers \ {q} : review'[p] = review[p]
        /\ UNCHANGED <<runStatus, actionRun, approval>>
    BY <1>0, <1>2 DEF RefuseResolve, LoseReview, DispatchGranted, RunGranted, dbVars
  <2> QED
    BY <1>0, <2>1, <2>2, OtherStepsKeepWaiting
<1>3. ASSUME ExpireOnResolve(q) \/ DenyHold(q)
      PROVE  Waiting'
  <2>1. /\ a \in Actions /\ approval[a] = "PENDING" /\ review[q].waiting
    BY <1>0, <1>3 DEF ExpireOnResolve, DenyHold, Resolvable, SingleUse, OneReviewerEach
  <2>2. actionRun[a] \in Runs
    BY <2>1, StoredHasRun
  <2>3. /\ approval'[a] \in {"EXPIRED", "DENIED"}
        /\ \A b \in Actions \ {a} : approval'[b] = approval[b]
        /\ runStatus' = Released(actionRun[a], approval', LiveStatus)
        /\ actionRun' = actionRun
        /\ \A p \in Reviewers \ {q} : review'[p] = review[p]
        /\ review'[q].pc # "ready"
    BY <1>0, <1>3, <2>1 DEF ExpireOnResolve, DenyHold, IdleReview
  <2> HIDE DEF a
  <2> QED
    BY <1>0, <2>1, <2>2, <2>3, ReleaseKeepsWaiting
<1>4. ASSUME Grant(q)
      PROVE  Waiting'
  <2>1. a \in Actions /\ approval[a] = "PENDING"
    BY <1>4 DEF Grant, Resolvable, SingleUse, OneReviewerEach
  <2>2. /\ approval'[a] = "APPROVED"
        /\ \A b \in Actions \ {a} : approval'[b] = approval[b]
        /\ UNCHANGED <<runStatus, actionRun>>
        /\ \A p \in Reviewers \ {q} : review'[p] = review[p]
        /\ review'[q].pc # "ready"
    BY <1>0, <1>4, <2>1 DEF Grant, ReviewRequest
  <2> HIDE DEF a
  <2>3. WaitingIsJustified'
    BY <2>1, <2>2 DEF Waiting, WaitingIsJustified, PendingIn
  <2>4. WaitingWasRead'
    BY <1>0, <2>2 DEF Waiting, WaitingWasRead
  <2> QED
    BY <2>3, <2>4 DEF Waiting
<1>5. ASSUME RecordGranted(q)
      PROVE  Waiting'
  <2>1. a \in Actions /\ approval[a] = "APPROVED"
    BY <1>5 DEF RecordGranted, SingleUse, OneReviewerEach, Executing
  <2>2. actionRun[a] \in Runs
    BY <2>1, StoredHasRun
  <2>3. /\ approval'[a] = "CONSUMED"
        /\ \A b \in Actions \ {a} : approval'[b] = approval[b]
        /\ runStatus' = Released(actionRun[a], approval', LiveStatus)
        /\ actionRun' = actionRun
        /\ \A p \in Reviewers \ {q} : review'[p] = review[p]
        /\ review'[q].pc # "ready"
    BY <1>0, <1>5, <2>1 DEF RecordGranted, Consumed, IdleReview
  <2> HIDE DEF a
  <2> QED
    BY <1>0, <2>1, <2>2, <2>3, ReleaseKeepsWaiting
<1> QED
  BY <1>1, <1>2, <1>3, <1>4, <1>5 DEF ReviewStep

\* A sweep releases the runs it took the last pending approval of.
LEMMA SweepKeepsWaiting ==
    ASSUME TypeOK, Waiting, NEW s \in Sweepers, CommitSweep(s)
    PROVE  Waiting'
<1> DEFINE of(r) == {a \in Expirable(s) : actionRun[a] = r}
<1>0. runStatus \in [Runs -> RunStatus] /\ approval \in [Actions -> ApprovalStatus]
  BY DEF TypeOK
<1>1. /\ \A a \in Actions : \/ approval'[a] = approval[a] /\ a \notin Expirable(s)
                            \/ approval[a] = "PENDING" /\ approval'[a] = "EXPIRED"
      /\ UNCHANGED <<actionRun, review>>
      /\ \A r \in Runs : runStatus'[r] =
           IF of(r) # {} THEN Released(r, approval', {"WAITING_FOR_APPROVAL"})[r] ELSE runStatus[r]
  BY DEF CommitSweep, Expirable
<1> DEFINE spared == {a \in Actions : a \notin Expirable(s)}
<1>a. \A a \in spared : approval'[a] = approval[a]
  BY DEF CommitSweep
<1>2. ASSUME NEW r \in Runs
      PROVE  \/ runStatus'[r] = "ACTIVE" /\ PendingIn(approval', r) = {}
             \/ runStatus'[r] = runStatus[r] /\ PendingIn(approval', r) # {}
             \/ runStatus'[r] = runStatus[r] /\ runStatus[r] # "WAITING_FOR_APPROVAL"
             \/ runStatus'[r] = runStatus[r] /\ of(r) = {}
  BY <1>0, <1>1 DEF Released
<1>3. ASSUME NEW r \in Runs
      PROVE  /\ PendingIn(approval', r) \subseteq PendingIn(approval, r)
             /\ of(r) = {} => \A a \in Actions : actionRun[a] = r => approval'[a] = approval[a]
  <2>1. PendingIn(approval', r) \subseteq PendingIn(approval, r)
    BY <1>1 DEF PendingIn
  <2>2. ASSUME of(r) = {}, NEW a \in Actions, actionRun[a] = r
        PROVE  approval'[a] = approval[a]
    <3>1. a \in Expirable(s) => a \in of(r)
      BY <2>2
    <3>2. a \in spared
      BY <2>2, <3>1
    <3> HIDE DEF spared
    <3> QED
      BY <1>a, <3>2
  <2> QED
    BY <2>1, <2>2
<1>4. WaitingIsJustified'
  <2> SUFFICES ASSUME NEW r \in Runs
               PROVE  /\ runStatus'[r] = "ACTIVE" => PendingIn(approval', r) = {}
                      /\ runStatus'[r] = "WAITING_FOR_APPROVAL" =>
                           \E a \in Actions : actionRun[a] = r /\ approval'[a] \in {"PENDING", "APPROVED"}
    BY <1>1 DEF WaitingIsJustified, PendingIn
  <2>1. runStatus'[r] = "ACTIVE" => PendingIn(approval', r) = {}
    BY <1>2, <1>3 DEF Waiting, WaitingIsJustified
  <2>2. ASSUME runStatus'[r] = "WAITING_FOR_APPROVAL"
        PROVE  \E a \in Actions : actionRun[a] = r /\ approval'[a] \in {"PENDING", "APPROVED"}
    <3>1. CASE PendingIn(approval', r) # {}
      BY <3>1 DEF PendingIn
    <3>2. CASE of(r) = {} /\ runStatus'[r] = runStatus[r]
      BY <1>3, <2>2, <3>2 DEF Waiting, WaitingIsJustified
    <3> QED
      BY <1>2, <2>2, <3>1, <3>2
  <2> QED
    BY <2>1, <2>2
<1>5. WaitingWasRead'
  <2>1. \A r \in Runs : runStatus[r] # "ABSENT" => runStatus'[r] # "ABSENT"
    BY <1>2
  <2> QED
    BY <1>1, <2>1 DEF Waiting, WaitingWasRead
<1> QED
  BY <1>4, <1>5 DEF Waiting

LEMMA StepWaiting == TypeOK /\ SingleUse /\ Closure /\ Waiting /\ [Next]_vars => Waiting'
<1> SUFFICES ASSUME TypeOK, SingleUse, Closure, Waiting, [Next]_vars
             PROVE  Waiting'
  OBVIOUS
<1>0. \A q \in Reviewers : review[q].pc = "ready" => review[q].waiting
  BY DEF Waiting, WaitingWasRead
<1>1. ASSUME NEW a \in Actions, SubmitStep(a) \/ LoseSubmit(a) \/ \E r \in Runs : BeginSubmit(a, r)
      PROVE  Waiting'
  <2>1. CASE CommitAllow(a) \/ CommitHold(a) \/ CommitDeny(a)
    BY <2>1, CommitKeepsWaiting
  <2>2. CASE UNCHANGED <<runStatus, actionRun, approval, review>>
    BY <1>0, <2>2, OtherStepsKeepWaiting
  <2> QED
    BY <1>1, <2>1, <2>2
       DEF SubmitStep, LoseSubmit, BeginSubmit, AuditReturns, RefuseSubmit, DispatchAllowed,
           RunAllowed, RecordAllowed, dbVars
<1>2. ASSUME NEW a \in Actions, DeadlinePasses(a)
      PROVE  Waiting'
  BY <1>0, <1>2, OtherStepsKeepWaiting DEF DeadlinePasses, dbVars
<1>3. ASSUME NEW a \in Actions, ExpireWait(a)
      PROVE  Waiting'
  <2>1. /\ approval[a] = "PENDING" /\ approval'[a] = "EXPIRED"
        /\ \A b \in Actions \ {a} : approval'[b] = approval[b]
        /\ runStatus' = Released(actionRun[a], approval', {"WAITING_FOR_APPROVAL"})
        /\ UNCHANGED <<actionRun, review>>
    BY <1>3 DEF ExpireWait, TypeOK
  <2>2. actionRun[a] \in Runs
    BY <2>1, StoredHasRun
  <2> QED
    BY <1>0, <2>1, <2>2, ReleaseKeepsWaiting
<1>4. ASSUME NEW s \in Sweepers, NEW scope \in SweepScopes, BeginSweep(s, scope) \/ LoseSweep(s)
      PROVE  Waiting'
  BY <1>0, <1>4, OtherStepsKeepWaiting DEF BeginSweep, LoseSweep, dbVars
<1>5. CASE UNCHANGED vars
  BY <1>0, <1>5, OtherStepsKeepWaiting DEF vars, dbVars
<1> QED
  BY <1>1, <1>2, <1>3, <1>4, <1>5, RunKeepsWaiting, ReviewKeepsWaiting, SweepKeepsWaiting
     DEF Next, SweepScopes, LoseSweep

THEOREM WaitingHolds == Spec => []Waiting
<1>1. Init => Waiting
  BY InitWaiting
<1>2. TypeOK /\ SingleUse /\ Closure /\ Waiting /\ [Next]_vars => Waiting'
  BY StepWaiting
<1> QED
  BY <1>1, <1>2, TypeCorrect, SingleUseHolds, ClosureHolds, PTL DEF Spec

\* An ACTIVE run has no approval left to decide, and a waiting one has an
\* approval that is pending or being executed.
THEOREM RunsWaitWithReason == Spec => []WaitingIsJustified
<1>1. Waiting => WaitingIsJustified
  BY DEF Waiting
<1> QED
  BY <1>1, WaitingHolds, PTL

-----------------------------------------------------------------------------
(* The refinement: every step of a handler is a step of RunAuthorization, or *)
(* changes nothing it can see.                                               *)

\* RunAuthorization's variables, as GatewayRefinement maps them.
OpenRuns   == {r \in Runs : runStatus[r] \in LiveStatus}
ClosedRuns == {r \in Runs : runStatus[r] \in TerminalStatus}
Phases     == [a \in Actions |-> PhaseOf(a)]

LEMMA InitRefines == Init => Authorization!Init
BY DEF Init, Authorization!Init, PhaseOf, LiveStatus, TerminalStatus

\* What a step that RunAuthorization cannot see leaves alone.
Invisible == UNCHANGED <<OpenRuns, ClosedRuns, actionRun, Phases, effects>>

LEMMA InvisibleStutters == Invisible => UNCHANGED Authorization!vars
BY DEF Invisible, OpenRuns, ClosedRuns, Phases, Authorization!vars

LEMMA OpenRunStep ==
    ASSUME NEW r \in Runs, r \notin OpenRuns \cup ClosedRuns,
           OpenRuns' = OpenRuns \cup {r},
           UNCHANGED <<ClosedRuns, actionRun, Phases, effects>>
    PROVE  Authorization!Next
<1>1. Authorization!OpenRun(r)
  BY DEF Authorization!OpenRun, OpenRuns, ClosedRuns, Phases
<1> QED
  BY <1>1 DEF Authorization!Next

LEMMA CloseRunStep ==
    ASSUME NEW r \in OpenRuns,
           \A a \in Actions : actionRun[a] = r => PhaseOf(a) # "authorised",
           OpenRuns' = OpenRuns \ {r}, ClosedRuns' = ClosedRuns \cup {r},
           UNCHANGED <<actionRun, Phases, effects>>
    PROVE  Authorization!Next
<1>1. r \in Runs
  BY DEF OpenRuns
<1>2. Authorization!CloseRun(r)
  BY DEF Authorization!CloseRun, OpenRuns, ClosedRuns, Phases
<1> QED
  BY <1>1, <1>2 DEF Authorization!Next

LEMMA DecideStep ==
    ASSUME NEW a \in Actions, NEW r \in OpenRuns,
           PhaseOf(a) = "unseen", PhaseOf(a)' \in {"held", "authorised", "refused"},
           \A b \in Actions \ {a} : PhaseOf(b)' = PhaseOf(b),
           actionRun' = [actionRun EXCEPT ![a] = r],
           UNCHANGED <<OpenRuns, ClosedRuns, effects>>
    PROVE  Authorization!Next
<1>1. r \in Runs
  BY DEF OpenRuns
<1>2. Phases' = [Phases EXCEPT ![a] = PhaseOf(a)']
  BY DEF Phases
<1>3. Authorization!Decide(a, r)
  BY <1>2 DEF Authorization!Decide, OpenRuns, ClosedRuns, Phases
<1> QED
  BY <1>1, <1>3 DEF Authorization!Next

LEMMA ApproveStep ==
    ASSUME NEW a \in Actions, actionRun[a] \in OpenRuns,
           PhaseOf(a) = "held", PhaseOf(a)' = "authorised",
           \A b \in Actions \ {a} : PhaseOf(b)' = PhaseOf(b),
           UNCHANGED <<OpenRuns, ClosedRuns, actionRun, effects>>
    PROVE  Authorization!Next
<1>1. Phases' = [Phases EXCEPT ![a] = "authorised"]
  BY DEF Phases
<1>2. Authorization!Approve(a)
  BY <1>1 DEF Authorization!Approve, OpenRuns, ClosedRuns, Phases
<1> QED
  BY <1>2 DEF Authorization!Next

LEMMA WithdrawStep ==
    ASSUME NEW S \in SUBSET Actions,
           \A a \in S : PhaseOf(a) = "held" /\ PhaseOf(a)' = "refused",
           \A a \in Actions \ S : PhaseOf(a)' = PhaseOf(a),
           UNCHANGED <<OpenRuns, ClosedRuns, actionRun, effects>>
    PROVE  Authorization!Next \/ Invisible
<1>1. CASE S = {}
  BY <1>1 DEF Invisible, Phases
<1>2. CASE S # {}
  <2>1. Phases' = [a \in Actions |-> IF a \in S THEN "refused" ELSE Phases[a]]
    BY DEF Phases
  <2>2. Authorization!Withdraw(S)
    BY <1>2, <2>1 DEF Authorization!Withdraw, OpenRuns, ClosedRuns, Phases
  <2> QED
    BY <2>2 DEF Authorization!Next
<1> QED
  BY <1>1, <1>2

LEMMA ActStep ==
    ASSUME NEW a \in Actions, PhaseOf(a) = "authorised", effects[a] = 0,
           effects' = [effects EXCEPT ![a] = 1],
           UNCHANGED <<OpenRuns, ClosedRuns, actionRun, Phases>>
    PROVE  Authorization!Next
<1>1. Authorization!Act(a)
  BY DEF Authorization!Act, OpenRuns, ClosedRuns, Phases
<1> QED
  BY <1>1 DEF Authorization!Next

LEMMA SettleStep ==
    ASSUME NEW a \in Actions, PhaseOf(a) = "authorised",
           PhaseOf(a)' \in {"succeeded", "failed"},
           PhaseOf(a)' = "succeeded" => effects[a] = 1,
           \A b \in Actions \ {a} : PhaseOf(b)' = PhaseOf(b),
           UNCHANGED <<OpenRuns, ClosedRuns, actionRun, effects>>
    PROVE  Authorization!Next
<1>1. Phases' = [Phases EXCEPT ![a] = PhaseOf(a)']
  BY DEF Phases
<1>2. Authorization!Settle(a)
  BY <1>1 DEF Authorization!Settle, OpenRuns, ClosedRuns, Phases
<1> QED
  BY <1>2 DEF Authorization!Next

\* Where an action stands, read from its decision, approval and receipt.
PhaseTable ==
    \A a \in Actions :
        /\ decision[a] = "NONE" => PhaseOf(a) = "unseen"
        /\ decision[a] = "DENY" => PhaseOf(a) = "refused"
        /\ decision[a] = "ALLOW" =>
             /\ receipt[a] = "NONE" => PhaseOf(a) = "authorised"
             /\ receipt[a] = "EXECUTED" => PhaseOf(a) = "succeeded"
             /\ receipt[a] = "FAILED" => PhaseOf(a) = "failed"
        /\ decision[a] = "HOLD" =>
             /\ approval[a] = "PENDING" => PhaseOf(a) = "held"
             /\ approval[a] = "APPROVED" => PhaseOf(a) = "authorised"
             /\ approval[a] \in {"DENIED", "EXPIRED"} => PhaseOf(a) = "refused"
             /\ approval[a] = "CONSUMED" =>
                  /\ receipt[a] = "EXECUTED" => PhaseOf(a) = "succeeded"
                  /\ receipt[a] # "EXECUTED" => PhaseOf(a) = "failed"

LEMMA PhasesAreTabled == PhaseTable
<1>1. ASSUME NEW a \in Actions
      PROVE  /\ receipt[a] = "NONE" => AllowPhase(a) = "authorised"
             /\ receipt[a] = "EXECUTED" => AllowPhase(a) = "succeeded"
             /\ receipt[a] = "FAILED" => AllowPhase(a) = "failed"
  BY DEF AllowPhase
<1>2. ASSUME NEW a \in Actions
      PROVE  /\ approval[a] = "PENDING" => HoldPhase(a) = "held"
             /\ approval[a] = "APPROVED" => HoldPhase(a) = "authorised"
             /\ approval[a] \in {"DENIED", "EXPIRED"} => HoldPhase(a) = "refused"
             /\ approval[a] = "CONSUMED" =>
                  /\ receipt[a] = "EXECUTED" => HoldPhase(a) = "succeeded"
                  /\ receipt[a] # "EXECUTED" => HoldPhase(a) = "failed"
  BY DEF HoldPhase
<1>3. ASSUME NEW a \in Actions
      PROVE  /\ decision[a] = "NONE" => PhaseOf(a) = "unseen"
             /\ decision[a] = "DENY" => PhaseOf(a) = "refused"
             /\ decision[a] = "ALLOW" => PhaseOf(a) = AllowPhase(a)
             /\ decision[a] = "HOLD" => PhaseOf(a) = HoldPhase(a)
  BY DEF PhaseOf
<1> QED
  BY <1>1, <1>2, <1>3 DEF PhaseTable

\* An action whose rows a step leaves alone stays where it is.
LEMMA PhaseKept ==
    ASSUME NEW a \in Actions,
           decision'[a] = decision[a], approval'[a] = approval[a], receipt'[a] = receipt[a]
    PROVE  PhaseOf(a)' = PhaseOf(a)
BY DEF PhaseOf, AllowPhase, HoldPhase

\* A run released, or made to wait, is as open as it was.
LEMMA SameRuns ==
    ASSUME \A x \in Runs : \/ runStatus'[x] = runStatus[x]
                           \/ runStatus[x] \in LiveStatus /\ runStatus'[x] \in LiveStatus
    PROVE  UNCHANGED <<OpenRuns, ClosedRuns>>
<1>1. LiveStatus \cap TerminalStatus = {}
  BY DEF LiveStatus, TerminalStatus
<1> QED
  BY <1>1 DEF OpenRuns, ClosedRuns

LEMMA ReleasedSameRuns ==
    ASSUME NEW r \in Runs, NEW ap, NEW statuses \in {LiveStatus, {"WAITING_FOR_APPROVAL"}},
           runStatus \in [Runs -> RunStatus]
    PROVE  \A x \in Runs : \/ Released(r, ap, statuses)[x] = runStatus[x]
                           \/ /\ runStatus[x] \in LiveStatus
                              /\ Released(r, ap, statuses)[x] \in LiveStatus
BY DEF Released, LiveStatus

LEMMA RunRefines ==
    ASSUME TypeOK, SingleUse, Closure, Receipts, NEW r \in Runs,
           CreateRun(r) \/ CompleteRun(r) \/ FailRun(r)
    PROVE  Authorization!Next \/ Invisible
<1>0. /\ runStatus \in [Runs -> RunStatus]
      /\ UNCHANGED <<decision, approval, receipt, actionRun, effects>>
  BY DEF TypeOK, CreateRun, CompleteRun, FailRun, CloseRun
<1>1. UNCHANGED Phases
  BY <1>0, PhaseKept DEF Phases
<1>2. CASE CreateRun(r)
  <2>1. /\ r \notin OpenRuns \cup ClosedRuns
        /\ OpenRuns' = OpenRuns \cup {r}
        /\ ClosedRuns' = ClosedRuns
    BY <1>0, <1>2 DEF CreateRun, OpenRuns, ClosedRuns, LiveStatus, TerminalStatus
  <2> QED
    BY <1>0, <1>1, <2>1, OpenRunStep
<1>3. CASE CompleteRun(r) \/ FailRun(r)
  <2>1. /\ ~HasInFlight(r) /\ runStatus[r] # "ABSENT"
        /\ runStatus'[r] \in TerminalStatus
        /\ \A x \in Runs \ {r} : runStatus'[x] = runStatus[x]
    BY <1>0, <1>3 DEF CompleteRun, FailRun, CloseRun, TerminalStatus
  <2>2. CASE runStatus[r] \in TerminalStatus
    <3>1. UNCHANGED <<OpenRuns, ClosedRuns>>
      BY <2>1, <2>2 DEF OpenRuns, ClosedRuns, LiveStatus, TerminalStatus
    <3> QED
      BY <1>0, <1>1, <3>1 DEF Invisible
  <2>3. CASE runStatus[r] \in LiveStatus
    <3>1. /\ r \in OpenRuns
          /\ OpenRuns' = OpenRuns \ {r}
          /\ ClosedRuns' = ClosedRuns \cup {r}
      BY <2>1, <2>3 DEF OpenRuns, ClosedRuns, LiveStatus, TerminalStatus
    <3>2. ASSUME NEW a \in Actions, actionRun[a] = r
          PROVE  PhaseOf(a) # "authorised"
      <4>1. PhaseTable
        BY PhasesAreTabled
      <4>2. CASE decision[a] = "ALLOW"
        <5>1. Logged(r, a, {"EXECUTION_STARTED"})
          BY <3>2, <4>2 DEF Closure, StartIsLogged
        <5>2. Logged(r, a, TerminalExecutionEvents)
          BY <2>1, <5>1 DEF HasInFlight, InFlight
        <5>3. receipt[a] \in {"EXECUTED", "FAILED"}
          BY <5>2 DEF Receipts, LogMatchesReceipt
        <5> QED
          BY <4>1, <4>2, <5>3 DEF PhaseTable
      <4>3. CASE decision[a] = "HOLD"
        <5>1. approval[a] \in ApprovalStatus \ {"NONE", "APPROVED"}
          BY <2>1, <3>2, <4>3 DEF HasInFlight, TypeOK, SingleUse, OneDecision
        <5>2. approval[a] \in {"PENDING", "DENIED", "EXPIRED", "CONSUMED"}
          BY <5>1 DEF ApprovalStatus
        <5>3. CASE approval[a] = "CONSUMED"
          BY <4>1, <4>3, <5>3 DEF PhaseTable
        <5>4. CASE approval[a] \in {"PENDING", "DENIED", "EXPIRED"}
          BY <4>1, <4>3, <5>4 DEF PhaseTable
        <5> QED
          BY <5>2, <5>3, <5>4
      <4>4. CASE decision[a] \in {"NONE", "DENY"}
        BY <4>1, <4>4 DEF PhaseTable
      <4> QED
        BY <4>2, <4>3, <4>4 DEF TypeOK, PolicyOutcome
    <3> QED
      BY <1>0, <1>1, <3>1, <3>2, CloseRunStep
  <2> QED
    BY <1>0, <2>1, <2>2, <2>3 DEF RunStatus
<1> QED
  BY <1>2, <1>3

\* The policy's decision is the only thing a submission shows before it acts.
LEMMA CommitRefines ==
    ASSUME TypeOK, SingleUse, Closure, Receipts, NEW a \in Actions,
           CommitAllow(a) \/ CommitHold(a) \/ CommitDeny(a)
    PROVE  Authorization!Next
<1> DEFINE r == submit[a].run
<1>0. /\ decision \in [Actions -> PolicyOutcome \cup {"NONE"}]
      /\ approval \in [Actions -> ApprovalStatus]
      /\ receipt \in [Actions -> {"NONE", "EXECUTED", "FAILED", "NOT_EXECUTED"}]
      /\ runStatus \in [Runs -> RunStatus]
  BY DEF TypeOK
<1>1. /\ submit[a].pc = "decided" /\ runStatus[r] \in LiveStatus
      /\ actionRun' = [actionRun EXCEPT ![a] = r]
      /\ effects' = effects
      /\ \/ decision'[a] = "ALLOW" /\ receipt'[a] = receipt[a]
         \/ decision'[a] = "HOLD" /\ approval'[a] = "PENDING"
         \/ decision'[a] = "DENY"
      /\ \A b \in Actions \ {a} : /\ decision'[b] = decision[b]
                                  /\ approval'[b] = approval[b]
                                  /\ receipt'[b] = receipt[b]
      /\ runStatus' \in {runStatus, [runStatus EXCEPT ![r] = "WAITING_FOR_APPROVAL"]}
  BY <1>0 DEF CommitAllow, CommitHold, CommitDeny, CommitDecision, StillLive
<1>2. r \in Runs /\ decision[a] = "NONE" /\ receipt[a] = "NONE"
  BY <1>1 DEF Closure, OneOwner, SingleUse, OneDecision, Undecided, Receipts,
              ReceiptsInOrder, ReceiptsOf
<1>3. PhaseTable /\ PhaseTable'
  BY PhasesAreTabled, PTL
<1> HIDE DEF r
<1>4. PhaseOf(a) = "unseen" /\ PhaseOf(a)' \in {"held", "authorised", "refused"}
  BY <1>1, <1>2, <1>3 DEF PhaseTable
<1>5. \A b \in Actions \ {a} : PhaseOf(b)' = PhaseOf(b)
  BY <1>1, PhaseKept
<1>6. UNCHANGED <<OpenRuns, ClosedRuns>> /\ r \in OpenRuns
  <2>1. \A x \in Runs : \/ runStatus'[x] = runStatus[x]
                        \/ runStatus[x] \in LiveStatus /\ runStatus'[x] \in LiveStatus
    BY <1>0, <1>1 DEF LiveStatus
  <2>2. r \in OpenRuns
    BY <1>1, <1>2 DEF OpenRuns
  <2> QED
    BY <2>1, <2>2, SameRuns
<1> QED
  BY <1>1, <1>4, <1>5, <1>6, DecideStep

\* The first effect of an action is its only one.
LEMMA EffectOnce ==
    ASSUME effects \in [Actions -> Nat], NEW a \in Actions, NEW pc, effects[a] = 0, Effect(a, pc)
    PROVE  effects' = effects \/ effects' = [effects EXCEPT ![a] = 1]
<1>1. PICK touched \in BOOLEAN :
        effects' = [effects EXCEPT ![a] = @ + (IF touched THEN 1 ELSE 0)]
  BY DEF Effect
<1>2. CASE touched
  <2>1. effects' = [effects EXCEPT ![a] = 0 + 1]
    BY <1>1, <1>2
  <2> QED
    BY <2>1
<1>3. CASE ~touched
  <2>1. effects' = [effects EXCEPT ![a] = 0 + 0]
    BY <1>1, <1>3
  <2> QED
    BY <2>1
<1> QED
  BY <1>2, <1>3

\* The execution of an allowed action.
LEMMA AllowedRefines ==
    ASSUME TypeOK, SingleUse, Closure, Receipts, NEW a \in Actions,
           RunAllowed(a) \/ RecordAllowed(a)
    PROVE  Authorization!Next \/ Invisible
<1>0. /\ effects \in [Actions -> Nat]
      /\ receipt \in [Actions -> {"NONE", "EXECUTED", "FAILED", "NOT_EXECUTED"}]
      /\ UNCHANGED <<runStatus, actionRun, decision, approval>>
  BY DEF TypeOK, RunAllowed, RecordAllowed, dbVars
<1>1. UNCHANGED <<OpenRuns, ClosedRuns>>
  BY <1>0 DEF OpenRuns, ClosedRuns
<1>2. submit[a].pc \in Executing /\ decision[a] = "ALLOW" /\ receipt[a] = "NONE"
  BY DEF RunAllowed, RecordAllowed, Executing, SingleUse, OneDecision, Receipts, ReceiptsInOrder
<1>3. PhaseTable /\ PhaseTable'
  BY PhasesAreTabled, PTL
<1>4. PhaseOf(a) = "authorised"
  BY <1>2, <1>3 DEF PhaseTable
<1>5. CASE RunAllowed(a)
  <2>1. UNCHANGED Phases
    BY <1>5, PhaseKept DEF RunAllowed, Phases, dbVars
  <2>2. effects[a] = 0
    BY <1>5 DEF RunAllowed, SingleUse, EffectIsPast
  <2>3. effects' = effects \/ effects' = [effects EXCEPT ![a] = 1]
    BY <1>0, <1>5, <2>2, EffectOnce DEF RunAllowed
  <2>4. CASE effects' = effects
    BY <1>0, <1>1, <2>1, <2>4 DEF Invisible
  <2>5. CASE effects' = [effects EXCEPT ![a] = 1]
    BY <1>0, <1>1, <1>4, <2>1, <2>2, <2>5, ActStep
  <2> QED
    BY <2>3, <2>4, <2>5
<1>6. CASE RecordAllowed(a)
  <2>1. /\ submit[a].pc \in {"succeeded", "failed"}
        /\ receipt'[a] = ReceiptStatus(submit[a].pc)
        /\ \A b \in Actions \ {a} : receipt'[b] = receipt[b]
        /\ effects' = effects
    BY <1>0, <1>6 DEF RecordAllowed
  <2>2. /\ receipt'[a] \in {"EXECUTED", "FAILED"}
        /\ receipt'[a] = "EXECUTED" => effects[a] = 1
    BY <2>1 DEF ReceiptStatus, Receipts, SuccessIsReal
  <2>3. \/ PhaseOf(a)' = "succeeded" /\ receipt'[a] = "EXECUTED"
        \/ PhaseOf(a)' = "failed"
    BY <1>0, <1>2, <1>3, <2>2 DEF PhaseTable
  <2>4. \A b \in Actions \ {a} : PhaseOf(b)' = PhaseOf(b)
    BY <1>0, <2>1, PhaseKept
  <2> QED
    BY <1>0, <1>1, <1>4, <2>1, <2>2, <2>3, <2>4, SettleStep
<1> QED
  BY <1>5, <1>6

\* A review, in each of its steps.
LEMMA ReviewRefines ==
    ASSUME TypeOK, SingleUse, Closure, Receipts, NEW q \in Reviewers, ReviewStep(q),
           NEW a, a = review[q].action
    PROVE  Authorization!Next \/ Invisible
<1>0. /\ runStatus \in [Runs -> RunStatus]
      /\ effects \in [Actions -> Nat]
      /\ approval \in [Actions -> ApprovalStatus]
      /\ receipt \in [Actions -> {"NONE", "EXECUTED", "FAILED", "NOT_EXECUTED"}]
  BY DEF TypeOK
<1>1. PhaseTable /\ PhaseTable'
  BY PhasesAreTabled, PTL
<1>2. ASSUME review[q].pc \in Executing \cup {"ready"}
      PROVE  /\ a \in Actions
             /\ review[q].pc \in Executing => approval[a] = "APPROVED" /\ decision[a] = "HOLD"
             /\ approval[a] = "PENDING" => decision[a] = "HOLD" /\ actionRun[a] \in Runs
  <2>1. a \in Actions
    BY <1>2 DEF SingleUse, OneReviewerEach, Executing
  <2> QED
    BY <1>2, <2>1, StoredHasRun DEF SingleUse, OneDecision, OneReviewerEach, Executing
<1>3. CASE RefuseResolve(q) \/ DispatchGranted(q)
  <2>1. UNCHANGED <<runStatus, decision, approval, receipt, actionRun, effects>>
    BY <1>3 DEF RefuseResolve, DispatchGranted, dbVars
  <2>2. UNCHANGED <<OpenRuns, ClosedRuns, Phases>>
    BY <2>1, PhaseKept DEF OpenRuns, ClosedRuns, Phases
  <2> QED
    BY <2>1, <2>2 DEF Invisible
<1>4. CASE ExpireOnResolve(q) \/ DenyHold(q)
  <2>1. /\ a \in Actions /\ approval[a] = "PENDING" /\ decision[a] = "HOLD"
        /\ actionRun[a] \in Runs
    BY <1>2, <1>4 DEF ExpireOnResolve, DenyHold, Resolvable
  <2>2. /\ approval'[a] \in {"EXPIRED", "DENIED"}
        /\ \A b \in Actions \ {a} : approval'[b] = approval[b] /\ receipt'[b] = receipt[b]
        /\ UNCHANGED <<decision, actionRun, effects>>
        /\ runStatus' \in {runStatus, Released(actionRun[a], approval', LiveStatus)}
    BY <1>0, <1>4, <2>1 DEF ExpireOnResolve, DenyHold
  <2>3. PhaseOf(a) = "held" /\ PhaseOf(a)' = "refused"
    BY <1>1, <2>1, <2>2 DEF PhaseTable
  <2>4. \A b \in Actions \ {a} : PhaseOf(b)' = PhaseOf(b)
    BY <2>2, PhaseKept
  <2>5. \A x \in Runs :
          \/ Released(actionRun[a], approval', LiveStatus)[x] = runStatus[x]
          \/ /\ runStatus[x] \in LiveStatus
             /\ Released(actionRun[a], approval', LiveStatus)[x] \in LiveStatus
    BY <1>0, <2>1, ReleasedSameRuns
  <2>6. UNCHANGED <<OpenRuns, ClosedRuns>>
    BY <2>2, <2>5, SameRuns
  <2> DEFINE S == {a}
  <2>7. /\ S \in SUBSET Actions
        /\ \A b \in S : PhaseOf(b) = "held" /\ PhaseOf(b)' = "refused"
        /\ \A b \in Actions \ S : PhaseOf(b)' = PhaseOf(b)
    BY <2>1, <2>3, <2>4
  <2> HIDE DEF S
  <2> QED
    BY <2>2, <2>6, <2>7, WithdrawStep
<1>5. CASE Grant(q)
  <2>1. /\ a \in Actions /\ approval[a] = "PENDING" /\ decision[a] = "HOLD"
        /\ actionRun[a] \in Runs /\ runStatus[actionRun[a]] \in LiveStatus
    BY <1>2, <1>5 DEF Grant, Resolvable
  <2>2. /\ approval'[a] = "APPROVED"
        /\ \A b \in Actions \ {a} : approval'[b] = approval[b]
        /\ UNCHANGED <<runStatus, decision, receipt, actionRun, effects>>
    BY <1>0, <1>5, <2>1 DEF Grant
  <2>3. PhaseOf(a) = "held" /\ PhaseOf(a)' = "authorised"
    BY <1>1, <2>1, <2>2 DEF PhaseTable
  <2>4. \A b \in Actions \ {a} : PhaseOf(b)' = PhaseOf(b)
    BY <2>2, PhaseKept
  <2>5. actionRun[a] \in OpenRuns /\ UNCHANGED <<OpenRuns, ClosedRuns>>
    BY <2>1, <2>2 DEF OpenRuns, ClosedRuns
  <2> QED
    BY <2>1, <2>2, <2>3, <2>4, <2>5, ApproveStep
<1>6. CASE RunGranted(q)
  <2>1. a \in Actions /\ approval[a] = "APPROVED" /\ decision[a] = "HOLD"
    BY <1>2, <1>6 DEF RunGranted, Executing
  <2>2. effects[a] = 0
    BY <1>6, <2>1 DEF RunGranted, SingleUse, EffectIsPast
  <2>3. effects' = effects \/ effects' = [effects EXCEPT ![a] = 1]
    BY <1>0, <1>6, <2>1, <2>2, EffectOnce DEF RunGranted
  <2>4. UNCHANGED <<runStatus, decision, approval, receipt, actionRun>>
    BY <1>6 DEF RunGranted, dbVars
  <2>5. UNCHANGED <<OpenRuns, ClosedRuns, Phases>>
    BY <2>4, PhaseKept DEF OpenRuns, ClosedRuns, Phases
  <2>6. PhaseOf(a) = "authorised"
    BY <1>1, <2>1 DEF PhaseTable
  <2>7. CASE effects' = effects
    BY <2>4, <2>5, <2>7 DEF Invisible
  <2>8. CASE effects' = [effects EXCEPT ![a] = 1]
    BY <2>1, <2>2, <2>4, <2>5, <2>6, <2>8, ActStep
  <2> QED
    BY <2>3, <2>7, <2>8
<1>7. CASE RecordGranted(q)
  <2>1. review[q].pc \in {"succeeded", "failed"} /\ review[q].pc \in Executing
    BY <1>7 DEF RecordGranted, Executing
  <2>2. /\ a \in Actions /\ approval[a] = "APPROVED" /\ decision[a] = "HOLD"
        /\ actionRun[a] \in Runs
    BY <1>2, <2>1, StoredHasRun
  <2>3. /\ approval'[a] = "CONSUMED" /\ receipt'[a] = ReceiptStatus(review[q].pc)
        /\ \A b \in Actions \ {a} : approval'[b] = approval[b] /\ receipt'[b] = receipt[b]
        /\ UNCHANGED <<decision, actionRun, effects>>
        /\ runStatus' = Released(actionRun[a], approval', LiveStatus)
    BY <1>0, <1>7, <2>2 DEF RecordGranted, Consumed
  <2>4. receipt'[a] = "EXECUTED" => effects[a] = 1
    BY <2>1, <2>3 DEF ReceiptStatus, Receipts, SuccessIsReal
  <2>5. /\ PhaseOf(a) = "authorised"
        /\ \/ PhaseOf(a)' = "succeeded" /\ receipt'[a] = "EXECUTED"
           \/ PhaseOf(a)' = "failed"
    BY <1>1, <2>2, <2>3 DEF PhaseTable
  <2>6. \A b \in Actions \ {a} : PhaseOf(b)' = PhaseOf(b)
    BY <2>3, PhaseKept
  <2>7. UNCHANGED <<OpenRuns, ClosedRuns>>
    BY <1>0, <2>2, <2>3, ReleasedSameRuns, SameRuns
  <2> QED
    BY <2>2, <2>3, <2>4, <2>5, <2>6, <2>7, SettleStep
<1> QED
  BY <1>3, <1>4, <1>5, <1>6, <1>7 DEF ReviewStep

\* Approvals that expire withdraw their actions, also in a closed run.
LEMMA ExpiryRefines ==
    ASSUME TypeOK, SingleUse, Closure, Receipts,
           \/ \E a \in Actions : ExpireWait(a)
           \/ \E s \in Sweepers : CommitSweep(s)
    PROVE  Authorization!Next \/ Invisible
<1> DEFINE S == {a \in Actions : approval'[a] # approval[a]}
<1>0. /\ runStatus \in [Runs -> RunStatus]
      /\ approval \in [Actions -> ApprovalStatus]
  BY DEF TypeOK
<1>1. /\ \A a \in Actions : \/ approval'[a] = approval[a]
                            \/ approval[a] = "PENDING" /\ approval'[a] = "EXPIRED"
      /\ UNCHANGED <<decision, receipt, actionRun, effects>>
  <2>1. CASE \E a \in Actions : ExpireWait(a)
    BY <1>0, <2>1 DEF ExpireWait
  <2>2. CASE \E s \in Sweepers : CommitSweep(s)
    BY <2>2 DEF CommitSweep, Expirable
  <2> QED
    BY <2>1, <2>2
<1>2. UNCHANGED <<OpenRuns, ClosedRuns>>
  <2>1. CASE \E a \in Actions : ExpireWait(a)
    <3>1. PICK a \in Actions : ExpireWait(a)
      BY <2>1
    <3>2. approval[a] = "PENDING" /\ runStatus' = Released(actionRun[a], approval', {"WAITING_FOR_APPROVAL"})
      BY <3>1 DEF ExpireWait
    <3>3. actionRun[a] \in Runs
      BY <3>2, StoredHasRun
    <3> QED
      BY <1>0, <3>2, <3>3, ReleasedSameRuns, SameRuns
  <2>2. CASE \E s \in Sweepers : CommitSweep(s)
    <3>1. \A x \in Runs : runStatus'[x] \in
            {runStatus[x], Released(x, approval', {"WAITING_FOR_APPROVAL"})[x]}
      BY <2>2 DEF CommitSweep
    <3> QED
      BY <1>0, <3>1, ReleasedSameRuns, SameRuns
  <2> QED
    BY <2>1, <2>2
<1>3. PhaseTable /\ PhaseTable'
  BY PhasesAreTabled, PTL
<1>4. \A a \in S : PhaseOf(a) = "held" /\ PhaseOf(a)' = "refused"
  <2> SUFFICES ASSUME NEW a \in S
               PROVE  PhaseOf(a) = "held" /\ PhaseOf(a)' = "refused"
    OBVIOUS
  <2>1. approval[a] = "PENDING" /\ approval'[a] = "EXPIRED"
    BY <1>1
  <2>2. decision[a] = "HOLD" /\ decision'[a] = "HOLD"
    BY <1>1, <2>1 DEF SingleUse, OneDecision
  <2> QED
    BY <1>3, <2>1, <2>2 DEF PhaseTable
<1>5. \A a \in Actions \ S : PhaseOf(a)' = PhaseOf(a)
  BY <1>1, PhaseKept
<1>6. S \in SUBSET Actions
  OBVIOUS
<1> HIDE DEF S
<1> QED
  BY <1>1, <1>2, <1>4, <1>5, <1>6, WithdrawStep

LEMMA StepRefines ==
    ASSUME TypeOK, SingleUse, Closure, Receipts, [Next]_vars
    PROVE  Authorization!Next \/ Invisible
<1>1. ASSUME UNCHANGED dbVars, UNCHANGED effects
      PROVE  Invisible
  <2>1. UNCHANGED <<runStatus, decision, approval, receipt, actionRun, effects>>
    BY <1>1 DEF dbVars
  <2> QED
    BY <2>1, PhaseKept DEF Invisible, OpenRuns, ClosedRuns, Phases
<1>2. ASSUME NEW a \in Actions, SubmitStep(a)
      PROVE  Authorization!Next \/ Invisible
  BY <1>1, <1>2, CommitRefines, AllowedRefines
     DEF SubmitStep, AuditReturns, RefuseSubmit, DispatchAllowed
<1>3. ASSUME \/ \E a \in Actions, r \in Runs : BeginSubmit(a, r)
             \/ \E a \in Actions : DeadlinePasses(a) \/ LoseSubmit(a)
             \/ \E q \in Reviewers, a \in Actions : BeginResolve(q, a)
             \/ \E q \in Reviewers : LoseReview(q)
             \/ \E s \in Sweepers, scope \in SweepScopes : BeginSweep(s, scope)
             \/ \E s \in Sweepers : LoseSweep(s)
             \/ UNCHANGED vars
      PROVE  Invisible
  BY <1>1, <1>3 DEF BeginSubmit, DeadlinePasses, LoseSubmit, BeginResolve, LoseReview,
                    BeginSweep, LoseSweep, vars
<1>4. ASSUME NEW q \in Reviewers, ReviewStep(q)
      PROVE  Authorization!Next \/ Invisible
  <2>1. PICK a : a = review[q].action
    OBVIOUS
  <2> QED
    BY <1>4, <2>1, ReviewRefines
<1> QED
  BY <1>2, <1>3, <1>4, RunRefines, ExpiryRefines DEF Next

\* The handlers, with every interleaving and death, implement the authority
\* RunAuthorization describes: no effect outside an authorisation, none twice,
\* no run closed over an authorised action, nothing authorised in a closed run.
THEOREM GatewayImplementsAuthorization == Spec => ImplementsAuthorization
<1>1. Init => Authorization!Init
  BY InitRefines
<1>2. TypeOK /\ SingleUse /\ Closure /\ Receipts /\ [Next]_vars
        => [Authorization!Next]_(Authorization!vars)
  BY StepRefines, InvisibleStutters
<1> QED
  BY <1>1, <1>2, TypeCorrect, SingleUseHolds, ClosureHolds, ReceiptsHold, PTL
     DEF Spec, ImplementsAuthorization, Authorization!Spec

=============================================================================
