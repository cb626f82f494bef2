------------------------ MODULE GatewayEvidence_proofs ------------------------
(***************************************************************************)
(* Whatever the handlers interleave, the offline verifier accepts the log  *)
(* of every run: it remembers of each action what the tables hold.         *)
(***************************************************************************)
EXTENDS GatewayLifecycle_proofs, EvidenceChain_proofs

-----------------------------------------------------------------------------
(* The lifecycles that occur, and the records between them. *)

Lifecycle(outcome, requested, answer, started, terminal) ==
    [decision |-> outcome, requested |-> requested, approval |-> answer,
     started |-> started, terminal |-> terminal]

AllowedNew   == Lifecycle("POLICY_ALLOWED", FALSE, "NONE", FALSE, FALSE)
AllowedBusy  == Lifecycle("POLICY_ALLOWED", FALSE, "NONE", TRUE, FALSE)
AllowedDone  == Lifecycle("POLICY_ALLOWED", FALSE, "NONE", TRUE, TRUE)
HeldNew      == Lifecycle("POLICY_HELD", FALSE, "NONE", FALSE, FALSE)
HeldPending  == Lifecycle("POLICY_HELD", TRUE, "NONE", FALSE, FALSE)
HeldGranted  == Lifecycle("POLICY_HELD", TRUE, "GRANTED", FALSE, FALSE)
HeldBusy     == Lifecycle("POLICY_HELD", TRUE, "GRANTED", TRUE, FALSE)
HeldDone     == Lifecycle("POLICY_HELD", TRUE, "GRANTED", TRUE, TRUE)
HeldClosed   == Lifecycle("POLICY_HELD", TRUE, "CLOSED", FALSE, FALSE)
Refused      == Lifecycle("POLICY_DENIED", FALSE, "NONE", FALSE, FALSE)

\* The records of a submission.
LEMMA SubmissionRecords ==
    /\ \A type \in {"ACTION_REQUESTED", "REASONING_AUDIT_FAILED", "REASONING_AUDIT_COMPLETED"} :
         LifecycleAllows(type, NewLifecycle) /\ LifecycleAfter(type, NewLifecycle) = NewLifecycle
    /\ LifecycleAllows("POLICY_ALLOWED", NewLifecycle)
    /\ LifecycleAfter("POLICY_ALLOWED", NewLifecycle) = AllowedNew
    /\ LifecycleAllows("EXECUTION_STARTED", AllowedNew)
    /\ LifecycleAfter("EXECUTION_STARTED", AllowedNew) = AllowedBusy
    /\ LifecycleAllows("POLICY_HELD", NewLifecycle)
    /\ LifecycleAfter("POLICY_HELD", NewLifecycle) = HeldNew
    /\ LifecycleAllows("APPROVAL_REQUESTED", HeldNew)
    /\ LifecycleAfter("APPROVAL_REQUESTED", HeldNew) = HeldPending
    /\ LifecycleAllows("POLICY_DENIED", NewLifecycle)
    /\ LifecycleAfter("POLICY_DENIED", NewLifecycle) = Refused
BY DEF LifecycleAllows, LifecycleAfter, NewLifecycle, AllowedNew, AllowedBusy, HeldNew,
       HeldPending, Refused, Lifecycle, Authorises, DecisionEvents, ExecutionEvents,
       TerminalExecutionEvents, ApprovalClosedEvents

\* The records of an answer and of an execution.
LEMMA ResolutionRecords ==
    /\ LifecycleAllows("APPROVAL_GRANTED", HeldPending)
    /\ LifecycleAfter("APPROVAL_GRANTED", HeldPending) = HeldGranted
    /\ LifecycleAllows("EXECUTION_STARTED", HeldGranted)
    /\ LifecycleAfter("EXECUTION_STARTED", HeldGranted) = HeldBusy
    /\ \A type \in ApprovalClosedEvents :
         LifecycleAllows(type, HeldPending) /\ LifecycleAfter(type, HeldPending) = HeldClosed
    /\ \A type \in TerminalExecutionEvents :
         /\ LifecycleAllows(type, AllowedBusy) /\ LifecycleAfter(type, AllowedBusy) = AllowedDone
         /\ LifecycleAllows(type, HeldBusy) /\ LifecycleAfter(type, HeldBusy) = HeldDone
BY DEF LifecycleAllows, LifecycleAfter, AllowedBusy, AllowedDone, HeldPending, HeldGranted,
       HeldBusy, HeldDone, HeldClosed, Lifecycle, Authorises, DecisionEvents, ExecutionEvents,
       TerminalExecutionEvents, ApprovalClosedEvents

\* Which lifecycle the rows of an action stand for.
StandsFor(a, outcome, answers, receipts, lifecycle) ==
    decision[a] = outcome /\ approval[a] \in answers /\ receipt[a] \in receipts
      => LifecycleOf(a) = lifecycle

LifecycleTable(a) ==
    /\ StandsFor(a, "ALLOW", {"NONE"}, {"NONE"}, AllowedBusy)
    /\ StandsFor(a, "ALLOW", {"NONE"}, {"EXECUTED", "FAILED"}, AllowedDone)
    /\ StandsFor(a, "HOLD", {"PENDING"}, {"NONE", "NOT_EXECUTED"}, HeldPending)
    /\ StandsFor(a, "HOLD", {"APPROVED"}, {"NONE", "NOT_EXECUTED"}, HeldBusy)
    /\ StandsFor(a, "HOLD", {"DENIED", "EXPIRED"}, {"NONE", "NOT_EXECUTED"}, HeldClosed)
    /\ StandsFor(a, "HOLD", {"CONSUMED"}, {"EXECUTED", "FAILED"}, HeldDone)
    /\ StandsFor(a, "DENY", {"NONE"}, {"NOT_EXECUTED"}, Refused)

RowsRead == \A a \in Actions : LifecycleTable(a)

LEMMA RowsToLifecycle == RowsRead
<1> SUFFICES ASSUME NEW a \in Actions
             PROVE  LifecycleTable(a)
  BY DEF RowsRead
<1>1. /\ DecisionRecorded("ALLOW") = "POLICY_ALLOWED"
      /\ DecisionRecorded("HOLD") = "POLICY_HELD"
      /\ DecisionRecorded("DENY") = "POLICY_DENIED"
  BY DEF DecisionRecorded
<1>2. /\ ApprovalRecorded("NONE") = "NONE" /\ ApprovalRecorded("PENDING") = "NONE"
      /\ ApprovalRecorded("APPROVED") = "GRANTED" /\ ApprovalRecorded("CONSUMED") = "GRANTED"
      /\ ApprovalRecorded("DENIED") = "CLOSED" /\ ApprovalRecorded("EXPIRED") = "CLOSED"
  BY DEF ApprovalRecorded
<1>3. ASSUME decision[a] = "ALLOW", approval[a] = "NONE", receipt[a] = "NONE"
      PROVE  LifecycleOf(a) = AllowedBusy
  <2>1. /\ (decision[a] = "HOLD") = FALSE
        /\ (decision[a] = "ALLOW" \/ approval[a] \in {"APPROVED", "CONSUMED"}) = TRUE
        /\ (receipt[a] \in {"EXECUTED", "FAILED"}) = FALSE
    BY <1>3
  <2> QED BY <1>1, <1>2, <1>3, <2>1 DEF LifecycleOf, AllowedBusy, Lifecycle
<1>4. ASSUME decision[a] = "ALLOW", approval[a] = "NONE",
             receipt[a] \in {"EXECUTED", "FAILED"}
      PROVE  LifecycleOf(a) = AllowedDone
  <2>1. /\ (decision[a] = "HOLD") = FALSE
        /\ (decision[a] = "ALLOW" \/ approval[a] \in {"APPROVED", "CONSUMED"}) = TRUE
        /\ (receipt[a] \in {"EXECUTED", "FAILED"}) = TRUE
    BY <1>4
  <2> QED BY <1>1, <1>2, <1>4, <2>1 DEF LifecycleOf, AllowedDone, Lifecycle
<1>5. ASSUME decision[a] = "HOLD", approval[a] = "PENDING",
             receipt[a] \in {"NONE", "NOT_EXECUTED"}
      PROVE  LifecycleOf(a) = HeldPending
  <2>1. /\ (decision[a] = "HOLD") = TRUE
        /\ (decision[a] = "ALLOW" \/ approval[a] \in {"APPROVED", "CONSUMED"}) = FALSE
        /\ (receipt[a] \in {"EXECUTED", "FAILED"}) = FALSE
    BY <1>5
  <2> QED BY <1>1, <1>2, <1>5, <2>1 DEF LifecycleOf, HeldPending, Lifecycle
<1>6. ASSUME decision[a] = "HOLD", approval[a] = "APPROVED",
             receipt[a] \in {"NONE", "NOT_EXECUTED"}
      PROVE  LifecycleOf(a) = HeldBusy
  <2>1. /\ (decision[a] = "HOLD") = TRUE
        /\ (decision[a] = "ALLOW" \/ approval[a] \in {"APPROVED", "CONSUMED"}) = TRUE
        /\ (receipt[a] \in {"EXECUTED", "FAILED"}) = FALSE
    BY <1>6
  <2> QED BY <1>1, <1>2, <1>6, <2>1 DEF LifecycleOf, HeldBusy, Lifecycle
<1>7. ASSUME decision[a] = "HOLD", approval[a] = "CONSUMED",
             receipt[a] \in {"EXECUTED", "FAILED"}
      PROVE  LifecycleOf(a) = HeldDone
  <2>1. /\ (decision[a] = "HOLD") = TRUE
        /\ (decision[a] = "ALLOW" \/ approval[a] \in {"APPROVED", "CONSUMED"}) = TRUE
        /\ (receipt[a] \in {"EXECUTED", "FAILED"}) = TRUE
    BY <1>7
  <2> QED BY <1>1, <1>2, <1>7, <2>1 DEF LifecycleOf, HeldDone, Lifecycle
<1>8. ASSUME decision[a] = "HOLD", approval[a] \in {"DENIED", "EXPIRED"},
             receipt[a] \in {"NONE", "NOT_EXECUTED"}
      PROVE  LifecycleOf(a) = HeldClosed
  <2>1. /\ (decision[a] = "HOLD") = TRUE
        /\ (decision[a] = "ALLOW" \/ approval[a] \in {"APPROVED", "CONSUMED"}) = FALSE
        /\ (receipt[a] \in {"EXECUTED", "FAILED"}) = FALSE
    BY <1>8
  <2> QED BY <1>1, <1>2, <1>8, <2>1 DEF LifecycleOf, HeldClosed, Lifecycle
<1>9. ASSUME decision[a] = "DENY", approval[a] = "NONE", receipt[a] = "NOT_EXECUTED"
      PROVE  LifecycleOf(a) = Refused
  <2>1. /\ (decision[a] = "HOLD") = FALSE
        /\ (decision[a] = "ALLOW" \/ approval[a] \in {"APPROVED", "CONSUMED"}) = FALSE
        /\ (receipt[a] \in {"EXECUTED", "FAILED"}) = FALSE
    BY <1>9
  <2> QED BY <1>1, <1>2, <1>9, <2>1 DEF LifecycleOf, Refused, Lifecycle
<1> QED BY <1>3, <1>4, <1>5, <1>6, <1>7, <1>8, <1>9 DEF LifecycleTable, StandsFor

LEMMA RowsNext == RowsRead'
BY RowsToLifecycle, PTL

-----------------------------------------------------------------------------
(* Steps of the tables and of the verifier. *)

LEMMA LifecyclesShape ==
    ASSUME NEW r
    PROVE  /\ DOMAIN Lifecycles(r) = Actions
           /\ Lifecycles(r) = [a \in Actions |-> Lifecycles(r)[a]]
           /\ \A a \in Actions :
                /\ actionRun[a] = r => Lifecycles(r)[a] = LifecycleOf(a)
                /\ actionRun[a] # r => Lifecycles(r)[a] = NewLifecycle
BY DEF Lifecycles

\* Steps that change no row the verifier can see and log nothing.
LEMMA OtherStepsKeepRecall ==
    ASSUME LogRecallsTables,
           UNCHANGED <<log, actionRun, decision, approval, receipt>>,
           \A x \in Runs : runStatus'[x] \in TerminalStatus <=> runStatus[x] \in TerminalStatus
    PROVE  LogRecallsTables'
<1>1. \A a \in Actions : LifecycleOf(a)' = LifecycleOf(a)
  BY DEF LifecycleOf
<1>2. \A x \in Runs : Lifecycles(x)' = Lifecycles(x)
  BY <1>1 DEF Lifecycles
<1> QED BY <1>2 DEF LogRecallsTables

\* Steps that log what they change of action b, in the log of its run r.
LEMMA StepKeepsRecall ==
    ASSUME LogRecallsTables, NEW r \in Runs, NEW b \in Actions,
           \A x \in Runs \ {r} : log'[x] = log[x] /\ actionRun[b] # x,
           actionRun'[b] = r,
           \A x \in Runs : runStatus'[x] \in TerminalStatus <=> runStatus[x] \in TerminalStatus,
           \A a \in Actions \ {b} : /\ actionRun'[a] = actionRun[a]
                                    /\ decision'[a] = decision[a]
                                    /\ approval'[a] = approval[a]
                                    /\ receipt'[a] = receipt[a],
           Remembered(log'[r]) =
             Verified(runStatus[r] \in TerminalStatus, [Lifecycles(r) EXCEPT ![b] = LifecycleOf(b)'])
    PROVE  LogRecallsTables'
<1>1. \A a \in Actions \ {b} : LifecycleOf(a)' = LifecycleOf(a)
  BY DEF LifecycleOf
<1>2. \A x \in Runs \ {r} : Lifecycles(x)' = Lifecycles(x)
  BY <1>1 DEF Lifecycles
<1>3. Lifecycles(r)' = [Lifecycles(r) EXCEPT ![b] = LifecycleOf(b)']
  BY <1>1 DEF Lifecycles
<1>4. ASSUME NEW x \in Runs
      PROVE  Remembered(log'[x]) = [ok |-> TRUE, closed |-> runStatus'[x] \in TerminalStatus,
                                    actions |-> Lifecycles(x)']
  <2>1. (runStatus'[x] \in TerminalStatus) = (runStatus[x] \in TerminalStatus)
    OBVIOUS
  <2>2. CASE x = r
    BY <1>3, <2>1, <2>2 DEF Verified
  <2>3. CASE x # r
    BY <1>2, <2>1, <2>3 DEF LogRecallsTables
  <2> QED BY <2>2, <2>3
<1> QED BY <1>4 DEF LogRecallsTables

\* A step that logs one record of an action of run r.
LEMMA OneRecordKeepsRecall ==
    ASSUME TypeOK, LogRecallsTables, NEW r \in Runs, NEW b \in Actions, actionRun[b] = r,
           NEW type \in KnownEvents \ (RunTerminalEvents \cup RetentionEvents),
           Record(r, <<Event(type, b)>>),
           NEW before, NEW after,
           LifecycleOf(b) = before, LifecycleOf(b)' = after,
           LifecycleAllows(type, before), LifecycleAfter(type, before) = after,
           runStatus[r] \notin TerminalStatus \/ PendingExpiry(Event(type, b), Lifecycles(r)),
           \A x \in Runs : runStatus'[x] \in TerminalStatus <=> runStatus[x] \in TerminalStatus,
           actionRun' = actionRun, decision' = decision,
           \A a \in Actions \ {b} : approval'[a] = approval[a] /\ receipt'[a] = receipt[a]
    PROVE  LogRecallsTables'
<1> DEFINE closed == runStatus[r] \in TerminalStatus
           f == Lifecycles(r)
<1>1. /\ log[r] \in Seq(ChainRecord) /\ Event(type, b) \in ChainRecord
      /\ log'[r] = log[r] \o <<Event(type, b)>>
      /\ \A x \in Runs \ {r} : log'[x] = log[x]
  BY EventType DEF TypeOK, Record
<1>2. Remembered(log[r]) = Verified(closed, f)
  BY DEF LogRecallsTables, Verified
<1>3. Remembered(log'[r]) = VerifierStep(Verified(closed, f), Event(type, b))
  BY <1>1, <1>2, RememberedRecord
<1>4. DOMAIN f = Actions /\ f = [a \in Actions |-> f[a]] /\ f[b] = before
  BY LifecyclesShape
<1>5. b # NoAction /\ closed \in BOOLEAN
  BY LifecycleAssumption
<1>6. ~closed \/ PendingExpiry(Event(type, b), f)
  OBVIOUS
<1> HIDE DEF closed, f
<1>7. Remembered(log'[r]) = Verified(closed, [f EXCEPT ![b] = after])
  BY <1>3, <1>4, <1>5, <1>6, StepOfAction
<1>8. Remembered(log'[r]) =
        Verified(runStatus[r] \in TerminalStatus, [Lifecycles(r) EXCEPT ![b] = LifecycleOf(b)'])
  BY <1>7 DEF closed, f
<1>9. \A x \in Runs \ {r} : log'[x] = log[x] /\ actionRun[b] # x
  BY <1>1
<1> QED BY <1>8, <1>9, StepKeepsRecall

\* A step that logs two records of an action of an open run.
LEMMA TwoRecordsKeepRecall ==
    ASSUME TypeOK, LogRecallsTables, NEW r \in Runs, NEW b \in Actions, actionRun[b] = r,
           NEW first \in KnownEvents \ (RunTerminalEvents \cup RetentionEvents),
           NEW second \in KnownEvents \ (RunTerminalEvents \cup RetentionEvents),
           Record(r, <<Event(first, b), Event(second, b)>>),
           NEW before, NEW between, NEW after,
           LifecycleOf(b) = before, LifecycleOf(b)' = after,
           LifecycleAllows(first, before), LifecycleAfter(first, before) = between,
           LifecycleAllows(second, between), LifecycleAfter(second, between) = after,
           runStatus[r] \notin TerminalStatus,
           \A x \in Runs : runStatus'[x] \in TerminalStatus <=> runStatus[x] \in TerminalStatus,
           actionRun' = actionRun, decision' = decision,
           \A a \in Actions \ {b} : approval'[a] = approval[a] /\ receipt'[a] = receipt[a]
    PROVE  LogRecallsTables'
<1> DEFINE closed == runStatus[r] \in TerminalStatus
           f == Lifecycles(r)
           g == [f EXCEPT ![b] = between]
<1>1. /\ log[r] \in Seq(ChainRecord)
      /\ Event(first, b) \in ChainRecord /\ Event(second, b) \in ChainRecord
      /\ log'[r] = log[r] \o <<Event(first, b), Event(second, b)>>
      /\ \A x \in Runs \ {r} : log'[x] = log[x]
  BY EventType DEF TypeOK, Record
<1>2. Remembered(log[r]) = Verified(closed, f)
  BY DEF LogRecallsTables, Verified
<1>3. Remembered(log'[r]) =
        VerifierStep(VerifierStep(Verified(closed, f), Event(first, b)), Event(second, b))
  BY <1>1, <1>2, RememberedTwo
<1>4. DOMAIN f = Actions /\ f = [a \in Actions |-> f[a]] /\ f[b] = before
  BY LifecyclesShape
<1>5. b # NoAction /\ closed \in BOOLEAN /\ ~closed
  BY LifecycleAssumption
<1> HIDE DEF closed, f
<1>6. VerifierStep(Verified(closed, f), Event(first, b)) = Verified(closed, g)
  BY <1>4, <1>5, StepOfAction
<1>7. DOMAIN g = Actions /\ g = [a \in Actions |-> g[a]] /\ g[b] = between
      /\ [g EXCEPT ![b] = after] = [f EXCEPT ![b] = after]
  BY <1>4
<1> HIDE DEF g
<1>8. VerifierStep(Verified(closed, g), Event(second, b)) = Verified(closed, [g EXCEPT ![b] = after])
  BY <1>5, <1>7, StepOfAction
<1>9. Remembered(log'[r]) =
        Verified(runStatus[r] \in TerminalStatus, [Lifecycles(r) EXCEPT ![b] = LifecycleOf(b)'])
  BY <1>3, <1>6, <1>7, <1>8 DEF closed, f
<1>10. \A x \in Runs \ {r} : log'[x] = log[x] /\ actionRun[b] # x
  BY <1>1
<1> QED BY <1>9, <1>10, StepKeepsRecall

-----------------------------------------------------------------------------
(* The handlers. *)

LEMMA InitRecall == Init => LogRecallsTables
<1> SUFFICES ASSUME Init, NEW r \in Runs
             PROVE  Remembered(log[r]) = [ok |-> TRUE, closed |-> runStatus[r] \in TerminalStatus,
                                          actions |-> Lifecycles(r)]
  BY DEF LogRecallsTables
<1>1. log[r] = <<>> BY DEF Init
<1>2. (runStatus[r] \in TerminalStatus) = FALSE BY DEF Init, TerminalStatus
<1>3. Lifecycles(r) = [a \in Actions |-> NewLifecycle]
  BY LifecycleAssumption DEF Init, Lifecycles
<1> QED BY <1>1, <1>2, <1>3, RememberedEmpty DEF VerifierStart

\* Creating a run, closing it and closing it again.
LEMMA RunKeepsRecall ==
    ASSUME TypeOK, LogRecallsTables, NEW r \in Runs,
           CreateRun(r) \/ CompleteRun(r) \/ FailRun(r)
    PROVE  LogRecallsTables'
<1> DEFINE closed == runStatus[r] \in TerminalStatus
           f == Lifecycles(r)
<1>1. PICK type \in {"RUN_CREATED"} \cup RunTerminalEvents :
        /\ Record(r, <<Event(type, NoAction)>>)
        /\ type = "RUN_CREATED" => ~closed
        /\ (runStatus'[r] \in TerminalStatus) = (closed \/ type \in RunTerminalEvents)
        /\ \A x \in Runs \ {r} : runStatus'[x] = runStatus[x]
  <2>1. CASE CreateRun(r)
    BY <2>1 DEF CreateRun, TypeOK, TerminalStatus, RunTerminalEvents
  <2>2. CASE CompleteRun(r)
    BY <2>2 DEF CompleteRun, CloseRun, TypeOK, TerminalStatus, RunTerminalEvents
  <2>3. CASE FailRun(r)
    BY <2>3 DEF FailRun, CloseRun, TypeOK, TerminalStatus, RunTerminalEvents
  <2> QED BY <2>1, <2>2, <2>3
<1>2. UNCHANGED <<actionRun, decision, approval, receipt>>
  BY DEF CreateRun, CompleteRun, FailRun, CloseRun
<1>3. type \in KnownEvents
  BY DEF KnownEvents, RunTerminalEvents
<1>4. /\ log[r] \in Seq(ChainRecord) /\ Event(type, NoAction) \in ChainRecord
      /\ log'[r] = log[r] \o <<Event(type, NoAction)>>
      /\ \A x \in Runs \ {r} : log'[x] = log[x]
  BY <1>1, <1>3, EventType DEF TypeOK, Record
<1>5. Remembered(log[r]) = Verified(closed, f)
  BY DEF LogRecallsTables, Verified
<1>6. Remembered(log'[r]) = VerifierStep(Verified(closed, f), Event(type, NoAction))
  BY <1>4, <1>5, RememberedRecord
<1>7. DOMAIN f = Actions /\ f = [a \in Actions |-> f[a]] /\ closed \in BOOLEAN
  BY LifecyclesShape
<1>8. closed => type \in RunTerminalEvents
  BY <1>1
<1>9. \A x \in Runs : Lifecycles(x)' = Lifecycles(x)
  BY <1>2 DEF Lifecycles, LifecycleOf
<1>10. Remembered(log'[r]) = Verified(runStatus'[r] \in TerminalStatus, f)
  <2> HIDE DEF closed, f
  <2> QED BY <1>1, <1>6, <1>7, <1>8, LifecycleAssumption, StepOfRun
<1>11. ASSUME NEW x \in Runs
       PROVE  Remembered(log'[x]) = [ok |-> TRUE, closed |-> runStatus'[x] \in TerminalStatus,
                                     actions |-> Lifecycles(x)']
  <2>1. CASE x = r
    BY <1>9, <1>10, <2>1 DEF Verified
  <2>2. CASE x # r
    BY <1>1, <1>4, <1>9, <2>2 DEF LogRecallsTables
  <2> QED BY <2>1, <2>2
<1> QED BY <1>11 DEF LogRecallsTables

\* Before its decision, a submission's records leave the action's lifecycle
\* as it begins.
CommitReading(b, outcome, records, r) ==
    /\ r \in Runs /\ runStatus[r] \notin TerminalStatus
    /\ \A x \in Runs : actionRun[b] # x
    /\ decision[b] = "NONE" /\ Lifecycles(r)[b] = NewLifecycle
    /\ actionRun'[b] = r /\ decision'[b] = outcome
    /\ \A a \in Actions \ {b} : actionRun'[a] = actionRun[a] /\ decision'[a] = decision[a]
    /\ \A x \in Runs \ {r} : log'[x] = log[x]
    /\ \E mid \in Seq(ChainRecord) :
         /\ log'[r] = mid \o records
         /\ Remembered(mid) = Verified(runStatus[r] \in TerminalStatus, Lifecycles(r))

LEMMA CommitReads ==
    ASSUME TypeOK, SingleUse, Closure, LogRecallsTables, NEW b \in Actions, NEW outcome,
           NEW records \in Seq(ChainRecord), CommitDecision(b, outcome, records)
    PROVE  CommitReading(b, outcome, records, submit[b].run)
<1> PICK r : r = submit[b].run OBVIOUS
<1> DEFINE closed == runStatus[r] \in TerminalStatus
           f == Lifecycles(r)
           requested == <<Event("ACTION_REQUESTED", b)>>
<1>1. r \in Runs /\ runStatus[r] \notin TerminalStatus
  BY DEF Closure, OneOwner, CommitDecision, StillLive, LiveStatus, TerminalStatus
<1>2. decision[b] = "NONE" /\ actionRun[b] = NoRun
  BY DEF SingleUse, OneDecision, Undecided, Closure, OneOwner, CommitDecision
<1>3. \A x \in Runs : actionRun[b] # x
  BY <1>2, LifecycleAssumption
<1>4. DOMAIN f = Actions /\ f = [a \in Actions |-> f[a]] /\ f[b] = NewLifecycle
  BY <1>1, <1>3, LifecyclesShape
<1>5. /\ actionRun'[b] = r /\ decision'[b] = outcome
      /\ \A a \in Actions \ {b} : actionRun'[a] = actionRun[a] /\ decision'[a] = decision[a]
  BY DEF CommitDecision, TypeOK
<1>6. /\ log[r] \in Seq(ChainRecord) /\ b # NoAction
      /\ log'[r] = log[r] \o (requested \o AuditRecord(b) \o records)
      /\ \A x \in Runs \ {r} : log'[x] = log[x]
  BY <1>1, LifecycleAssumption DEF CommitDecision, TypeOK, Record
<1>7. requested \in Seq(ChainRecord) /\ AuditRecord(b) \in Seq(ChainRecord)
  BY OneRecord, EmptySeq DEF AuditRecord, KnownEvents
<1>8. Remembered(log[r]) = Verified(closed, f)
  BY <1>1 DEF LogRecallsTables, Verified
<1>9. ASSUME NEW s \in Seq(ChainRecord), Remembered(s) = Verified(closed, f),
             NEW type \in {"ACTION_REQUESTED", "REASONING_AUDIT_FAILED", "REASONING_AUDIT_COMPLETED"}
      PROVE  /\ s \o <<Event(type, b)>> \in Seq(ChainRecord)
             /\ Remembered(s \o <<Event(type, b)>>) = Verified(closed, f)
  <2>1. type \in KnownEvents \ (RunTerminalEvents \cup RetentionEvents)
    BY DEF KnownEvents, RunTerminalEvents, RetentionEvents
  <2>2. Event(type, b) \in ChainRecord
    BY <2>1, EventType
  <2>3. LifecycleAllows(type, f[b]) /\ [f EXCEPT ![b] = LifecycleAfter(type, f[b])] = f
    BY <1>4, SubmissionRecords
  <2>4. closed \in BOOLEAN /\ ~closed
    BY <1>1
  <2> HIDE DEF closed, f
  <2>5. VerifierStep(Verified(closed, f), Event(type, b)) = Verified(closed, f)
    BY <1>4, <1>6, <2>1, <2>3, <2>4, StepOfAction
  <2> QED BY <1>9, <2>2, <2>5, RememberedRecord
<1> DEFINE early == log[r] \o requested
           mid == early \o AuditRecord(b)
<1>10. early \in Seq(ChainRecord) /\ Remembered(early) = Verified(closed, f)
  BY <1>6, <1>8, <1>9
<1>11. mid \in Seq(ChainRecord) /\ Remembered(mid) = Verified(closed, f)
  <2>1. AuditRecord(b) \in {<<>>, <<Event("REASONING_AUDIT_FAILED", b)>>,
                            <<Event("REASONING_AUDIT_COMPLETED", b)>>}
    BY DEF AuditRecord
  <2>2. early \o <<>> = early
    BY <1>10, ConcatEmptySeq
  <2> HIDE DEF early, closed, f
  <2> QED BY <1>9, <1>10, <2>1, <2>2
<1>12. log'[r] = mid \o records
  <2> DEFINE s == log[r]
             u == AuditRecord(b)
  <2>1. s \in Seq(ChainRecord) BY <1>6
  <2>2. requested \in Seq(ChainRecord) BY <1>7
  <2>3. u \in Seq(ChainRecord) BY <1>7
  <2>4. log'[r] = s \o ((requested \o u) \o records) BY <1>6
  <2>5. mid = (s \o requested) \o u OBVIOUS
  <2> HIDE DEF requested, s, u, mid
  <2>6. s \o ((requested \o u) \o records) = ((s \o requested) \o u) \o records
    <3>1. requested \o u \in Seq(ChainRecord)
      BY <2>2, <2>3, ConcatProperties
    <3>2. (s \o requested) \o u = s \o (requested \o u)
      BY <2>1, <2>2, <2>3
    <3>3. (s \o (requested \o u)) \o records = s \o ((requested \o u) \o records)
      BY <2>1, <3>1
    <3> QED BY <3>2, <3>3
  <2> QED BY <2>4, <2>5, <2>6
<1> HIDE DEF mid, early, requested
<1> QED BY <1>1, <1>2, <1>3, <1>4, <1>5, <1>6, <1>11, <1>12 DEF CommitReading

\* The transaction of a submission, whatever it decides.
LEMMA CommitKeepsRecall ==
    ASSUME TypeOK, SingleUse, Closure, Receipts, LogRecallsTables, NEW b \in Actions,
           CommitAllow(b) \/ CommitHold(b) \/ CommitDeny(b)
    PROVE  LogRecallsTables'
<1> PICK r : r = submit[b].run OBVIOUS
<1> DEFINE closed == runStatus[r] \in TerminalStatus
           f == Lifecycles(r)
<1>1. decision[b] = "NONE" /\ approval[b] = "NONE" /\ receipt[b] = "NONE" /\ b # NoAction
  <2>1. decision[b] = "NONE"
    BY DEF SingleUse, OneDecision, Undecided, CommitAllow, CommitHold, CommitDeny, CommitDecision
  <2>2. approval[b] = "NONE"
    BY <2>1 DEF SingleUse, OneDecision
  <2>3. receipt[b] = "NONE"
    BY <2>1 DEF Receipts, ReceiptsInOrder, ReceiptsOf
  <2> QED BY <2>1, <2>2, <2>3, LifecycleAssumption
<1>2. DOMAIN f = Actions /\ f = [a \in Actions |-> f[a]]
  BY LifecyclesShape
<1>3. \A type \in {"POLICY_ALLOWED", "POLICY_HELD", "POLICY_DENIED", "EXECUTION_STARTED",
                   "APPROVAL_REQUESTED"} :
        /\ type \in KnownEvents \ (RunTerminalEvents \cup RetentionEvents)
        /\ Event(type, b) \in ChainRecord
  <2>1. \A type \in {"POLICY_ALLOWED", "POLICY_HELD", "POLICY_DENIED", "EXECUTION_STARTED",
                     "APPROVAL_REQUESTED"} :
          type \in KnownEvents \ (RunTerminalEvents \cup RetentionEvents)
    BY DEF KnownEvents, DecisionEvents, ExecutionEvents, RunTerminalEvents, RetentionEvents
  <2> QED BY <2>1, EventType
<1>4. ASSUME NEW outcome, NEW first \in {"POLICY_ALLOWED", "POLICY_HELD"},
             NEW second \in {"EXECUTION_STARTED", "APPROVAL_REQUESTED"},
             NEW between, NEW after,
             CommitDecision(b, outcome, <<Event(first, b), Event(second, b)>>),
             LifecycleAllows(first, NewLifecycle), LifecycleAfter(first, NewLifecycle) = between,
             LifecycleAllows(second, between), LifecycleAfter(second, between) = after,
             LifecycleOf(b)' = after, receipt' = receipt,
             \A a \in Actions \ {b} : approval'[a] = approval[a],
             \A x \in Runs : runStatus'[x] \in TerminalStatus <=> runStatus[x] \in TerminalStatus
      PROVE  LogRecallsTables'
  <2> DEFINE records == <<Event(first, b), Event(second, b)>>
             g == [f EXCEPT ![b] = between]
  <2>1. records \in Seq(ChainRecord)
    BY <1>3
  <2>0. CommitReading(b, outcome, records, r)
    BY <1>4, <2>1, CommitReads
  <2>2. /\ r \in Runs /\ runStatus[r] \notin TerminalStatus
        /\ \A x \in Runs : actionRun[b] # x
        /\ f[b] = NewLifecycle /\ actionRun'[b] = r
        /\ \A a \in Actions \ {b} : actionRun'[a] = actionRun[a] /\ decision'[a] = decision[a]
        /\ \A x \in Runs \ {r} : log'[x] = log[x]
    BY <2>0 DEF CommitReading
  <2>3. PICK mid \in Seq(ChainRecord) :
          /\ log'[r] = mid \o records
          /\ Remembered(mid) = Verified(closed, f)
    BY <2>0 DEF CommitReading
  <2>4. Remembered(log'[r]) =
          VerifierStep(VerifierStep(Verified(closed, f), Event(first, b)), Event(second, b))
    BY <1>3, <2>3, RememberedTwo
  <2>5. closed \in BOOLEAN /\ ~closed
    BY <2>2
  <2> HIDE DEF closed, f
  <2>6. VerifierStep(Verified(closed, f), Event(first, b)) = Verified(closed, g)
    BY <1>1, <1>2, <1>3, <1>4, <2>2, <2>5, StepOfAction
  <2>7. DOMAIN g = Actions /\ g = [a \in Actions |-> g[a]] /\ g[b] = between
        /\ [g EXCEPT ![b] = after] = [f EXCEPT ![b] = after]
    BY <1>2
  <2> HIDE DEF g
  <2>8. VerifierStep(Verified(closed, g), Event(second, b)) =
          Verified(closed, [g EXCEPT ![b] = after])
    BY <1>1, <1>3, <1>4, <2>5, <2>7, StepOfAction
  <2>9. Remembered(log'[r]) =
          Verified(runStatus[r] \in TerminalStatus, [Lifecycles(r) EXCEPT ![b] = LifecycleOf(b)'])
    BY <1>4, <2>4, <2>6, <2>7, <2>8 DEF closed, f
  <2>10. \A a \in Actions \ {b} : receipt'[a] = receipt[a]
    BY <1>4
  <2>11. \A x \in Runs \ {r} : log'[x] = log[x] /\ actionRun[b] # x
    BY <2>2
  <2> QED BY <1>4, <2>2, <2>9, <2>10, <2>11, StepKeepsRecall
<1>5. CASE CommitAllow(b)
  <2>1. /\ CommitDecision(b, "ALLOW", <<Event("POLICY_ALLOWED", b), Event("EXECUTION_STARTED", b)>>)
        /\ UNCHANGED <<runStatus, approval, receipt>>
    BY <1>5 DEF CommitAllow, AllowRecords
  <2>2. decision'[b] = "ALLOW" /\ approval'[b] = "NONE" /\ receipt'[b] = "NONE"
    BY <1>1, <2>1 DEF CommitDecision, TypeOK
  <2>3. LifecycleOf(b)' = AllowedBusy
    BY <2>2, RowsNext DEF RowsRead, LifecycleTable, StandsFor
  <2> QED BY <1>4, <2>1, <2>3, SubmissionRecords
<1>6. CASE CommitHold(b)
  <2>1. CommitDecision(b, "HOLD", <<Event("POLICY_HELD", b), Event("APPROVAL_REQUESTED", b)>>)
    BY <1>6 DEF CommitHold
  <2>2. /\ decision'[b] = "HOLD" /\ approval'[b] = "PENDING" /\ receipt'[b] = "NONE"
        /\ \A a \in Actions \ {b} : approval'[a] = approval[a]
        /\ receipt' = receipt
    BY <1>1, <1>6, <2>1 DEF CommitHold, CommitDecision, TypeOK
  <2>3. LifecycleOf(b)' = HeldPending
    BY <2>2, RowsNext DEF RowsRead, LifecycleTable, StandsFor
  <2>4. \A x \in Runs : runStatus'[x] \in TerminalStatus <=> runStatus[x] \in TerminalStatus
    <3>1. runStatus[submit[b].run] \notin TerminalStatus
      BY <2>1 DEF CommitDecision, StillLive, LiveStatus, TerminalStatus
    <3> QED BY <1>6, <3>1 DEF CommitHold, TypeOK, TerminalStatus
  <2> QED BY <1>4, <2>1, <2>2, <2>3, <2>4, SubmissionRecords
<1>7. CASE CommitDeny(b)
  <2> DEFINE rec == Event("POLICY_DENIED", b)
  <2>1. /\ CommitDecision(b, "DENY", <<rec>>)
        /\ UNCHANGED <<runStatus, approval>>
        /\ receipt'[b] = "NOT_EXECUTED" /\ \A a \in Actions \ {b} : receipt'[a] = receipt[a]
    BY <1>7 DEF CommitDeny, TypeOK
  <2>2. <<rec>> \in Seq(ChainRecord) /\ rec \in ChainRecord
    BY <1>3
  <2>10. CommitReading(b, "DENY", <<rec>>, r)
    BY <2>1, <2>2, CommitReads
  <2>3. /\ r \in Runs /\ runStatus[r] \notin TerminalStatus
        /\ \A x \in Runs \ {r} : log'[x] = log[x] /\ actionRun[b] # x
        /\ f[b] = NewLifecycle /\ actionRun'[b] = r /\ decision'[b] = "DENY"
        /\ \A a \in Actions \ {b} : actionRun'[a] = actionRun[a] /\ decision'[a] = decision[a]
    BY <2>10 DEF CommitReading
  <2>4. PICK mid \in Seq(ChainRecord) :
          /\ log'[r] = mid \o <<rec>>
          /\ Remembered(mid) = Verified(closed, f)
    BY <2>10 DEF CommitReading
  <2>5. Remembered(log'[r]) = VerifierStep(Verified(closed, f), rec)
    BY <2>2, <2>4, RememberedRecord
  <2>6. LifecycleOf(b)' = Refused
    BY <1>1, <2>1, <2>3, RowsNext DEF RowsRead, LifecycleTable, StandsFor
  <2>7. closed \in BOOLEAN /\ ~closed
    BY <2>3
  <2> HIDE DEF closed, f
  <2>8. VerifierStep(Verified(closed, f), rec) = Verified(closed, [f EXCEPT ![b] = Refused])
    BY <1>1, <1>2, <1>3, <2>3, <2>7, StepOfAction, SubmissionRecords
  <2>9. Remembered(log'[r]) =
          Verified(runStatus[r] \in TerminalStatus, [Lifecycles(r) EXCEPT ![b] = LifecycleOf(b)'])
    BY <2>5, <2>6, <2>8 DEF closed, f
  <2> QED BY <2>1, <2>3, <2>9, StepKeepsRecall
<1> QED BY <1>5, <1>6, <1>7

\* What the verifier knows of an approval that waits for its answer.
LEMMA PendingIsRead ==
    ASSUME TypeOK, SingleUse, Closure, Receipts, NEW b \in Actions, approval[b] = "PENDING"
    PROVE  /\ decision[b] = "HOLD" /\ receipt[b] = "NONE"
           /\ actionRun[b] \in Runs
           /\ LifecycleOf(b) = HeldPending
           /\ PendingExpiry(Event("APPROVAL_EXPIRED", b), Lifecycles(actionRun[b]))
<1>1. decision[b] = "HOLD"
  BY DEF SingleUse, OneDecision
<1>2. receipt[b] = "NONE"
  BY <1>1 DEF Receipts, ReceiptsInOrder, ReceiptsOf
<1>3. actionRun[b] \in Runs
  BY <1>1, StoredHasRun
<1>4. LifecycleOf(b) = HeldPending
  BY <1>1, <1>2, RowsToLifecycle DEF RowsRead, LifecycleTable, StandsFor
<1>5. Lifecycles(actionRun[b])[b] = HeldPending
  BY <1>4, LifecyclesShape
<1>6. PendingExpiry(Event("APPROVAL_EXPIRED", b), Lifecycles(actionRun[b]))
  BY <1>5, LifecycleAssumption DEF PendingExpiry, Event, HeldPending, Lifecycle
<1> QED BY <1>1, <1>2, <1>3, <1>4, <1>6

\* An approval is denied in an open run, or expires in any.
LEMMA CloseHoldKeepsRecall ==
    ASSUME TypeOK, SingleUse, Closure, Receipts, LogRecallsTables, NEW b \in Actions,
           approval[b] = "PENDING", NEW type \in ApprovalClosedEvents,
           Record(actionRun[b], <<Event(type, b)>>),
           type = "APPROVAL_DENIED" => runStatus[actionRun[b]] \notin TerminalStatus,
           approval'[b] \in {"DENIED", "EXPIRED"}, receipt'[b] \in {"NONE", "NOT_EXECUTED"},
           \A x \in Runs : runStatus'[x] \in TerminalStatus <=> runStatus[x] \in TerminalStatus,
           actionRun' = actionRun, decision' = decision,
           \A a \in Actions \ {b} : approval'[a] = approval[a] /\ receipt'[a] = receipt[a]
    PROVE  LogRecallsTables'
<1> PICK r : r = actionRun[b] OBVIOUS
<1>1. /\ r \in Runs /\ LifecycleOf(b) = HeldPending /\ decision[b] = "HOLD"
      /\ PendingExpiry(Event("APPROVAL_EXPIRED", b), Lifecycles(r))
  BY PendingIsRead
<1>2. LifecycleOf(b)' = HeldClosed
  BY <1>1, RowsNext DEF RowsRead, LifecycleTable, StandsFor
<1>3. type \in KnownEvents \ (RunTerminalEvents \cup RetentionEvents)
  BY DEF KnownEvents, ApprovalClosedEvents, RunTerminalEvents, RetentionEvents
<1>4. LifecycleAllows(type, HeldPending) /\ LifecycleAfter(type, HeldPending) = HeldClosed
  BY ResolutionRecords
<1>5. runStatus[r] \notin TerminalStatus \/ PendingExpiry(Event(type, b), Lifecycles(r))
  BY <1>1 DEF ApprovalClosedEvents
<1>6. Record(r, <<Event(type, b)>>) /\ actionRun[b] = r
  OBVIOUS
<1> QED BY <1>1, <1>2, <1>3, <1>4, <1>5, <1>6, OneRecordKeepsRecall

\* The end of an execution in an open run.
LEMMA FinishKeepsRecall ==
    ASSUME TypeOK, LogRecallsTables, NEW b \in Actions, actionRun[b] \in Runs,
           NEW type \in TerminalExecutionEvents, Record(actionRun[b], <<Event(type, b)>>),
           runStatus[actionRun[b]] \notin TerminalStatus,
           \/ LifecycleOf(b) = AllowedBusy /\ LifecycleOf(b)' = AllowedDone
           \/ LifecycleOf(b) = HeldBusy /\ LifecycleOf(b)' = HeldDone,
           \A x \in Runs : runStatus'[x] \in TerminalStatus <=> runStatus[x] \in TerminalStatus,
           actionRun' = actionRun, decision' = decision,
           \A a \in Actions \ {b} : approval'[a] = approval[a] /\ receipt'[a] = receipt[a]
    PROVE  LogRecallsTables'
<1> PICK r : r = actionRun[b] OBVIOUS
<1>1. type \in KnownEvents \ (RunTerminalEvents \cup RetentionEvents)
  BY DEF KnownEvents, TerminalExecutionEvents, ExecutionEvents, RunTerminalEvents, RetentionEvents
<1>2. /\ LifecycleAllows(type, AllowedBusy) /\ LifecycleAfter(type, AllowedBusy) = AllowedDone
      /\ LifecycleAllows(type, HeldBusy) /\ LifecycleAfter(type, HeldBusy) = HeldDone
  BY ResolutionRecords
<1>3. r \in Runs /\ Record(r, <<Event(type, b)>>) /\ actionRun[b] = r /\ runStatus[r] \notin TerminalStatus
  OBVIOUS
<1>4. CASE LifecycleOf(b) = AllowedBusy /\ LifecycleOf(b)' = AllowedDone
  BY <1>1, <1>2, <1>3, <1>4, OneRecordKeepsRecall
<1>5. CASE LifecycleOf(b) = HeldBusy /\ LifecycleOf(b)' = HeldDone
  BY <1>1, <1>2, <1>3, <1>5, OneRecordKeepsRecall
<1> QED BY <1>4, <1>5

\* The receipt of a directly allowed action.
LEMMA RecordAllowedKeepsRecall ==
    ASSUME TypeOK, SingleUse, Closure, Receipts, LogRecallsTables, NEW b \in Actions,
           RecordAllowed(b)
    PROVE  LogRecallsTables'
<1>1. submit[b].pc \in Executing
  BY DEF RecordAllowed, Executing
<1>2. decision[b] = "ALLOW" /\ receipt[b] = "NONE" /\ actionRun[b] = submit[b].run
      /\ submit[b].run \in Runs
  BY <1>1 DEF SingleUse, OneDecision, Receipts, ReceiptsInOrder, Closure, OneOwner, Executing
<1>3. approval[b] = "NONE"
  BY <1>2 DEF SingleUse, OneDecision
<1>4. runStatus[actionRun[b]] \notin TerminalStatus
  BY <1>1, <1>2 DEF Closure, ClosedRunIsQuiet, ExecutingIn
<1>5. PICK type \in TerminalExecutionEvents :
        Record(actionRun[b], <<Event(type, b)>>)
  BY <1>2 DEF RecordAllowed, ExecutionRecord, TerminalExecutionEvents
<1>6. /\ receipt'[b] \in {"EXECUTED", "FAILED"}
      /\ \A a \in Actions \ {b} : receipt'[a] = receipt[a]
      /\ UNCHANGED <<runStatus, actionRun, decision, approval>>
  BY DEF RecordAllowed, TypeOK, ReceiptStatus
<1>7. LifecycleOf(b) = AllowedBusy
  BY <1>2, <1>3, RowsToLifecycle DEF RowsRead, LifecycleTable, StandsFor
<1>8. LifecycleOf(b)' = AllowedDone
  BY <1>2, <1>3, <1>6, RowsNext DEF RowsRead, LifecycleTable, StandsFor
<1> QED BY <1>2, <1>4, <1>5, <1>6, <1>7, <1>8, FinishKeepsRecall

-----------------------------------------------------------------------------
(* The expiries of a sweep. *)

\* A listing names every approval once.
LEMMA ListingNamesOnce ==
    ASSUME NEW S \in SUBSET Actions, NEW listing \in Listings(S)
    PROVE  /\ Cardinality(S) \in Nat
           /\ listing \in [1 .. Cardinality(S) -> S]
           /\ \A i, j \in 1 .. Cardinality(S) : listing[i] = listing[j] => i = j
           /\ \A a \in S : \E i \in 1 .. Cardinality(S) : listing[i] = a
<1> DEFINE n == Cardinality(S)
<1>1. IsFiniteSet(S) /\ n \in Nat
  BY LifecycleAssumption, FS_Subset, FS_CardinalityType
<1>2. listing \in [1 .. n -> S] /\ \A a \in S : \E i \in 1 .. n : listing[i] = a
  BY DEF Listings
<1>3. IsFiniteSet(1 .. n) /\ Cardinality(1 .. n) = n
  BY <1>1, FS_Interval
<1>4. listing \in Surjection(1 .. n, S)
  BY <1>2 DEF Surjection
<1>5. listing \in Injection(1 .. n, S)
  BY <1>3, <1>4, FS_SurjSameCardinalityImpliesInj
<1> QED BY <1>1, <1>2, <1>5 DEF Injection, IsInjective

\* The lifecycles of run r once the approvals of the actions in gone expired.
Expired(r, gone) == [a \in Actions |-> IF a \in gone THEN HeldClosed ELSE Lifecycles(r)[a]]

\* The expiry of a pending approval is accepted in an open run and in a
\* closed one.
LEMMA ExpiryIsRead ==
    ASSUME NEW r \in Runs, NEW gone, NEW b \in Actions, b \notin gone,
           Lifecycles(r)[b] = HeldPending
    PROVE  VerifierStep(Verified(runStatus[r] \in TerminalStatus, Expired(r, gone)),
                        Event("APPROVAL_EXPIRED", b)) =
             Verified(runStatus[r] \in TerminalStatus, Expired(r, gone \cup {b}))
<1> DEFINE closed == runStatus[r] \in TerminalStatus
           g == Expired(r, gone)
           rec == Event("APPROVAL_EXPIRED", b)
<1>1. rec.type = "APPROVAL_EXPIRED" /\ rec.action = b /\ b # NoAction
  BY LifecycleAssumption DEF Event
<1>2. g = [a \in Actions |-> g[a]] /\ g[b] = HeldPending
  BY DEF Expired
<1>3. [g EXCEPT ![b] = HeldClosed] = Expired(r, gone \cup {b})
  BY DEF Expired
<1> HIDE DEF closed, g, rec
<1>4. /\ LifecycleAllows("APPROVAL_EXPIRED", HeldPending)
      /\ LifecycleAfter("APPROVAL_EXPIRED", HeldPending) = HeldClosed
  BY ResolutionRecords DEF ApprovalClosedEvents
<1>5. PendingExpiry(rec, g)
  BY <1>1, <1>2 DEF PendingExpiry, HeldPending, Lifecycle
<1>6. RunAllows(rec, closed, g)
  BY <1>1, <1>5 DEF RunAllows, RetentionEvents
<1>7. ActionAllows(rec, g)
  BY <1>1, <1>2, <1>4 DEF ActionAllows
<1>8. (TRUE /\ rec.type \in KnownEvents /\ RunAllows(rec, closed, g) /\ ActionAllows(rec, g)) = TRUE
  BY <1>1, <1>6, <1>7 DEF KnownEvents, ApprovalClosedEvents
<1>9. (closed \/ rec.type \in RunTerminalEvents) = closed
  BY <1>1 DEF closed, RunTerminalEvents
<1>10. [a \in Actions |-> IF a = rec.action THEN LifecycleAfter(rec.type, g[a]) ELSE g[a]] =
         [g EXCEPT ![b] = HeldClosed]
  BY <1>1, <1>2, <1>4
<1>11. VerifierStep(Verified(closed, g), rec) =
         [ok |-> (TRUE /\ rec.type \in KnownEvents /\ RunAllows(rec, closed, g) /\ ActionAllows(rec, g)),
          closed |-> (closed \/ rec.type \in RunTerminalEvents),
          actions |-> [a \in Actions |-> IF a = rec.action THEN LifecycleAfter(rec.type, g[a]) ELSE g[a]]]
  BY DEF VerifierStep, Verified
<1>12. VerifierStep(Verified(closed, g), rec) =
         Verified(closed, [g EXCEPT ![b] = HeldClosed])
  BY <1>8, <1>9, <1>10, <1>11 DEF Verified
<1> QED BY <1>3, <1>12 DEF closed, g, rec

\* A chain that ends in the expiries of pending approvals is accepted as the
\* chain before them is, in whatever order they come.
LEMMA ExpiriesAreRead ==
    ASSUME NEW S \in SUBSET Actions, NEW listing \in Listings(S), NEW s \in Seq(ChainRecord),
           NEW r \in Runs, \A a \in S : Lifecycles(r)[a] = HeldPending,
           Remembered(s) = Verified(runStatus[r] \in TerminalStatus, Lifecycles(r))
    PROVE  Remembered(s \o ExpiryRecords(listing)) =
             Verified(runStatus[r] \in TerminalStatus, Expired(r, S))
<1> DEFINE closed == runStatus[r] \in TerminalStatus
           t == ExpiryRecords(listing)
           L == Cardinality(S)
           Gone(n) == {listing[i] : i \in 1 .. n}
           T == {n \in Nat : n <= L =>
                   Memory(s \o t)[Len(s) + n] = Verified(closed, Expired(r, Gone(n)))}
<1>1. /\ L \in Nat /\ listing \in [1 .. L -> S]
      /\ \A i, j \in 1 .. L : listing[i] = listing[j] => i = j
      /\ \A a \in S : \E i \in 1 .. L : listing[i] = a
  BY ListingNamesOnce
<1>2. t \in Seq(ChainRecord) BY ExpiryType
<1>3. /\ Len(t) = L
      /\ \A i \in 1 .. L : t[i] = Event("APPROVAL_EXPIRED", listing[i])
  BY <1>1, <1>2 DEF ExpiryRecords
<1>4. /\ Memory(s \o t)[Len(s)] = Remembered(s)
      /\ Memory(s \o t)[Len(s) + L] = Remembered(s \o t)
  BY <1>2, <1>3, MemoryBeyond
<1>5. \A n \in 1 .. Len(t) :
        Memory(s \o t)[Len(s) + n] = VerifierStep(Memory(s \o t)[Len(s) + n - 1], t[n])
  BY <1>2, MemoryBeyond
<1>6. Len(s) \in Nat /\ Remembered(s) = Verified(closed, Lifecycles(r))
  OBVIOUS
<1> HIDE DEF t, L
<1>7. 0 \in T
  <2>1. Expired(r, Gone(0)) = Lifecycles(r)
    <3>1. Gone(0) = {} OBVIOUS
    <3> HIDE DEF Gone
    <3> QED BY <3>1, LifecyclesShape DEF Expired
  <2> HIDE DEF closed, Gone
  <2> QED BY <1>4, <1>6, <2>1
<1>8. ASSUME NEW n \in Nat, n \in T
      PROVE  n + 1 \in T
  <2> SUFFICES ASSUME n + 1 <= L
               PROVE  Memory(s \o t)[Len(s) + (n + 1)] = Verified(closed, Expired(r, Gone(n + 1)))
    OBVIOUS
  <2>1. Memory(s \o t)[Len(s) + n] = Verified(closed, Expired(r, Gone(n)))
    BY <1>1, <1>8
  <2> PICK b : b = listing[n + 1] OBVIOUS
  <2>2. n + 1 \in 1 .. L BY <1>1
  <2>3. b \in S /\ b \in Actions BY <1>1, <2>2
  <2>4. b \notin Gone(n)
    BY <1>1, <2>2
  <2>5. Gone(n + 1) = Gone(n) \cup {b}
    BY <1>1, <2>2
  <2>6. Memory(s \o t)[Len(s) + (n + 1)] =
          VerifierStep(Memory(s \o t)[Len(s) + n], Event("APPROVAL_EXPIRED", b))
    <3>1. (Len(s) + (n + 1)) - 1 = Len(s) + n BY <1>6
    <3>2. Memory(s \o t)[Len(s) + (n + 1)] =
            VerifierStep(Memory(s \o t)[(Len(s) + (n + 1)) - 1], t[n + 1])
      BY <1>3, <1>5, <2>2
    <3> QED BY <1>3, <2>2, <3>1, <3>2
  <2>7. VerifierStep(Verified(closed, Expired(r, Gone(n))), Event("APPROVAL_EXPIRED", b)) =
          Verified(closed, Expired(r, Gone(n) \cup {b}))
    <3> HIDE DEF Gone
    <3> QED BY <2>3, <2>4, ExpiryIsRead
  <2> HIDE DEF closed, Gone
  <2> QED BY <2>1, <2>5, <2>6, <2>7
<1> HIDE DEF T, closed
<1>9. L \in T
  <2>1. Nat \subseteq T BY <1>7, <1>8, NatSetInduction
  <2> QED BY <1>1, <2>1
<1>10. Gone(L) = S BY <1>1
<1>11. Memory(s \o t)[Len(s) + L] = Verified(closed, Expired(r, Gone(L)))
  BY <1>1, <1>9 DEF T
<1> HIDE DEF Gone
<1>12. Remembered(s \o t) = Verified(closed, Expired(r, S))
  BY <1>4, <1>10, <1>11
<1> QED BY <1>12 DEF t, closed

\* A sweep writes the expiries of the approvals it still finds pending into
\* the logs of their runs, closed ones included.
LEMMA SweepKeepsRecall ==
    ASSUME TypeOK, SingleUse, Closure, Receipts, LogRecallsTables, NEW s \in Sweepers,
           CommitSweep(s)
    PROVE  LogRecallsTables'
<1> DEFINE gone == Expirable(s)
           of(r) == {a \in gone : actionRun[a] = r}
<1>1. PICK listing :
        /\ \A r \in Runs : listing[r] \in Listings(of(r))
        /\ log' = [r \in Runs |-> log[r] \o ExpiryRecords(listing[r])]
  BY DEF CommitSweep
<1>2. \A r \in Runs : of(r) \in SUBSET Actions /\ log[r] \in Seq(ChainRecord)
  BY DEF TypeOK, Expirable
<1>3. /\ \A a \in gone : approval[a] = "PENDING" /\ approval'[a] = "EXPIRED"
      /\ \A a \in Actions \ gone : approval'[a] = approval[a]
      /\ UNCHANGED <<actionRun, decision, receipt>>
      /\ gone \subseteq Actions
  BY DEF CommitSweep, Expirable, TypeOK
<1>4. \A x \in Runs : runStatus'[x] \in TerminalStatus <=> runStatus[x] \in TerminalStatus
  BY ReleasedKeepsClosed DEF CommitSweep, TypeOK
<1>5. \A a \in gone : LifecycleOf(a) = HeldPending /\ LifecycleOf(a)' = HeldClosed
  <2> SUFFICES ASSUME NEW a \in gone
               PROVE  LifecycleOf(a) = HeldPending /\ LifecycleOf(a)' = HeldClosed
    OBVIOUS
  <2>1. a \in Actions /\ approval[a] = "PENDING" BY <1>3
  <2>2. decision[a] = "HOLD" /\ receipt[a] = "NONE" /\ LifecycleOf(a) = HeldPending
    BY <2>1, PendingIsRead
  <2>3. decision'[a] = "HOLD" /\ receipt'[a] = "NONE" /\ approval'[a] = "EXPIRED"
    BY <1>3, <2>2
  <2>4. LifecycleOf(a)' = HeldClosed
    BY <2>1, <2>3, RowsNext DEF RowsRead, LifecycleTable, StandsFor
  <2> QED BY <2>2, <2>4
<1>6. \A a \in Actions \ gone : LifecycleOf(a)' = LifecycleOf(a)
  BY <1>3 DEF LifecycleOf
<1> HIDE DEF gone
<1>7. ASSUME NEW r \in Runs
      PROVE  Lifecycles(r)' = Expired(r, of(r))
  BY <1>3, <1>5, <1>6 DEF Lifecycles, Expired
<1>8. ASSUME NEW r \in Runs
      PROVE  Remembered(log'[r]) = [ok |-> TRUE, closed |-> runStatus'[r] \in TerminalStatus,
                                    actions |-> Lifecycles(r)']
  <2>1. /\ log'[r] = log[r] \o ExpiryRecords(listing[r])
        /\ of(r) \in SUBSET Actions /\ listing[r] \in Listings(of(r))
        /\ log[r] \in Seq(ChainRecord)
    BY <1>1, <1>2
  <2>2. Remembered(log[r]) = Verified(runStatus[r] \in TerminalStatus, Lifecycles(r))
    BY DEF LogRecallsTables, Verified
  <2>3. \A a \in of(r) : Lifecycles(r)[a] = HeldPending
    BY <1>5, <2>1, LifecyclesShape
  <2>4. (runStatus'[r] \in TerminalStatus) = (runStatus[r] \in TerminalStatus)
    BY <1>4
  <2> HIDE DEF of
  <2>5. Remembered(log'[r]) = Verified(runStatus[r] \in TerminalStatus, Expired(r, of(r)))
    BY <2>1, <2>2, <2>3, ExpiriesAreRead
  <2> QED BY <1>7, <2>4, <2>5 DEF Verified
<1> QED BY <1>8 DEF LogRecallsTables

\* A review, in each of its steps.
LEMMA ReviewKeepsRecall ==
    ASSUME TypeOK, SingleUse, Closure, Receipts, LogRecallsTables, NEW q \in Reviewers
    PROVE  /\ \A a \in Actions : BeginResolve(q, a) => LogRecallsTables'
           /\ ReviewStep(q) \/ LoseReview(q) => LogRecallsTables'
<1> PICK a : a = review[q].action OBVIOUS
<1>0. /\ approval \in [Actions -> ApprovalStatus]
      /\ runStatus \in [Runs -> RunStatus]
      /\ receipt \in [Actions -> {"NONE", "EXECUTED", "FAILED", "NOT_EXECUTED"}]
  BY DEF TypeOK
<1>1. ASSUME \/ \E b \in Actions : BeginResolve(q, b)
             \/ RefuseResolve(q) \/ LoseReview(q) \/ DispatchGranted(q) \/ RunGranted(q)
      PROVE  LogRecallsTables'
  <2>1. UNCHANGED <<runStatus, log, actionRun, decision, approval, receipt>>
    BY <1>1 DEF BeginResolve, RefuseResolve, LoseReview, DispatchGranted, RunGranted, dbVars
  <2> QED BY <2>1, OtherStepsKeepRecall
<1>2. review[q].pc \in Executing \cup {"ready"} => a \in Actions
  BY DEF SingleUse, OneReviewerEach, Executing
<1>3. ASSUME ExpireOnResolve(q)
      PROVE  LogRecallsTables'
  <2>1. a \in Actions /\ approval[a] = "PENDING"
    BY <1>2, <1>3 DEF ExpireOnResolve, Resolvable
  <2>2. /\ approval'[a] = "EXPIRED" /\ receipt' = receipt
        /\ \A b \in Actions \ {a} : approval'[b] = approval[b]
        /\ actionRun' = actionRun /\ decision' = decision
    BY <1>0, <1>3, <2>1 DEF ExpireOnResolve
  <2>3. Record(actionRun[a], <<Event("APPROVAL_EXPIRED", a)>>)
    BY <1>3 DEF ExpireOnResolve
  <2>4. \A x \in Runs : runStatus'[x] \in TerminalStatus <=> runStatus[x] \in TerminalStatus
    BY <1>0, <1>3, ReleasedKeepsClosed DEF ExpireOnResolve
  <2>5. receipt[a] = "NONE" BY <2>1, PendingIsRead
  <2>6. "APPROVAL_EXPIRED" \in ApprovalClosedEvents BY DEF ApprovalClosedEvents
  <2> QED BY <2>1, <2>2, <2>3, <2>4, <2>5, <2>6, CloseHoldKeepsRecall
<1>4. ASSUME DenyHold(q)
      PROVE  LogRecallsTables'
  <2>1. /\ a \in Actions /\ approval[a] = "PENDING"
        /\ runStatus[actionRun[a]] \notin TerminalStatus
    BY <1>2, <1>4 DEF DenyHold, Resolvable, LiveStatus, TerminalStatus
  <2>2. /\ approval'[a] = "DENIED" /\ receipt'[a] = "NOT_EXECUTED"
        /\ \A b \in Actions \ {a} : approval'[b] = approval[b] /\ receipt'[b] = receipt[b]
        /\ actionRun' = actionRun /\ decision' = decision
    BY <1>0, <1>4, <2>1 DEF DenyHold
  <2>3. Record(actionRun[a], <<Event("APPROVAL_DENIED", a)>>)
    BY <1>4 DEF DenyHold
  <2>4. \A x \in Runs : runStatus'[x] \in TerminalStatus <=> runStatus[x] \in TerminalStatus
    BY <1>0, <1>4, ReleasedKeepsClosed DEF DenyHold
  <2>5. "APPROVAL_DENIED" \in ApprovalClosedEvents BY DEF ApprovalClosedEvents
  <2> QED BY <2>1, <2>2, <2>3, <2>4, <2>5, CloseHoldKeepsRecall
<1>5. ASSUME Grant(q)
      PROVE  LogRecallsTables'
  <2> DEFINE first == "APPROVAL_GRANTED"
             second == "EXECUTION_STARTED"
  <2>1. /\ a \in Actions /\ approval[a] = "PENDING"
        /\ runStatus[actionRun[a]] \notin TerminalStatus
    BY <1>2, <1>5 DEF Grant, Resolvable, LiveStatus, TerminalStatus
  <2>2. /\ decision[a] = "HOLD" /\ receipt[a] = "NONE" /\ actionRun[a] \in Runs
        /\ LifecycleOf(a) = HeldPending
    BY <2>1, PendingIsRead
  <2>3. /\ approval'[a] = "APPROVED" /\ receipt' = receipt
        /\ \A b \in Actions \ {a} : approval'[b] = approval[b]
        /\ actionRun' = actionRun /\ decision' = decision /\ runStatus' = runStatus
    BY <1>0, <1>5, <2>1 DEF Grant
  <2>4. LifecycleOf(a)' = HeldBusy
    BY <2>1, <2>2, <2>3, RowsNext DEF RowsRead, LifecycleTable, StandsFor
  <2>5. Record(actionRun[a], <<Event(first, a), Event(second, a)>>)
    BY <1>5 DEF Grant
  <2>6. /\ first \in KnownEvents \ (RunTerminalEvents \cup RetentionEvents)
        /\ second \in KnownEvents \ (RunTerminalEvents \cup RetentionEvents)
    BY DEF KnownEvents, ExecutionEvents, RunTerminalEvents, RetentionEvents
  <2>7. /\ LifecycleAllows(first, HeldPending) /\ LifecycleAfter(first, HeldPending) = HeldGranted
        /\ LifecycleAllows(second, HeldGranted) /\ LifecycleAfter(second, HeldGranted) = HeldBusy
    BY ResolutionRecords
  <2> HIDE DEF first, second
  <2>8. PICK r : r = actionRun[a] OBVIOUS
  <2> QED BY <2>1, <2>2, <2>3, <2>4, <2>5, <2>6, <2>7, <2>8, TwoRecordsKeepRecall
<1>6. ASSUME RecordGranted(q)
      PROVE  LogRecallsTables'
  <2>1. /\ review[q].pc \in {"succeeded", "failed"}
        /\ review[q].pc \in Executing /\ a \in Actions /\ approval[a] = "APPROVED"
    BY <1>2, <1>6 DEF RecordGranted, Executing, SingleUse, OneReviewerEach
  <2>2. decision[a] = "HOLD"
    BY <2>1 DEF SingleUse, OneDecision
  <2>3. receipt[a] = "NONE"
    BY <2>1, <2>2 DEF Receipts, ReceiptsInOrder, ReceiptsOf
  <2>4. actionRun[a] \in Runs
    BY <2>1, <2>2, StoredHasRun
  <2>5. runStatus[actionRun[a]] \notin TerminalStatus
    BY <2>1, <2>4 DEF Closure, ClosedRunIsQuiet
  <2>6. LifecycleOf(a) = HeldBusy
    BY <2>1, <2>2, <2>3, RowsToLifecycle DEF RowsRead, LifecycleTable, StandsFor
  <2>7. /\ approval'[a] = "CONSUMED" /\ receipt'[a] \in {"EXECUTED", "FAILED"}
        /\ \A b \in Actions \ {a} : approval'[b] = approval[b] /\ receipt'[b] = receipt[b]
        /\ actionRun' = actionRun /\ decision' = decision
    BY <1>0, <1>6, <2>1 DEF RecordGranted, Consumed, ReceiptStatus
  <2>8. LifecycleOf(a)' = HeldDone
    BY <2>1, <2>2, <2>7, RowsNext DEF RowsRead, LifecycleTable, StandsFor
  <2>9. \A x \in Runs : runStatus'[x] \in TerminalStatus <=> runStatus[x] \in TerminalStatus
    BY <1>0, <1>6, ReleasedKeepsClosed DEF RecordGranted
  <2>10. PICK type \in TerminalExecutionEvents : Record(actionRun[a], <<Event(type, a)>>)
    <3>1. ExecutionRecord(a, review[q].pc)
             \in {Event("EXECUTION_SUCCEEDED", a), Event("EXECUTION_FAILED", a)}
      BY DEF ExecutionRecord
    <3>2. Record(actionRun[a], <<ExecutionRecord(a, review[q].pc)>>)
      BY <1>6 DEF RecordGranted
    <3> QED BY <3>1, <3>2 DEF TerminalExecutionEvents
  <2> QED BY <2>1, <2>4, <2>5, <2>6, <2>7, <2>8, <2>9, <2>10, FinishKeepsRecall
<1> QED BY <1>1, <1>3, <1>4, <1>5, <1>6 DEF ReviewStep

LEMMA StepRecall ==
    TypeOK /\ SingleUse /\ Closure /\ Receipts /\ LogRecallsTables /\ [Next]_vars
      => LogRecallsTables'
<1> SUFFICES ASSUME TypeOK, SingleUse, Closure, Receipts, LogRecallsTables, [Next]_vars
             PROVE  LogRecallsTables'
  OBVIOUS
<1>1. ASSUME NEW r \in Runs, CreateRun(r) \/ CompleteRun(r) \/ FailRun(r)
      PROVE  LogRecallsTables'
  BY <1>1, RunKeepsRecall
<1>2. ASSUME NEW a \in Actions, CommitAllow(a) \/ CommitHold(a) \/ CommitDeny(a)
      PROVE  LogRecallsTables'
  BY <1>2, CommitKeepsRecall
<1>3. ASSUME NEW a \in Actions, RecordAllowed(a)
      PROVE  LogRecallsTables'
  BY <1>3, RecordAllowedKeepsRecall
<1>4. ASSUME NEW a \in Actions, ExpireWait(a)
      PROVE  LogRecallsTables'
  <2>1. /\ approval[a] = "PENDING" /\ approval'[a] = "EXPIRED" /\ receipt' = receipt
        /\ \A b \in Actions \ {a} : approval'[b] = approval[b]
        /\ actionRun' = actionRun /\ decision' = decision
    BY <1>4 DEF ExpireWait, TypeOK
  <2>2. Record(actionRun[a], <<Event("APPROVAL_EXPIRED", a)>>)
    BY <1>4 DEF ExpireWait
  <2>3. \A x \in Runs : runStatus'[x] \in TerminalStatus <=> runStatus[x] \in TerminalStatus
    BY <1>4, ReleasedKeepsClosed DEF ExpireWait, TypeOK
  <2>4. receipt[a] = "NONE" BY <2>1, PendingIsRead
  <2>5. "APPROVAL_EXPIRED" \in ApprovalClosedEvents BY DEF ApprovalClosedEvents
  <2> QED BY <2>1, <2>2, <2>3, <2>4, <2>5, CloseHoldKeepsRecall
<1>5. ASSUME NEW s \in Sweepers, CommitSweep(s)
      PROVE  LogRecallsTables'
  BY <1>5, SweepKeepsRecall
<1>6. ASSUME \/ \E a \in Actions :
                  \/ \E r \in Runs : BeginSubmit(a, r)
                  \/ AuditReturns(a) \/ RefuseSubmit(a) \/ DispatchAllowed(a) \/ RunAllowed(a)
                  \/ DeadlinePasses(a) \/ LoseSubmit(a)
             \/ \E s \in Sweepers : LoseSweep(s) \/ \E scope \in SweepScopes : BeginSweep(s, scope)
             \/ UNCHANGED vars
      PROVE  LogRecallsTables'
  <2>1. UNCHANGED <<runStatus, log, actionRun, decision, approval, receipt>>
    BY <1>6 DEF BeginSubmit, AuditReturns, RefuseSubmit, DispatchAllowed, RunAllowed,
                DeadlinePasses, LoseSubmit, LoseSweep, BeginSweep, vars, dbVars
  <2> QED BY <2>1, OtherStepsKeepRecall
<1> QED
  BY <1>1, <1>2, <1>3, <1>4, <1>5, <1>6, ReviewKeepsRecall DEF Next, SubmitStep

-----------------------------------------------------------------------------
(* The theorems. *)

\* The offline verifier accepts the log of every run and remembers of each of
\* its actions what the decision, approval and receipt tables hold.
THEOREM LogRecalls == Spec => []LogRecallsTables
<1>1. Init => LogRecallsTables
  BY InitRecall
<1>2. TypeOK /\ SingleUse /\ Closure /\ Receipts /\ LogRecallsTables /\ [Next]_vars
        => LogRecallsTables'
  BY StepRecall
<1> QED
  BY <1>1, <1>2, TypeCorrect, SingleUseHolds, ClosureHolds, ReceiptsHold, PTL DEF Spec

\* Whatever the handlers interleave, crash or repeat, the records they leave
\* are a history the offline verifier accepts.
THEOREM EvidenceAlwaysVerifies == Spec => []EvidenceVerifies
<1>1. LogRecallsTables => EvidenceVerifies
  <2> SUFFICES ASSUME LogRecallsTables, NEW r \in Runs
               PROVE  Remembered(log[r]).ok
    BY DEF EvidenceVerifies, Verifies
  <2> DEFINE closed == runStatus[r] \in TerminalStatus
             f == Lifecycles(r)
  <2>1. Remembered(log[r]) = [ok |-> TRUE, closed |-> closed, actions |-> f]
    BY DEF LogRecallsTables
  <2> HIDE DEF closed, f
  <2> QED BY <2>1
<1> QED
  BY <1>1, LogRecalls, PTL

=============================================================================
