---------------------------- MODULE EvidenceChain ----------------------------
(***************************************************************************)
(* The rules of evidence_chain.py: which sequences of evidence events a    *)
(* run may have recorded.  A record keeps the two fields the rules read,   *)
(* its event type and the action it names (NoAction when it names none);   *)
(* digests and hash linkage are outside this module.                       *)
(***************************************************************************)
EXTENDS Naturals, Sequences

CONSTANTS Actions, NoAction

-----------------------------------------------------------------------------
(* The event catalog. *)

DecisionEvents == {"POLICY_ALLOWED", "POLICY_DENIED", "POLICY_HELD"}

TerminalExecutionEvents == {"EXECUTION_SUCCEEDED", "EXECUTION_FAILED"}

ExecutionEvents == {"EXECUTION_STARTED"} \cup TerminalExecutionEvents

ApprovalClosedEvents == {"APPROVAL_DENIED", "APPROVAL_EXPIRED"}

RunTerminalEvents == {"RUN_COMPLETED", "SYSTEM_ERROR"}

RetentionEvents ==
    {"WORKSPACE_PRUNE_ATTEMPTED", "WORKSPACE_PRUNED", "WORKSPACE_PRUNE_FAILED"}

KnownEvents ==
    DecisionEvents \cup ExecutionEvents \cup ApprovalClosedEvents
      \cup RunTerminalEvents \cup RetentionEvents
      \cup {"RUN_CREATED", "ACTION_REQUESTED", "APPROVAL_REQUESTED",
            "APPROVAL_GRANTED", "REASONING_AUDIT_COMPLETED",
            "REASONING_AUDIT_FAILED"}

ChainRecord == [type : KnownEvents, action : Actions \cup {NoAction}]

Event(type, a) == [type |-> type, action |-> a]

\* Some record is of one of the types and names action a.
Mentions(records, a, types) ==
    \E i \in DOMAIN records : records[i].action = a /\ records[i].type \in types

-----------------------------------------------------------------------------
(* What the verifier remembers of one action while it reads the chain. *)

NewLifecycle ==
    [decision |-> "NONE", requested |-> FALSE, approval |-> "NONE",
     started |-> FALSE, terminal |-> FALSE]

\* Mutant: being held is enough to execute.
AuthorisesHeld(s) == s.decision \in {"POLICY_ALLOWED", "POLICY_HELD"}

Authorises(s) ==
    \/ s.decision = "POLICY_ALLOWED"
    \/ s.decision = "POLICY_HELD" /\ s.approval = "GRANTED"

\* The record contradicts nothing the chain already says of its action.
LifecycleAllows(type, s) ==
    /\ type \in DecisionEvents => s.decision = "NONE"
    /\ type = "APPROVAL_GRANTED" =>
         /\ s.decision = "POLICY_HELD"
         /\ s.approval = "NONE"
         /\ s.requested
    /\ type \in ApprovalClosedEvents => s.approval # "GRANTED"
    /\ type \in ExecutionEvents =>
         /\ Authorises(s)
         /\ ~s.terminal
         /\ type = "EXECUTION_STARTED" => ~s.started

LifecycleAfter(type, s) ==
    [decision  |-> IF type \in DecisionEvents THEN type ELSE s.decision,
     requested |-> s.requested \/ type = "APPROVAL_REQUESTED",
     approval  |-> CASE type = "APPROVAL_GRANTED" -> "GRANTED"
                     [] type \in ApprovalClosedEvents /\ s.approval = "NONE" -> "CLOSED"
                     [] OTHER -> s.approval,
     started   |-> s.started \/ type = "EXECUTION_STARTED",
     terminal  |-> s.terminal \/ type \in TerminalExecutionEvents]

\* A record that names no action takes part in no lifecycle, but execution
\* and grant records must always name theirs.
ActionAllows(rec, actions) ==
    IF rec.action = NoAction
    THEN rec.type \notin ExecutionEvents \cup {"APPROVAL_GRANTED"}
    ELSE LifecycleAllows(rec.type, actions[rec.action])

\* Mutant: any expiry of a held action passes, answered before or not.
PendingExpiryAnswered(rec, actions) ==
    /\ rec.type = "APPROVAL_EXPIRED"
    /\ rec.action # NoAction
    /\ actions[rec.action].decision = "POLICY_HELD"
    /\ actions[rec.action].requested

\* Expiry of an approval that was still pending when the run closed.
PendingExpiry(rec, actions) ==
    /\ rec.type = "APPROVAL_EXPIRED"
    /\ rec.action # NoAction
    /\ actions[rec.action].decision = "POLICY_HELD"
    /\ actions[rec.action].requested
    /\ actions[rec.action].approval = "NONE"

\* After the run's terminal record only repeated closes, pending expiry and
\* actionless retention records may follow; retention needs a closed run.
RunAllows(rec, closed, actions) ==
    LET retention == rec.type \in RetentionEvents
    IN  /\ retention => closed /\ rec.action = NoAction
        /\ closed => \/ rec.type \in RunTerminalEvents
                     \/ PendingExpiry(rec, actions)
                     \/ retention

VerifierStart ==
    [ok |-> TRUE, closed |-> FALSE, actions |-> [a \in Actions |-> NewLifecycle]]

VerifierStep(st, rec) ==
    [ok      |-> /\ st.ok
                 /\ rec.type \in KnownEvents
                 /\ RunAllows(rec, st.closed, st.actions)
                 /\ ActionAllows(rec, st.actions),
     closed  |-> st.closed \/ rec.type \in RunTerminalEvents,
     actions |-> [a \in Actions |->
                    IF a = rec.action THEN LifecycleAfter(rec.type, st.actions[a])
                                      ELSE st.actions[a]]]

\* verify_records on the rules above: what it remembers after n records, and
\* the verdict after the whole chain.
Memory(records) ==
    LET after[n \in 0 .. Len(records)] ==
            IF n = 0 THEN VerifierStart ELSE VerifierStep(after[n - 1], records[n])
    IN  after

Remembered(records) == Memory(records)[Len(records)]

Verifies(records) == Remembered(records).ok

=============================================================================
