--------------------------- MODULE EvidenceHistory ---------------------------
(***************************************************************************)
(* The verifier of EvidenceChain against a reading of the same rules that  *)
(* keeps no state: LegalAt says of each record which records may come      *)
(* before it, in the words of docs/security/evidence-log.md, section 3.    *)
(* The histories are built record by record, as an exporter or somebody    *)
(* who edits an export would, and only accepted ones are extended.         *)
(***************************************************************************)
EXTENDS EvidenceChain, FiniteSets

CONSTANTS
    EventTypes,  \* the event types that occur
    MaxRecords   \* bound: length of a history

ASSUME HistoryAssumption ==
    /\ NoAction \notin Actions
    /\ EventTypes \subseteq KnownEvents
    /\ MaxRecords \in Nat

VARIABLE chain

Init == chain = <<>>

Next ==
    /\ Len(chain) < MaxRecords
    /\ Verifies(chain)
    /\ \E type \in EventTypes, a \in Actions \cup {NoAction} :
         chain' = Append(chain, Event(type, a))

Spec == Init /\ [][Next]_chain

-----------------------------------------------------------------------------
\* One of types, for action a, comes before position n.
Before(n, a, types) == \E i \in 1 .. n - 1 : chain[i].action = a /\ chain[i].type \in types

ClosedBefore(n) == \E i \in 1 .. n - 1 : chain[i].type \in RunTerminalEvents

Authorised(n, a) ==
    \/ Before(n, a, {"POLICY_ALLOWED"})
    \/ Before(n, a, {"POLICY_HELD"}) /\ Before(n, a, {"APPROVAL_GRANTED"})

\* An approval a reviewer could still answer.
Open(n, a) ==
    /\ a # NoAction
    /\ Before(n, a, {"POLICY_HELD"})
    /\ Before(n, a, {"APPROVAL_REQUESTED"})
    /\ ~Before(n, a, {"APPROVAL_GRANTED"} \cup ApprovalClosedEvents)

LegalAt(n) ==
    LET type == chain[n].type
        a    == chain[n].action
    IN  /\ type \in ExecutionEvents =>
             a # NoAction /\ Authorised(n, a) /\ ~Before(n, a, TerminalExecutionEvents)
        /\ type = "EXECUTION_STARTED" => ~Before(n, a, {type})
        /\ type = "APPROVAL_GRANTED" => Open(n, a)
        /\ a # NoAction /\ type \in DecisionEvents => ~Before(n, a, DecisionEvents)
        /\ a # NoAction /\ type \in ApprovalClosedEvents => ~Before(n, a, {"APPROVAL_GRANTED"})
        /\ type \in RetentionEvents => a = NoAction /\ ClosedBefore(n)
        /\ ClosedBefore(n) =>
             \/ type \in RunTerminalEvents \cup RetentionEvents
             \/ type = "APPROVAL_EXPIRED" /\ Open(n, a)

\* The one-pass verifier accepts exactly the histories the rules allow, so
\* nothing it forgets on the way (an approval closed twice, a decision of
\* another action, a close repeated) changes its verdict.
VerifierMatchesRules == Verifies(chain) <=> \A n \in DOMAIN chain : LegalAt(n)

\* The rules together forbid what they were made against: in an accepted
\* history an action is granted, starts and finishes at most once, and none
\* executes that was denied, or held and then denied or expired, or whose
\* run was closed.  (A denial of an approval nobody held says nothing.)
AcceptedHistoryIsSafe ==
    Verifies(chain) => \A a \in Actions :
        LET named(types) == {n \in DOMAIN chain : chain[n].action = a /\ chain[n].type \in types}
        IN  /\ \A types \in {{"EXECUTION_STARTED"}, {"APPROVAL_GRANTED"}, TerminalExecutionEvents} :
                 Cardinality(named(types)) <= 1
            /\ \A n \in named(ExecutionEvents) : ~ClosedBefore(n)
            /\ Mentions(chain, a, ExecutionEvents) => ~Mentions(chain, a, {"POLICY_DENIED"})
            /\ Mentions(chain, a, ExecutionEvents) /\ Mentions(chain, a, {"POLICY_HELD"}) =>
                 ~Mentions(chain, a, ApprovalClosedEvents)

=============================================================================
