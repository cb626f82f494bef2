------------------------------ MODULE TurnAudits ------------------------------
(***************************************************************************)
(* Reasoning audits within one run (submit_action in service.py and the    *)
(* audit table in repository.py): which text is audited, when the verdict  *)
(* of an earlier audit is reused, and what a verdict does to the policy's  *)
(* decision.  submit_action runs on the event loop and awaits the auditor, *)
(* so submissions of one turn overlap between lookup and commit.           *)
(***************************************************************************)
EXTENDS Integers, FiniteSets

CONSTANTS
    Submissions,
    Contents,      \* tool, operation, resource and arguments of an action
    Turns,         \* turn ids a caller may send
    Texts,         \* reasoning traces and summaries
    None,          \* no turn, no text, no audit
    Requiring,     \* contents whose operation is in require_reasoning_for
    Requests,      \* the submissions a caller may make
    AuditEnabled   \* SCOPEWATCH_REASONING_AUDIT is not off

Outcomes == {"ALLOW", "HOLD", "DENY"}
Verdicts == {"NO_CONCERN", "CONCERN", "FAILED"}

\* What is stored of an audit and of an action; None is neither.
AuditRow  == [verdict : Verdicts, at : Nat]
ActionRow == [turn : Turns \cup Submissions, audit : Submissions \cup {None},
              outcome : Outcomes]

AnyRequest == [content : Contents, turn : Turns \cup {None},
               trace : Texts \cup {None}, summary : Texts \cup {None}]

ASSUME TurnAuditAssumption ==
    /\ Requests \subseteq AnyRequest
    /\ None \notin Texts \cup Turns \cup Submissions
    /\ None \notin AuditRow /\ None \notin ActionRow
    /\ Turns \cap Submissions = {}
    /\ Requiring \subseteq Contents
    /\ AuditEnabled \in BOOLEAN

VARIABLES
    open,      \* the run is not in a terminal status
    now,       \* counts audits that returned: audited_at
    audits,    \* [Submissions -> the audit it ran, None until it is stored]
    actions,   \* [Submissions -> its stored action, None until then]
    submit     \* [Submissions -> the request and what its handler holds]

turnVars == <<open, now, audits, actions, submit>>

NoRequest == [pc |-> "new"]

TurnInit ==
    /\ open = TRUE
    /\ now = 0
    /\ audits  = [s \in Submissions |-> None]
    /\ actions = [s \in Submissions |-> None]
    /\ submit  = [s \in Submissions |-> NoRequest]

-----------------------------------------------------------------------------
(* What is audited, and what comes of it. *)

\* Mutant: a trace hides the summary.
EvidenceTraceFirst(r) ==
    IF r.trace # None THEN <<r.trace>>
    ELSE IF r.summary # None THEN <<r.summary>> ELSE << >>

\* Trace and summary both reach the auditor when they differ.
Evidence(r) ==
    IF r.trace = None
    THEN IF r.summary = None THEN << >> ELSE <<r.summary>>
    ELSE IF r.summary \in {None, r.trace} THEN <<r.trace>> ELSE <<r.trace, r.summary>>

\* A caller that names no turn has one of its own.
TurnOf(s, r) == IF r.turn = None THEN s ELSE r.turn

\* required_reasoning_decision: an allowed operation that requires reasoning
\* is held when it cannot be audited.
Required(r, outcome) ==
    IF /\ outcome = "ALLOW" /\ r.content \in Requiring
       /\ ~AuditEnabled \/ Evidence(r) = << >>
    THEN "HOLD" ELSE outcome

\* preview_action: the policy and the requirement, without an audit.
Preview(r, outcome) == Required(r, outcome)

\* Mutant: only a concern escalates; a failed audit does not.
EscalatedOnConcern(outcome, verdict) ==
    IF outcome = "ALLOW" /\ verdict = "CONCERN" THEN "HOLD" ELSE outcome

\* The merge rules: anything but a clean verdict holds what was allowed.
Escalated(outcome, verdict) ==
    IF outcome = "ALLOW" /\ verdict # "NO_CONCERN" THEN "HOLD" ELSE outcome

\* Identity of a planned action within a turn.
SameAction(r, q) == q.content = r.content /\ Evidence(q) = Evidence(r)

\* Mutant: only a clean audit is found again.
ReusableIfClean(s, r) ==
    {t \in Submissions : /\ actions[t] # None
                         /\ actions[t].audit # None
                         /\ audits[actions[t].audit].verdict = "NO_CONCERN"
                         /\ actions[t].turn = TurnOf(s, r)
                         /\ SameAction(r, submit[t].request)}

\* get_reasoning_audit_by_turn joins audits with the actions that carry them.
Reusable(s, r) ==
    {t \in Submissions : /\ actions[t] # None
                         /\ actions[t].audit # None
                         /\ actions[t].turn = TurnOf(s, r)
                         /\ SameAction(r, submit[t].request)}

\* ORDER BY audited_at DESC: the newest audit among them.
Newest(ts) ==
    CHOOSE a \in {actions[t].audit : t \in ts} :
        \A t \in ts : audits[actions[t].audit].at <= audits[a].at

-----------------------------------------------------------------------------
(* submit_action. *)

\* Policy first; then the cache.  No audit runs for a denied action, without
\* text, or while audits are off.  `earlier` records what was stored by then.
Lookup(s) ==
    /\ open
    /\ submit[s].pc = "new"
    /\ \E r \in Requests, policy \in Outcomes :
         LET outcome == Required(r, policy)
             audited == outcome # "DENY" /\ AuditEnabled /\ Evidence(r) # << >>
             hits    == Reusable(s, r)
         IN  submit' = [submit EXCEPT ![s] =
                [pc       |-> IF audited /\ hits = {} THEN "auditing" ELSE "decided",
                 request  |-> r,
                 policy   |-> policy,
                 outcome  |-> IF audited /\ hits # {}
                              THEN Escalated(outcome, audits[Newest(hits)].verdict)
                              ELSE outcome,
                 audit    |-> IF audited /\ hits # {} THEN Newest(hits) ELSE None,
                 verdict  |-> None,
                 at       |-> 0,
                 earlier  |-> {t \in Submissions : actions[t] # None}]]
    /\ UNCHANGED <<open, now, audits, actions>>

\* The awaited audit returns; a timeout or an error is a failed audit.
AuditReturns(s) ==
    /\ submit[s].pc = "auditing"
    /\ \E verdict \in Verdicts :
         submit' = [submit EXCEPT ![s].pc = "decided",
                                  ![s].audit = s,
                                  ![s].verdict = verdict,
                                  ![s].at = now + 1,
                                  ![s].outcome = Escalated(@, verdict)]
    /\ now' = now + 1
    /\ UNCHANGED <<open, audits, actions>>

\* Phase 1: the audit, if it is this submission's, and the action are stored
\* together.
Store(s) ==
    /\ submit[s].pc = "decided"
    /\ open
    /\ audits' = IF submit[s].audit = s
                 THEN [audits EXCEPT ![s] = [verdict |-> submit[s].verdict,
                                             at |-> submit[s].at]]
                 ELSE audits
    /\ actions' = [actions EXCEPT ![s] =
                     [turn    |-> TurnOf(s, submit[s].request),
                      audit   |-> submit[s].audit,
                      outcome |-> submit[s].outcome]]
    /\ submit' = [submit EXCEPT ![s].pc = "done"]
    /\ UNCHANGED <<open, now>>

\* RUN_NOT_ACTIVE: the verdict is dropped with everything else.
Refuse(s) ==
    /\ submit[s].pc = "decided"
    /\ ~open
    /\ submit' = [submit EXCEPT ![s].pc = "done"]
    /\ UNCHANGED <<open, now, audits, actions>>

CloseRun ==
    /\ open
    /\ open' = FALSE
    /\ UNCHANGED <<now, audits, actions, submit>>

TurnNext ==
    \/ \E s \in Submissions : Lookup(s) \/ AuditReturns(s) \/ Store(s) \/ Refuse(s)
    \/ CloseRun

TurnSpec == TurnInit /\ [][TurnNext]_turnVars

-----------------------------------------------------------------------------
(* Properties. *)

Stored == {s \in Submissions : actions[s] # None}
Audited == {s \in Stored : actions[s].audit # None}
Identical(s, t) ==
    /\ SameAction(submit[s].request, submit[t].request)
    /\ submit[s].request.turn = submit[t].request.turn
    /\ submit[s].request.turn # None

\* The audit an action carries is stored and examined this very action, with
\* every text it came with, in its turn: the join through the actions that
\* share an audit never leads to an audit of something else.
AuditExaminedAction ==
    \A s \in Audited :
        LET a == actions[s].audit
            r == submit[s].request
            q == submit[a].request
        IN  /\ audits[a] # None
            /\ q.content = r.content
            /\ TurnOf(a, q) = TurnOf(s, r)
            /\ {r.trace, r.summary} \ {None} \subseteq {q.trace, q.summary}

\* Reasoning only escalates: what is allowed was allowed by the policy and by
\* its preview, has a clean audit on record unless audits are off or it came
\* without text, and is not without one where the scope requires it.
OnlyEscalates ==
    \A s \in Stored :
        LET r == submit[s].request IN
        /\ submit[s].policy # "ALLOW" => actions[s].outcome = submit[s].policy
        /\ Preview(r, submit[s].policy) # "ALLOW" => actions[s].outcome # "ALLOW"
        /\ (actions[s].outcome = "ALLOW" /\ AuditEnabled /\ {r.trace, r.summary} # {None}) =>
              s \in Audited /\ audits[actions[s].audit].verdict = "NO_CONCERN"
        /\ (actions[s].outcome = "ALLOW" /\ r.content \in Requiring) => s \in Audited

\* Asking again changes nothing: a submission that follows an audited one of
\* the same action and turn runs no audit of its own and gets a verdict that
\* was on record when it began, so what was held is not allowed on a retry.
RetryKeepsVerdict ==
    \A s \in Audited : \A t \in submit[s].earlier \cap Audited :
        Identical(s, t) => \E u \in submit[s].earlier \cap Audited :
            Identical(s, u) /\ actions[s].audit = actions[u].audit

=============================================================================
