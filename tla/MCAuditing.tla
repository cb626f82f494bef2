----------------------------- MODULE MCAuditing -----------------------------
(***************************************************************************)
(* The token ledger and the audits of turns, two machines that share no    *)
(* variable, checked by one run of TLC.  A behaviour is one of the machine *)
(* that part names; the other rests in its initial state.                  *)
(***************************************************************************)
EXTENDS TokenLedger, TurnAudits, TLC

VARIABLE part

auditingVars == <<part, ledgerVars, turnVars>>

AuditingInit ==
    /\ part \in {"ledger", "turn"}
    /\ LedgerInit
    /\ TurnInit

LedgerPart == part = "ledger" /\ LedgerNext /\ UNCHANGED <<part, turnVars>>
TurnPart   == part = "turn" /\ TurnNext /\ UNCHANGED <<part, ledgerVars>>

AuditingSpec == AuditingInit /\ [][LedgerPart \/ TurnPart]_auditingVars

\* Completions that cost nothing, part of the estimate, or more than it.
SomeSpends == {0, 1, 3}

\* Writing the store file succeeds.
Works == {TRUE}

SomeContents == {"read", "write"}
SomeTexts    == {"plan", "excuse"}

Asks(content, turn, trace, summary) ==
    [content |-> content, turn |-> turn, trace |-> trace, summary |-> summary]

\* One action with a trace, with a trace and another summary, without a text
\* and without a turn; another action with the same trace.
SomeRequests ==
    {Asks("read", "turn", "plan", None), Asks("read", "turn", "plan", "excuse"),
     Asks("read", "turn", None, None), Asks("read", None, "plan", None),
     Asks("write", "turn", "plan", None)}

\* Audits are interchangeable, and so are submissions.
Interchangeable == Permutations(Audits) \cup Permutations(Submissions)

=============================================================================
