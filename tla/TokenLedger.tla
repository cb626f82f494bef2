------------------------------ MODULE TokenLedger ------------------------------
(***************************************************************************)
(* The daily token ledger of one provider profile (budget_store.py) and    *)
(* the reasoning audits that reserve from it (service.py, and the same     *)
(* way for each tier of tiered_audit.py).                                  *)
(*                                                                         *)
(* An audit's handler runs on the event loop: it checks an estimate,       *)
(* reserves it, waits for the auditor and releases the estimate.  The call *)
(* itself runs in a worker thread, which records what was really spent and *)
(* which a timeout of the handler does not stop.                           *)
(***************************************************************************)
EXTENDS Integers, FiniteSets

CONSTANTS
    Processes,      \* the gateway and its neighbours on one host
    Gateway,
    Audits,         \* reasoning audits, all of them the gateway's
    Budget,         \* daily_token_budget_for the profile
    Estimate,       \* reserve_per_audit
    Spends,         \* what one completion may cost
    MaxDay,         \* bound: the calendar
    MaxAgentCalls,  \* bound: completions of the agent's own
    SaveOutcomes,   \* can writing the store file succeed, can it fail
    MayRestart      \* the gateway can restart

ASSUME LedgerAssumption ==
    /\ Gateway \in Processes
    /\ IsFiniteSet(Audits)
    /\ {Budget, MaxDay, MaxAgentCalls} \subseteq Nat
    /\ Estimate \in Nat \ {0}
    /\ Spends \subseteq Nat
    /\ SaveOutcomes \in (SUBSET BOOLEAN) \ {{}}
    /\ MayRestart \in BOOLEAN

VARIABLES
    today,
    ledger,   \* [Processes -> TokenLedger: _day and _used]
    store,    \* the file: the last ledger written
    audit,    \* [Audits -> where its handler and its thread are]
    \* history
    calls,    \* completions the agent made
    spent,    \* [Processes -> [days -> tokens recorded]]
    extra     \* [Processes -> [days -> the part not reserved that day]]

ledgerVars == <<today, ledger, store, audit, calls, spent, extra>>

Days  == 0 .. MaxDay
Never == -1
NoStore == [day |-> Never, used |-> 0]
NewAudit == [handler |-> "new", thread |-> "idle",
             reservedOn |-> Never, releasedOn |-> Never]

LedgerInit ==
    /\ today = 0
    /\ ledger = [p \in Processes |-> [day |-> 0, used |-> 0]]
    /\ store = NoStore
    /\ audit = [a \in Audits |-> NewAudit]
    /\ calls = 0
    /\ spent = [p \in Processes |-> [d \in Days |-> 0]]
    /\ extra = [p \in Processes |-> [d \in Days |-> 0]]

-----------------------------------------------------------------------------
(* The ledger. *)

\* _rollover_locked: the first call of a new day starts from nothing.
Used(p) == IF ledger[p].day = today THEN ledger[p].used ELSE 0

\* _save_store_locked: the whole ledger of this process, best effort.
Save(p) == \E ok \in SaveOutcomes : store' = IF ok THEN ledger'[p] ELSE store

Set(p, used) ==
    /\ ledger' = [ledger EXCEPT ![p] = [day |-> today, used |-> used]]
    /\ Save(p)

AtLeastZero(n) == IF n < 0 THEN 0 ELSE n

\* add: spend, or with a negative number a release.
Add(p, tokens) == Set(p, AtLeastZero(Used(p) + tokens))

\* record_completion, called where the provider's answer was received.
Record(p, tokens, reserved) ==
    /\ Add(p, tokens)
    /\ spent' = [spent EXCEPT ![p][today] = @ + tokens]
    /\ extra' = [extra EXCEPT ![p][today] = @ + AtLeastZero(tokens - reserved)]

\* _load_store: the file counts if it is today's.
Loaded(f) == IF f.day = today THEN f ELSE [day |-> today, used |-> 0]

-----------------------------------------------------------------------------
(* A reasoning audit. *)

\* The event loop runs one handler from its check to its reservation.
LoopFree == \A a \in Audits : audit[a].handler # "checked"

\* Mutant: the estimate is not part of the comparison.
FitsUsed == Used(Gateway) <= Budget

Fits == Used(Gateway) + Estimate <= Budget

\* check: refused, or to be reserved.  A rollover is saved.
Check(a) ==
    /\ audit[a].handler = "new"
    /\ LoopFree
    /\ audit' = [audit EXCEPT ![a].handler = IF Fits THEN "checked" ELSE "refused"]
    /\ IF ledger[Gateway].day = today
       THEN UNCHANGED <<ledger, store>>
       ELSE Set(Gateway, 0)
    /\ UNCHANGED <<today, calls, spent, extra>>

\* add(estimate): by now a thread of another audit may have recorded.
Reserve(a) ==
    /\ audit[a].handler = "checked"
    /\ Add(Gateway, Estimate)
    /\ audit' = [audit EXCEPT ![a] = [handler |-> "waiting", thread |-> "running",
                                      reservedOn |-> today, releasedOn |-> Never]]
    /\ UNCHANGED <<today, calls, spent, extra>>

\* The provider answered and the thread records what that cost.  A call that
\* fails for good records nothing.
Answer(a, tokens) ==
    /\ audit[a].thread = "running"
    /\ Record(Gateway, tokens,
              IF audit[a].handler = "waiting" /\ audit[a].reservedOn = today
              THEN Estimate ELSE 0)
    /\ audit' = [audit EXCEPT ![a].thread = "ended"]
    /\ UNCHANGED <<today, calls>>

FailCall(a) ==
    /\ audit[a].thread = "running"
    /\ audit' = [audit EXCEPT ![a].thread = "ended"]
    /\ UNCHANGED <<today, ledger, store, calls, spent, extra>>

\* Mutant: only an audit whose call ended is released.
ReturnsOnceEnded(a) == audit[a].handler = "waiting" /\ audit[a].thread = "ended"

\* The thread ended, or wait_for timed out and leaves it running.
Returns(a) == audit[a].handler = "waiting"

Settled(a) == -Estimate

\* finally: the estimate is released.
Release(a) ==
    /\ Returns(a)
    /\ audit[a].thread \in {"running", "ended"}
    /\ LoopFree
    /\ Add(Gateway, Settled(a))
    /\ audit' = [audit EXCEPT ![a].handler = "done", ![a].releasedOn = today]
    /\ UNCHANGED <<today, calls, spent, extra>>

-----------------------------------------------------------------------------
(* Around it. *)

\* The agent's own completions reserve nothing; they may happen in another
\* process, with a ledger of its own over the same file.
AgentCall(p, tokens) ==
    /\ calls < MaxAgentCalls
    /\ Record(p, tokens, 0)
    /\ calls' = calls + 1
    /\ UNCHANGED <<today, audit>>

Midnight ==
    /\ today < MaxDay
    /\ today' = today + 1
    /\ UNCHANGED <<ledger, store, audit, calls, spent, extra>>

\* The gateway stops and starts: its audits and threads end where they are.
Restart ==
    /\ MayRestart
    /\ ledger' = [ledger EXCEPT ![Gateway] = Loaded(store)]
    /\ audit' = [a \in Audits |->
          IF audit[a].handler = "new" THEN NewAudit
          ELSE [audit[a] EXCEPT !.handler = CASE @ = "waiting" -> "dead"
                                              [] @ = "checked" -> "refused"
                                              [] OTHER -> @,
                                !.thread = "ended"]]
    /\ UNCHANGED <<today, store, calls, spent, extra>>

Handle(a) == Check(a) \/ Reserve(a) \/ Release(a)

LedgerNext ==
    \/ \E a \in Audits :
          \/ Handle(a) \/ FailCall(a)
          \/ \E tokens \in Spends : Answer(a, tokens)
    \/ \E p \in Processes, tokens \in Spends : AgentCall(p, tokens)
    \/ Midnight
    \/ Restart

LedgerSpec == LedgerInit /\ [][LedgerNext]_ledgerVars

\* The event loop goes on, and wait_for has a deadline of its own: nothing is
\* assumed of the worker threads.
FairLedgerSpec == LedgerSpec /\ \A a \in Audits : WF_ledgerVars(Handle(a))

-----------------------------------------------------------------------------
(* Properties. *)

ReservedOn(d) ==
    {a \in Audits : audit[a].handler \in {"waiting", "dead"} /\ audit[a].reservedOn = d}
LateReleases(d) ==
    {a \in Audits : audit[a].releasedOn = d /\ audit[a].reservedOn # d}

\* The gateway's ledger never claims more than what was recorded that day and
\* what is reserved; a reservation that a restart cut short stays until midnight.
NeverOverclaims ==
    LET g == ledger[Gateway]
    IN  g.used <= spent[Gateway][g.day] + Estimate * Cardinality(ReservedOn(g.day))

\* It never forgets what was recorded, not in a restart either: what it misses
\* is what reservations of an earlier day took off when they were released.
NeverForgets ==
    LET g == ledger[Gateway]
    IN  spent[Gateway][g.day] <= g.used + Estimate * Cardinality(LateReleases(g.day))

\* The budget of a day is exceeded only by what nobody reserved that day: the
\* agent's own calls, what an answer cost above its estimate, the answer to an
\* audit that had timed out or that began the day before; and by what late
\* releases took off the ledger.
OverspendExplained ==
    \A d \in Days :
        spent[Gateway][d] <= Budget + extra[Gateway][d]
                                    + Estimate * Cardinality(LateReleases(d))

\* What the ledger says of the gateway's day, in both directions.
LedgerAccounts == NeverOverclaims /\ NeverForgets /\ OverspendExplained

\* An audit that reserved is released although its thread may hang.
ReservationsReturn ==
    \A a \in Audits :
        audit[a].handler = "waiting" ~> audit[a].handler \in {"done", "dead"}

=============================================================================
