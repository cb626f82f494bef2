# A TLA+ development of Scopewatch

Scopewatch is a gateway between an agent and a workspace. An agent opens a *run*
with a task scope and submits *actions*; a deterministic policy, possibly escalated
by an audit of the agent's reasoning, allows, holds or denies each of them; a
reviewer answers the holds; an executor performs what was allowed or granted; and
every step is recorded in an append-only evidence log that an offline verifier can
check. This directory models the gateway in TLA+, checks the models with TLC and
proves theorems about them with TLAPS.

Paths below are relative to `backend/scopewatch/` unless they name another directory.

## 1. Inventory

| Component | State | Operations | What is hard | What makes it correct |
|---|---|---|---|---|
| Lifecycle (`service.py`) | none of its own beyond the store; each request keeps what it read | create, complete, fail a run; `submit_action`; `resolve_approval`; `expire_approval_wait`; `reconcile_expired_approvals` | handlers on an event loop and in worker threads, one SQLite connection each; reads before a transaction; an audit and an execution awaited between two transactions; no recovery after a crash | an effect happens once, only with authority on record, never in a closed run; a run waits exactly while it has something to wait for; every started execution settles |
| Store (`db.py`, `repository.py`) | runs, actions, decisions, approvals, receipts, audits, evidence events | `BEGIN IMMEDIATE` transactions, conditional updates, `MAX(sequence)+1` | a read outside a transaction is stale | sequence numbers without gap or duplicate, an approval is resolved once |
| Executors (`executor.py`, `executor_docker.py`, `executor_remote.py`, `dispatch_gate.py`, `deploy/executor-runner/runner.py`) | workspace files; the runner's dispatch tokens | gate, stored-state checks, the operation | time-outs with the effect still under way, replay of a token, copy-back after a partial run | nothing executes without a matching decision or approval |
| Evidence chain (`evidence_chain.py`) | one pass over a chain | export, verify | long histories, records after closure | accepts what the gateway writes; what it accepts is safe |
| Policy and paths (`policy.py`, `path_access.py`, `scope_paths.py`) | none | evaluate | symlinks, case folding, rule order | deny before hold before allow |
| Reasoning audit (`reasoning_audit.py`, `tiered_audit.py`) | turn-audit cache (a table) | audit, tier routing, merging | time-outs, concurrent cache misses | only escalates; a failure survives merging |
| Admission (`demo_guards.py`, `create_run`) | rate windows, daily counters, turns per run, pending creations | reserve, check, release | a clock read before the lock, two sources for one cap, refunds over midnight | caps are never exceeded |
| Token metering (`budget_store.py`) | tokens per profile and day | check, add, settle, release | reservation across an await, day rollover | spend is never forgotten |
| Event stream (`events.py`, `app.py`) | bounded queue per subscriber | publish, subscribe, replay | publishing after commit, full queues | a subscriber misses nothing and sees nothing twice |
| Workspaces and retention (`workspaces.py`, `retention.py`) | directories with a marker | initialize, resolve, prune | crash between copy and rename, pruning racing a request | never prunes what may still be used |
| Agent loop (`agent/loop.py`, `agent/tools.py`) | turn and tool counters, deadlines | turn, wait for review, complete or fail | review time-out racing an approval, terminal retries | reports what really happened; always closes its run |
| Demo administration (`app.py`) | - | reset, reseed | reset racing an execution | never erases a pending review or a running execution |
| Providers (`providers/client.py`, `provenance.py`) | one call in progress | post, retry, extract reasoning, label it | a retry racing the caller's deadline, replies that are not what they should be | ends in time, tells what happened, labels only what was earned |
| Adapters, configuration, frontend, site, demo, poc | - | - | - | not modelled |

How they interact: the HTTP layer calls the service, in a worker thread for plain
handlers and on the event loop for `submit_action` and `resolve_approval`. The service
calls the policy, awaits the auditor, commits to the store, awaits the executor in a
worker thread, commits again, and then publishes the committed events to
subscribers. The store is the only state the handlers share; admission counters,
the token ledger and subscriber queues live in memory.

## 2. Modules

| Module | Models or states |
|---|---|
| `EvidenceChain` | the event catalog and the rules of `verify_records` |
| `GatewayLifecycle` | every handler of the lifecycle, as concurrent requests over one database |
| `RunAuthorization`, `GatewayRefinement` | the abstract promise of the lifecycle, and the mapping under which it is kept |
| `GatewayInvariant` | the inductive invariants `SingleUse`, `Closure`, `Receipts`, `Waiting` and `LogRecallsTables` |
| `EvidenceHistory` | the verifier against a reading of its rules that keeps no state |
| `RunAdmission`, `CapacityPool` | `create_run` behind the demo guards; the pool of places it promises to be |
| `TokenLedger` | reservation and metering of tokens, per process and day |
| `TurnAudits` | lookup, run, store and reuse of the audit of a turn |
| `ReasoningAuditor`, `AuditPrompt`, `ExcerptGrounding` | tiers, parsing and routing of an audit; the boundaries of its prompt; the grounding of its excerpts |
| `ProviderCall`, `ReasoningExtraction` | a completion with retries and a deadline; where reasoning comes from and what it may be called |
| `AgentLoop` | the agent's turns against a gateway, a reviewer and an operator |
| `EventStream` | commit, publish, replay and follow, and one dashboard |
| `WorkspaceRetention` | workspaces from their copy to their pruning, with two operators |
| `RemoteDispatch`, `DispatchGate` | the gateway's post, the network and the runner; the gate before every dispatch |
| `StagedExecution` | staged copies, containers and the copy-back |
| `PolicyRules` | scope matching, rule order and revalidation over trees with links and folding |
| `MC...` | values, symmetries and compositions for TLC |
| `..._proofs` | theorems and proofs |

### GatewayLifecycle

*State.* `runStatus`, `log`, `actionRun`, `decision`, `approval` and `receipt` are the
tables `runs`, `evidence_events`, `action_requests`, `policy_decisions`,
`approval_requests` and `execution_receipts`, keyed by action where the code creates
one row per action under a fresh id. `overdue` is the set of approvals whose
`expires_at` has passed, `effects` counts how often an action reached the workspace.
`submit`, `review` and `sweep` are the requests in progress, with what each has read
and still uses.

*Steps.* A step is one transaction, one read outside a transaction, or the stretch
of work between two of those. `BEGIN IMMEDIATE` serialises writers, so a transaction
is atomic. `submit_action` is `BeginSubmit` (run read, policy decides), `AuditReturns`,
one of `CommitAllow`, `CommitHold`, `CommitDeny`, `RefuseSubmit` (phase 1),
`DispatchAllowed`, `RunAllowed`, `RecordAllowed` (phase 2). `resolve_approval` is
`BeginResolve` (all reads, and the clock), one of `ExpireOnResolve`, `Grant`,
`DenyHold`, `RefuseResolve`, and `DispatchGranted`, `RunGranted`, `RecordGranted`.
`expire_approval_wait` is the single transaction `ExpireWait`; the sweep is
`BeginSweep` (listing and clock, outside) and `CommitSweep`. `_close_run` is
`CloseRun`. The three failure paths of an execution (security error, other exception,
failed receipt) write the same record and are one disjunct of `RunAllowed` and
`RunGranted`.

*Interleaving.* The model lets every two requests interleave between any two of their
steps. With one server process the event loop rules some of these out (a
`resolve_approval` does not yield between its reads and its first transaction), but
plain handlers run in threads, and the code relies on the store and not on the loop:
every decision is checked again under the write lock.

*Data left out.* What the policy and the audit look at is a free choice of outcome and
verdict. The names, times, reasons and details of rows are dropped. The policy's
reasoning requirement turns an ALLOW into a HOLD before anything is stored and is part
of the free outcome. A submission refused by a guard, a budget or a missing workspace
before its first transaction leaves no trace; it is a `LoseSubmit`.

*Death.* `LoseSubmit`, `LoseReview` and `LoseSweep` end a request at any point between
two of its steps: the process is killed, or a transaction fails and rolls back.
Nothing in the code resumes it. `RequestsMayDie` switches them on.

*Executor.* The backend is over when it returns: success means the effect happened,
failure that it happened or not. This is the local backend, and the Docker backend as
far as its container is removed on a time-out. A remote runner that goes on after the
gateway timed out is not in this module (see the plan).

### EvidenceChain and EvidenceHistory

`Verifies` applies `VerifierStep` to record after record, as `verify_records` does after
its checks of linkage: the catalog, the rules for records after the run's terminal event,
the lifecycle of the action. What it remembers of the first records is a recursive
function of their number (`Memory`, `Remembered`), so that it can be proved about. `GatewayLifecycle` writes the same records, so
`EvidenceVerifies` composes writer and verifier. `EvidenceHistory` asks the other
question: histories are built from all representative event types, and the verifier's
verdict is compared with `LegalAt`, which says of each record what may have come
before it.

### RunAdmission and CapacityPool

`mode` is what the guards' settings amount to (off, on, invalid). `run` is the stored
status; `guardDay`, `runsToday`, `actionsToday`, `window` and `turns` are the memory of
`DemoGuard`; `lock` and `pending` are `_creation_lock` and `_pending_creations`; `create`
is what each `create_run` holds. `Begin` stands for what `create_run` and `try_begin_run` do
before the guards' lock, the reading of the clock included (`demo_guards.py:303`): the
request keeps its stamp in `at`. `TryBeginRun` is the critical section, a step of its own:
the roll-over reads the clock again there, while pruning and the new entry use the stamp
(`got` is the instant of the section). `window` is the deque, a sequence in the order of the
reservations, which need not be that of the stamps: `Outdated` drops entries from its front
and stops at the first one that is young enough. `CountBusy` reads the runs and `TakePlace` or `RefusePlace` compares, both under the
creation lock but in two steps, because a run may be closed or committed by another
request in between; `Commit`, `FailCreation`, `Refund` and `Finish` are the transaction,
the `except BaseException` and the `finally`. `TryAction` is the guard of
`submit_action`. The clock counts ticks; a minute and a day are numbers of ticks, so
that requests fall on both sides of midnight and of the sliding window, and a request
that waits for the lock can be overtaken by one with a later stamp. `Restart` clears
all memory and leaves the runs. `CapacityPool` is a counting semaphore: admission
implements it with the busy and the admitted runs as the places held.

### TokenLedger and TurnAudits

`TokenLedger` follows one audit's tokens from the budget check through the reservation
to the worker thread's completion and the release, which the handler does although the
thread may still be at work. A ledger rolls over when it is next touched. `TurnAudits` has
three steps per submission: `Lookup` (the preview and the cached audit, before the first
transaction), `AuditReturns`, and `Store` or `Refuse`; the stored audit is found through
the actions that refer to it, as the join in `repository.py` does. `None` is a row with no
value (SQL's NULL); the assumption says that no row or name is one.

### ReasoningAuditor, AuditPrompt, ExcerptGrounding, ReasoningExtraction

Pure code, one small machine each so that TLC runs it on every bounded input. An answer
of an auditor is a record of what the parser distinguishes (form, verdict, concern,
excerpts); the tiers, their reservations and the merge follow `tiered_audit.py`. The
prompt's text is a sequence of the symbols that the boundary patterns look at, the
placeholder the escaping puts there, and the entities of an escaped value, which are no
angle brackets. The trace and its excerpts are sequences of tokens, with a relation that
says which token is a damaged copy of which; totals and alignments are recursive functions
of the position. A message is a sequence of detail blocks.

### ProviderCall and AgentLoop

`ProviderCall` is `complete`: each `Post` takes some time and ends in any of the ways the
client distinguishes; the delay before a retry is capped by what is left of the deadline.
`AgentLoop` has the loop's own place and counters, the action of every call at the gateway,
and what the model was told. A submission may fail before or after it took effect; the
gateway's side (deciding, executing, a reviewer, the sweep, an operator who closes the run)
moves freely beside it. A completion the agent gave up on stays in the network (`stray`) and
can still be committed: a FAILED result with a COMPLETED run is a reachable state, and the
report is only promised in the other direction.

### EventStream

The log holds the events 1..`stored`; a handler commits and publishes later, so that
queues receive events in another order than the log's. A connection subscribes, reads the
stored events after the last id, sends them, then follows its queue. The dashboard keeps
the last id, reconnects, and falls back to polling (`frontend/src/api.js`, `app.js`). Three
history variables record what befell an event that is missing.

### WorkspaceRetention

The guard looks at the status, the age, the pending and approved holds and the executions
of a run; the module keeps these of `GatewayLifecycle` and lets its handlers move them.
An operator's pass is `attempt` (first transaction), `removal` (second transaction, lock held
over the removal) and the record of its result; it may die between any two steps.

### RemoteDispatch and DispatchGate

A dispatch has one token. The gateway posts once and waits; the network may keep a copy
for any time, lose it or deliver it twice; the runner checks age and token in the code's
order, consumes the token, runs one container at a time and answers. A restart forgets the
tokens. `DispatchGate` is the table of `authorize_dispatch`.

### StagedExecution

A workspace is two levels deep. A job copies it without blocked paths, entry by entry; its
container writes files, directories and links into the copy; the walk of the copy-back
refuses what `docker_job.py` refuses and copies the rest. `StagedAssumption` says that the
blocked paths of the instance lie in a directory and not at the top. `OneAtATime` is the runner, whose
server handles one request at a time; without it, it is the gateway's Docker backend.

### PolicyRules

A tree maps paths to directories and links; a volume compares names exactly, by simple
folding or by full folding, and the probe of the volume may answer that it does not know.
`Outcome` is the policy's decision on the tree as it is, `Rechecked` the executors'
look just before they act; `Swap` changes the tree between the two. A command is the
tokens the checks distinguish. What a lookup finds is a function of the volume and the tree
(`ResolveOn`). `RulesAssumption` says what a path is (a sequence of names, "..", which the
form check refuses, not among them) and that names equal under the character-wise folding
are equal under `str.casefold`, which is so for every code point of Unicode.

### Composite runs

TLC checks several machines that share no variable in one run: `MCAuditing`, `MCProgress`,
`MCOperations` and `MCAlgorithms` extend them and add a variable `part`. A behaviour is one of
the machine `part` names while the others rest, so such a run explores the sum and not the
product of their states, and each property is about its own machine.

## 3. Runs

| Run | Instance | Shows |
|---|---|---|
| `gateway_safety` | 1 run closed up to twice, 2 actions, 2 reviewers, 1 sweep, requests may die | `TypeOK`, `EvidenceVerifies`, `EffectHasAuthority`, `AtMostOneEffect`, `ClosedRunIsQuiet`, `WaitingIsJustified`, `ReceiptAgrees` |
| `gateway_runs` | 2 runs, 2 actions, 1 reviewer, 1 sweep over one run or all, requests may die | `ClosedStaysClosed`, `ApprovalResolvesOnce`, `ImplementsAuthorization` |
| `gateway_liveness` | 1 run, 2 actions, no deaths, fairness | `DispatchSettles`, `WaitingRunIsReleased` |
| `evidence_history` | 2 actions, histories of at most 5 records | `VerifierMatchesRules`, `AcceptedHistoryIsSafe` |
| `gateway_closed_pending` | 1 action | a violation: closing a run leaves its approvals pending |
| `gateway_late_grant` | 1 action | a violation: a grant committed after its deadline |
| `admission` | 3 creations, 2 addresses, every limit 1, a minute of 2 ticks, a day of 3, 4 instants, restarts | `CapHolds`, `GuardsHold`, `ImplementsPool` |
| `auditing` | 3 audits with a budget for 2, a restart, 2 days; 3 submissions out of 5 requests of one turn | `LedgerAccounts`; `OnlyEscalates`, `RetryKeepsVerdict`, `AuditExaminedAction` |
| `progress` | up to 3 retries, 4 deadlines; 2 turns of 2 calls, 3 ticks; 2 audits whose threads may hang; 2 creations from 1 address, every limit 1, restarts | `EveryCallEnds`; `ReportIsTrue`, `EveryLoopEnds`; `ReservationsReturn`; `EveryCreationEnds` |
| `operations` | 2 handlers, 4 events, queues of 2, 3 connections; 1 run, 2 operators, 4 days; 2 dispatches, 2 copies each, 1 restart; 2 jobs over 4 paths and a blocked one | `MissingIsExplained`; `WorkspaceOutlivesUse`, `OnlySettledIsRemoved`, `PruningIsOnRecord`; `LateEffectIsBounded`, `OneRunPerDispatch`, `ReceiptTellsEffect`; `BlockedUntouched`, `CopyBackIsExact` |
| `algorithms` | trees of up to five entries, 3 scopes, 22 requests, one swap; answers of one and two auditors; texts of 5 symbols; excerpts of 3 tokens in traces of 6; messages of 2 blocks | `EffectInScope`; `FailsClosed`; `PromptIsSound`; `GroundingIsExact`; `LabelsAreEarned` |
| `docker_lost_update` | 2 jobs side by side on one workspace | a violation: a copy-back undoes an executed write |

*The gateway's bounds.* Two actions let one be answered while another is pending,
executing or submitted to the same run; two reviewers race for one approval while a sweep
and the agent (`ExpireWait`) race both; two runs show a sweep and a close that touch one and
must leave the other. `MaxCloses` bounds the terminal records of a run: a repeated close
changes the status and the log only. A history of five records holds the longest chain of
facts the rules relate (held, requested, granted, started, finished); six kinds of event
that the rules treat like another one are left out of `Representatives`.

*The other bounds.* `admission`: with limits of one, two creations already compete for the
place, the day's budget and the minute; the third is needed for one to be overtaken while it
waits for the guards' lock, after another that reserved before. Four instants hold two days,
a window that straddles midnight, and a creation stamped on one day and counted on the
next. A deque whose stamps are out of order needs a limit of two and is beyond this run; the
theorem covers it. `progress`: whether a creation ends does not depend on the rate, so two are
enough, for the lock and for the place. `auditing`: a third audit is needed for one that reserves after the first
timed out and while the second waits; of three submissions the third can find what two
overlapping ones stored. `operations`: two handlers are enough to publish in the wrong order
and queues of two overflow with four events; two operators can each hold an attempt on
one run, which a repeated close makes young again; a copy and its replay after a restart need two copies; two
jobs are the smallest overlap, and the fixture has a directory, a file in it, a link and a
blocked file. `algorithms`: three links followed are one more than a chain of two; an
excerpt of three tokens is the shortest that may be repaired, and a trace of six holds one
with more skips than its budget.

*Symmetry* is used for safety only. *Deadlock* is checked in the gateway's runs: an action
can always be submitted, closed over or swept. The other runs stop at their bounds, at the
end of a loop, a call or a function, and switch the check off.

*Fairness.* `GatewayLifecycle!FairSpec` asks weak fairness of each submission's and each
reviewer's steps once begun (the audit has a time-out, the backends bound their work, SQLite
waits for its lock), of time passing for a pending approval, and of a sweep that has
listed; `SF(BeginSweep)` stands for a client that keeps listing pending approvals: the
dashboard's and the agent's polling, without which nothing expires. No fairness is asked of
agents, reviewers or anyone who closes a run. `gateway_liveness` excludes deaths: after a
death between start and receipt the action stays in flight and its run cannot be closed,
which `docs/ARCHITECTURE.md` says of the code. `MCProgress` asks `WF(Proceed(c))` of each
creation of `RunAdmission`: a worker thread that has begun one goes on. `FairLedgerSpec` is `WF(Handle(a))`: the
event loop goes on and `wait_for` has its own deadline; the worker threads get no fairness.
`FairCallSpec` is `WF(CallNext)`, for every post ends by its transport time-out.
`FairLoopSpec` asks it of the clock, of the loop's own steps and of the gateway's answer
to what was sent; nobody has to review and no call has to raise.

*Mutants.* Operators named after what they forget (`StillLiveAsRead`,
`ReleasedTooEarly`, ...) stand before the definition they change and show that the
property would see the bug.

## 4. Findings

- `service.py:1787` says that closing a run expires its pending approvals.
  `_close_run` does not: they stay PENDING until a sweep. `docs/security/evidence-log.md`
  describes the behaviour of the code. (`gateway_closed_pending`)
- `docs/operations/judge-runbook.md:35` says that approvals expire after their TTL.
  The clock is compared before the transaction only, so that a grant that waits for
  the write lock is committed after the deadline. (`gateway_late_grant`)
- `executor_docker.py:462` says that the full copy back keeps both backends behaviourally
  identical. Nothing serialises the jobs of a workspace on the Docker backend, and the
  later copy-back restores what it staged over what an earlier job wrote and reported
  EXECUTED. (`docker_lost_update`)

### Divergences without a run of their own

- *A stamp older than its entry.* `demo_guards.py:8` promises a per-address sliding window.
  `try_begin_run` reads the clock before it takes the lock (`demo_guards.py:303`), and prunes
  and appends with what it read (`demo_guards.py:308`, `demo_guards.py:335`). A creation that
  waits for the lock while a later one prunes the window can be admitted by a stamp in whose
  minute the rate is already used up: with a limit of two, X and Y stamped 10.95 and 10.96, A
  stamped 70.90, D stamped 71.00 and admitted before A, the stamps of X, Y and A lie within
  one minute. `RateHolds` states what holds: of the creations stamped and admitted
  within the same minute there are never more than the limit. If no creation waits longer
  than w for the lock, no stretch of a minute less w has more stamps than the limit.
- *Stamped today, counted tomorrow.* The roll-over reads the clock again, inside the lock, so
  a creation that waits there over midnight is counted on the new day though its stamp is of
  the old one. `BudgetAccounts` goes by the day of the reservation (`ReservedOn`).
- *Refund after midnight.* `demo_guards.py:342` subtracts from the current day's counter,
  whichever day the reservation was made on, so that a day can admit more runs than the
  budget that `demo_guards.py:11` states. `GuardsHold` counts exactly these refunds
  (`LateRefunds`).
- *Late release of tokens.* `budget_store.py:254` does the same to the ledger;
  `LedgerAccounts` counts them as `LateReleases`.
- *A shared ledger.* `budget_store.py:20` says that co-located processes share one ledger.
  Each loads the file at its start and writes its own counters over it
  (`budget_store.py:201`): neither sees the other's spending, and the last writer wins.
  `TokenLedger` has the processes as a parameter; the checked instance has one, for which the
  ledger is right.
- *One audit per turn.* `docs/ARCHITECTURE.md:128` says that the actions of a turn share one
  audit. `repository.py:312` reuses an audit for the same action only, and two submissions
  that overlap each run one; `RetryKeepsVerdict` states what does hold.
- *Verbatim excerpts.* `docs/ARCHITECTURE.md:126` says that excerpts must be verbatim. An
  excerpt that lacks characters or a few tokens is replaced by the span of the trace it was
  copied from (`reasoning_audit.py:503`); what is recorded is verbatim, and
  `GroundingIsExact` bounds how much it may differ.

## 5. Proofs

Theorems are of the specification without fairness, for every value of the constants that
the module's named assumption allows: finite sets of actions, creations and so on, distinct
"nobody" values, natural numbers as limits. Two theorem groups have a hypothesis of
their own, `SoleWriter` and `OneAtATime`; both hold of the checked instances, and the
paragraphs below say what happens without them.

| Module | Theorem | States |
|---|---|---|
| `GatewayLifecycle_proofs` | `TypeCorrect` | `TypeOK` |
| | `SingleUseHolds`, `EffectAtMostOnce`, `OneResolution` | `SingleUse`, `AtMostOneEffect`, `ApprovalResolvesOnce` |
| | `ClosureHolds`, `ClosedIsQuiet`, `AuthorityBeforeEffect`, `NeverReopened` | `Closure`, `ClosedRunIsQuiet`, `EffectHasAuthority`, `ClosedStaysClosed` |
| | `ReceiptsHold`, `ReceiptsTellTheStory` | `Receipts`, `ReceiptAgrees` |
| | `WaitingHolds`, `RunsWaitWithReason` | `Waiting`, `WaitingIsJustified` |
| | `GatewayImplementsAuthorization` | `ImplementsAuthorization` |
| `GatewayEvidence_proofs` | `LogRecalls`, `EvidenceAlwaysVerifies` | `LogRecallsTables`, `EvidenceVerifies` |
| `EvidenceChain_proofs` | (lemmas) | what `Memory` and `Remembered` return, `NatSetInduction` |
| `EvidenceHistory_proofs` | `VerifierIsFaithful`, `VerifierDecidesRules`, `AcceptedIsSafe` | `Faithful`, `VerifierMatchesRules`, `AcceptedHistoryIsSafe` |
| `RunAdmission_proofs` | `AdmissionTypeCorrect`, `CapIsKept`, `AdmissionIsAPool`, `GuardsAreKept` | `TypeOK`, `CapHolds`, `ImplementsPool`, `GuardsHold` |
| `Operations_proofs` | `DispatchTypeCorrect`, `LateEffectBound`, `OneContainerPerLife`, `HonestReceipts` | `DispatchTypeOK`, `LateEffectIsBounded`, `OneRunPerDispatch`, `ReceiptTellsEffect` |
| | `RetentionTypeCorrect`, `WorkspaceStays`, `SettledBeforeRemoval`, `PruningRecorded` | `RetentionTypeOK`, `WorkspaceOutlivesUse`, `OnlySettledIsRemoved`, `PruningIsOnRecord` |
| | `NoSilentGap` | `MissingIsExplained` |
| | `BlockedStay`, `ExactCopyBack`, if `OneAtATime` | `BlockedUntouched`, `CopyBackIsExact` |
| `Auditing_proofs` | `LoopTypeCorrect`, `ReportsAreTrue` | `LoopTypeOK`, `ReportIsTrue` |
| | `LedgerIsSafe`, if `SoleWriter` | `LedgerAccounts` |
| | `AuditsAreOfTheirAction`, `ReasoningOnlyEscalates`, `RetriesKeepVerdicts` | `AuditExaminedAction`, `OnlyEscalates`, `RetryKeepsVerdict` |
| `Algorithms_proofs` | `ReasoningIsLabelled`, `AuditsFailClosed`, `ExcerptsAreGrounded`, `PromptsAreSound`, `EffectsStayInScope` | `LabelsAreEarned`, `FailsClosed`, `GroundingIsExact`, `PromptIsSound`, `EffectInScope` |

Every invariant and every action property that a passing run checks, and both refinements,
are thus theorems; the runs show them on an instance, the theorems for every one.

*Single use.* `AtMostOneEffect` is not inductive: a state with one effect and a request
about to cause another satisfies it. `SingleUse` adds that a submission decides once
(`OneDecision`), that past its transaction a reviewer is alone with an approval that is
granted and unspent (`OneReviewerEach`), and that after an effect no request is before
or in the execution of that action (`EffectIsPast`). `Grant` preserves the second part
because `Resolvable` asks for PENDING inside the transaction, and `RunAllowed` and
`RunGranted` preserve the third because of the first two.

*Closure.* `CloseRun` looks at the approvals and the log, never at the requests.
`Closure` says why that is enough: an allowed or granted action has its start in its
run's log (`StartIsLogged`), an action a submission still executes has no terminal
record anywhere (`FinishIsLast`), and an action belongs to one run (`OneOwner`). So
whatever executes shows up as in flight, and `ClosedRunIsQuiet` is preserved by
`CloseRun`; the other steps preserve it because they re-read the status inside their
transaction. `Closure` is proved on top of `SingleUse`.

*Receipts.* `ReceiptAgrees` speaks of the end of an execution; `Receipts` follows it there.
`ReceiptsInOrder` says what the receipt may be at each status of the decision and the
approval, and that there is none while a submission executes; `SuccessIsReal`, that whoever is
about to report success has had the effect; `LogMatchesReceipt`, that no log has a start
without authority or a finish without a receipt.

*Waiting.* `resolve_approval` reads the run's status before its transaction and relies on it
inside. `WaitingWasRead` says why the stale value is never wrong: a reviewer that is about to
answer a pending approval has seen its run waiting, and while the approval stays pending the
run stays waiting or is closed. `WaitingIsJustified` is then preserved by each step.

*Refinement.* Every step of the lifecycle is a step of `RunAuthorization` on the mapped
variables or leaves them alone; `Receipts` decides for each receipt which it is. The proof has
one lemma per action.

*Evidence.* `LogRecallsTables` is the invariant behind `EvidenceVerifies`: the verifier, run
over the log of a run, accepts it and remembers of each action exactly what the rows of its
decision, its approval and its receipt hold, and of the run whether it is closed. A handler
guards its records by the tables, the verifier by its memory, and the two agree; so each record
appended is one that the verifier accepts, and keeps them in agreement. A sweep appends one
record per approval it expires, for which the step is an induction over the listing.

*The verifier's rules.* `Faithful` says that the verifier accepts a chain exactly if each of
its records satisfies `LegalAt`, and what it then remembers of each action is what the chain
says; a record more is one lemma. That accepted histories are safe
follows from the rules alone, without the verifier.

*Induction.* The proofs about sequences of any length are inductions over the set of the
numbers that have a property (`NatSetInduction`), which follows from the well-foundedness of
`<` on the naturals; the defining equation of a recursive function is proved in the same way,
by constructing the function for ever longer domains.

*The cap.* `create_run` compares a count of stored runs and a counter in memory that change
independently. `AdmissionInv` says why the sum is right: every place taken is in `pending`
until after its run is stored (`PendingAccounts`); whoever compares holds the lock and has
counted, or finds pending, whatever occupies a place by then (`CountCovers`). From these
follows `PlacesBounded`, the cap over runs and places together, and with it each step of
admission is an `Acquire`, a `Release` or a stutter of `CapacityPool`.

*The guards' limits.* `GuardsHold` speaks of every stretch of a minute and of what was reserved
on the counters' day, while the guards keep a pruned window and two numbers. `GuardInv` relates
them. An address's window remembers each of its reservations whose stamp is less than a minute
old by the clock (`WindowCovers`): whoever prunes does so by a stamp, which is not ahead
of the clock, and the loop never passes an entry that is young enough, whatever the order of
the entries. So a new reservation is compared with all it could exceed the rate with, in any
minute that ends now or later. A request's stamp is not later than its reservation, it has reserved
and refunded on a day the guards have reached, and refunds once, at its end (`RequestHistory`); and
the guards' day is not ahead of the clock (`DayReached`), so that a roll-over starts from days on
which nothing was counted. A refund is the one step with two outcomes: on the day of its
reservation it takes a reservation out of that day, on a later one it adds to the late refunds
that `BudgetAccounts` allows for.

*Late effects.* `Lifetime` bounds the job at hand: it started after its dispatch was issued,
within the token's lifetime, and no longer ago than the run limit. `OneLife` says that a
dispatch that had its container in this life of the runner is too old to be taken again, or
its token is known and outlives that age, so that neither a replay nor the pruning of the
token store lets a second container start. `Honest` relates the answer under way to the effect that preceded it.

*Retention.* `UseInv` relates the row of a run to its directory (open or executing means
ready). `PassInv` says only that a pass keeps the cutoff of the day it began: between its
two transactions an operator relies on nothing about the run, and the removal rests on
the second decision. `RecordInv` ties
every missing or partial directory to an attempt in the log.

*The loop's report.* `LoopInv` says that only the current call can be under way, and only
while the loop submits it, waits for it or has given up, and that what the model was told is
about an action that is quiet; a wait that ends expires the hold in one transaction of the gateway
(`expire_approval_wait`), which is why a late reviewer cannot make a reported TIMEOUT false.

*The token ledger.* `LedgerAgrees` says that a day's counter is what was recorded on it and
what is still reserved on it, less what late releases took from it. It needs the dates of the
reservations (`DatesFollow`), that a handler is where its reservation says it is
(`ReservationsFit`, `OneChecked`, `NothingAhead`), and, for a restart, that the file is the
ledger (`FileFollows`); `Claims` adds to each day's budget the one estimate that was checked and
is not reserved yet. The hypothesis `SoleWriter` (restarts are of a gateway alone on its store
that can save it) is not for the proof's convenience: with a second process (section 4), or with a save
that failed, a restart forgets tokens that were spent.

*Turn audits.* Actions and audits are stored together and refer to each other (`ActionsAgree`,
`AuditsAgree`), an action's audit is its own or a stored one of the same action in the same
turn (`OwnAudits`, `AuditsFound`), its outcome follows from the verdict (`OutcomesFollow`), and a
submission that repeats stored ones has taken the audit of one of them (`Retries`). That the newest matching audit exists is the least-number principle.

*The event stream.* While a connection is open, every stored event after its cursor is shown,
excused by what befell it, still with a handler, in the queue or among those to be replayed
(`ConnectionAccounts`). A cursor therefore passes over nothing that is not excused
(`NothingBehind`); `MissingIsExplained` follows from both.

*Staged execution.* With one job at a time (`OneBusy`) the workspace is, but for what the
container wrote and what is blocked, the one that was copied (`Unwritten`); every entry lies
in a directory and not behind a link (`InDirectories`), so that what the walk writes lands where
it says; what the walk has reached is brought over or refused (`Walked`). The
hypothesis `OneAtATime` is the runner. It is needed: with jobs side by side
`docker_lost_update` refutes that what was written stays, and TLC also finds a behaviour
of the Docker backend in which one job makes a link of a directory between another
job's check of it and the copy into it.

*Labels and verdicts.* What is extracted from a message is what the message's blocks say
(`Earned`); a label that speaks of the provider is given to it only through the credential. A
tier's result fits its answer (`Fits`), and a later tier is asked only when no tier before it
was clean, so a clean result is the first tier's.

*Excerpts.* What an excerpt is resolved to begins at a token of the trace and follows the
excerpt's tokens in their order (`PlacesFollow`), in a span at most twice as long (`Backs`). A
copy of a passage with letters left out is found: the alignment from where it was copied takes
each token no later than the copy does, and the best start is no worse (`HonestCopyIsFound`).

*Prompts.* A boundary tag, closed or dangling, begins at an angle bracket with its name a few
spaces later (`DanglingAt`). The text the escaping returns mirrors the one it was given up to
the first placeholder (`Mirror`); so a tag in it would have been a tag before, and replaced. It
has none (`EscapedIsClean`), escaping it again changes nothing (`CleanIsKept`), and between the
gateway's own tags it adds no other (`PromptTags`).

*Scopes.* Two paths that the volume takes for one another are resolved alike, link by link, and
reach the same entry (`ResolveAlike`, `NodesAlike`). So a target under a blocked name, in the
volume's own notion of a name, is matched whatever the probe answers: the identity check finds
no difference, an unknown volume folds, and a folding that is too fine implies the coarse one
(`BlockedByName`). What an allowed path matches lies under it for the volume (`AllowedByName`).
The executors look at the tree they use, so nothing is needed of the tree that was decided
on: the invariant only keeps that a staged copy has nothing blocked in it and that a
command is never executed locally.

*Exclusive cases.* TLC takes the first arm of a CASE that holds, but its value is unspecified
when two arms hold; the definitions that the proofs use have exclusive arms.

*Model-checked only.* The liveness properties: `DispatchSettles`, `WaitingRunIsReleased`,
`EveryCreationEnds`, `EveryCallEnds`, `EveryLoopEnds` and `ReservationsReturn`. Their proofs need
ENABLED and fairness, which the prover does not support.

## 6. What is left to do

1. Statements that fail inside a transaction of the lifecycle, where the sweep goes on to
   the next approval (`service.py:1740`).
2. The protocol adapters, as clients that retry against the lifecycle.

## 7. Not modelled, and why

*Left out.* Hash linkage, canonical JSON and the export format (a cryptographic check of
equality: with an injective hash nothing is left to check); serialisation and migration of
rows; HTTP authentication, body limits and error rendering; the wording of prompts; settings
and profiles, which are parsed once; the protocol adapters, which translate and keep no state
but the id of a session; frontend apart from its event connection, site, demo data,
evaluation scripts, proofs of concept. `update_run_prompt_version` and the decision preview,
which change no state another handler depends on.

*Simplified, in the modules there are.*
- `PolicyRules`: hard links and directories that fold differently on one volume are not in the
  trees; a local executor's check and its operation are one step (the code says that it does
  not protect against a replacement between the two); a copy lies on a volume like the
  workspace's; commands are pytest's as far as `-o` and addopts go. The policy may allow what
  the check on the staged copy then refuses; that fails closed and is no property.
- `RemoteDispatch`: delivery takes at least one tick, so that a copy that arrives in the very
  instant its token expires is not examined; staging and copying back take place within
  the container's limit, while the host adds their time to it, so the bound of
  `LateEffectIsBounded` is to be read without them; a lost copy or answer needs no step of its own, it
  is one that never arrives; every dispatch is a write; signatures cannot be forged.
- `StagedExecution`: two levels of directories; sizes and images only decide between success
  and failure.
- `WorkspaceRetention`: workspaces created lazily for rows of older versions are left out.
- `RunAdmission`: the clock does not go back; how long a refused caller is asked to wait is
  left out.
- `GatewayLifecycle`: a completion refused at its deadline (`COMPLETION_DEADLINE_EXCEEDED`)
  changes nothing and is a close that is not taken; the log has no retention records, which are
  `WorkspaceRetention`'s.
- `ReasoningExtraction`: a message whose details are one block of a raw type with a blank text
  has no label, while `client.py:187` returns the type's label with no text; its callers
  use the label of a text only.
- `TokenLedger`: one profile, because profiles share no counter.
- `AgentLoop`: what the model answers is a free choice of calls.
