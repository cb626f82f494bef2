--------------------------- MODULE RemoteDispatch ---------------------------
(***************************************************************************)
(* The remote executor: the gateway posts a signed dispatch once and waits *)
(* (executor_remote.py); the runner, a server that handles one request at  *)
(* a time, checks it, runs one container on a staged copy of the workspace *)
(* and copies the result back (executor-runner/runner.py).                 *)
(*                                                                         *)
(* Requests and answers are lost or delivered twice, the gateway gives up, *)
(* the runner restarts and forgets which tokens it has seen.  Time is      *)
(* counted in ticks; a dispatch takes at least one tick to arrive.         *)
(***************************************************************************)
EXTENDS Integers, DispatchGate

CONSTANTS
    Dispatches,    \* dispatches: one single-use token each
    NoDispatch,    \* no dispatch
    DispatchTTL,   \* DISPATCH_TOKEN_TTL_S
    PostTimeout,   \* REMOTE_TIMEOUT_S
    RunLimit,      \* the runner's limit on one container
    LastTick,      \* bound on the clock
    MaxCopies,     \* bound on the copies of a dispatch on their way
    MaxRestarts    \* bound on the restarts of the runner

ASSUME DispatchAssumption ==
    /\ NoDispatch \notin Dispatches
    /\ DispatchTTL \in Nat /\ RunLimit \in Nat \ {0} /\ PostTimeout \in Nat
    /\ LastTick \in Nat /\ MaxCopies \in Nat \ {0} /\ MaxRestarts \in Nat

VARIABLES
    clock,     \* the time, the same for both sides
    posts,     \* per dispatch: the gateway's side of it
    wire,      \* per dispatch: how many copies are on their way
    answer,    \* per dispatch: the answer on its way to the gateway
    runner,    \* the job the runner has, since when, and how often it restarted
    tokens,    \* per dispatch: when its token was consumed, NotSeen if unknown
    jobs,      \* history, per dispatch: containers since the runner started
    effects    \* history, per dispatch: copies back to the workspace

dispatchVars == <<clock, posts, wire, answer, runner, tokens, jobs, effects>>

NotSeen == -1

\* REFUSED: an error status, or a body that is no receipt.
Answers == {"none", "EXECUTED", "FAILED", "REFUSED"}

Receipts == {"none", "EXECUTED", "FAILED", "NOT_EXECUTED"}

DispatchTypeOK ==
    /\ clock \in 0 .. LastTick
    /\ posts \in [Dispatches ->
         [at : {"new", "waiting", "over"}, issued : 0 .. LastTick,
          held : BOOLEAN, receipt : Receipts]]
    /\ wire \in [Dispatches -> 0 .. MaxCopies]
    /\ answer \in [Dispatches -> Answers]
    /\ runner \in [job : Dispatches \cup {NoDispatch}, since : 0 .. LastTick,
                   restarts : 0 .. MaxRestarts]
    /\ tokens \in [Dispatches -> {NotSeen} \cup 0 .. LastTick]
    /\ jobs \in [Dispatches -> Nat]
    /\ effects \in [Dispatches -> Nat]

DispatchInit ==
    /\ clock = 0
    /\ posts = [d \in Dispatches |->
         [at |-> "new", issued |-> 0, held |-> FALSE, receipt |-> "none"]]
    /\ wire = [d \in Dispatches |-> 0]
    /\ answer = [d \in Dispatches |-> "none"]
    /\ runner = [job |-> NoDispatch, since |-> 0, restarts |-> 0]
    /\ tokens = [d \in Dispatches |-> NotSeen]
    /\ jobs = [d \in Dispatches |-> 0]
    /\ effects = [d \in Dispatches |-> 0]

\* The host kills a container at its limit, so a job never sees a later tick.
TickDispatch ==
    /\ clock < LastTick
    /\ runner.job # NoDispatch => clock < runner.since + RunLimit
    /\ clock' = clock + 1
    /\ UNCHANGED <<posts, wire, answer, runner, tokens, jobs, effects>>

-----------------------------------------------------------------------------
(* The gateway: RemoteExecutor.execute.                                    *)

\* What the action, its decision and its approval can be when they get here.
Actions(d) == {[id |-> d, operation |-> o] : o \in {"write_text", "network_request"}}

Approvals(d) ==
    {[status |-> "none", action |-> NoDispatch]}
      \cup {[status |-> s, action |-> a] :
              s \in {"APPROVED", "CONSUMED"}, a \in {d, NoDispatch}}

Decisions == {"none", "ALLOW", "HOLD", "DENY"}

Settle(d, receipt) ==
    /\ posts' = [posts EXCEPT ![d].at = "over", ![d].receipt = receipt]
    /\ answer' = [answer EXCEPT ![d] = "none"]

\* The gate refuses: a denial leaves a receipt, anything else raises, which
\* the service records as a failure.
RefuseDispatch(d) ==
    /\ posts[d].at = "new"
    /\ \E a \in Actions(d), o \in Decisions, p \in Approvals(d) :
         /\ ~Proceeds(a, o, p)
         /\ Settle(d, IF Verdict(a, o, p) = "POLICY_DENY"
                      THEN "NOT_EXECUTED" ELSE "FAILED")
    /\ UNCHANGED <<clock, wire, runner, tokens, jobs, effects>>

\* A check of the stored state, of the target or of the command fails, or
\* the runner is not configured: nothing is posted.
FailBeforePost(d) ==
    /\ posts[d].at = "new"
    /\ Settle(d, "FAILED")
    /\ UNCHANGED <<clock, wire, runner, tokens, jobs, effects>>

\* prepare_dispatch stamps the time; the post goes out once.
PostDispatch(d) ==
    /\ posts[d].at = "new"
    /\ \E a \in Actions(d), o \in Decisions, p \in Approvals(d) :
         /\ Proceeds(a, o, p)
         /\ posts' = [posts EXCEPT ![d] =
              [@ EXCEPT !.at = "waiting", !.issued = clock, !.held = o = "HOLD"]]
    /\ wire' = [wire EXCEPT ![d] = 1]
    /\ UNCHANGED <<clock, answer, runner, tokens, jobs, effects>>

\* Mutant of ReceiptFor: a refused replay is taken for the first one's success.
ReceiptForReplay(a) == IF a \in {"EXECUTED", "REFUSED"} THEN "EXECUTED" ELSE "FAILED"

\* The status of an answer decides the receipt; an error status, a refusal
\* or a body without a status fails.
ReceiptFor(a) == IF a = "EXECUTED" THEN "EXECUTED" ELSE "FAILED"

ReceiveAnswer(d) ==
    /\ posts[d].at = "waiting" /\ answer[d] # "none"
    /\ Settle(d, ReceiptFor(answer[d]))
    /\ UNCHANGED <<clock, wire, runner, tokens, jobs, effects>>

\* The client's time-out; each phase of the exchange has its own, so the
\* whole may take longer.
TimeOutPost(d) ==
    /\ posts[d].at = "waiting"
    /\ clock - posts[d].issued >= PostTimeout
    /\ Settle(d, "FAILED")
    /\ UNCHANGED <<clock, wire, runner, tokens, jobs, effects>>

\* The connection breaks.
BreakPost(d) ==
    /\ posts[d].at = "waiting"
    /\ Settle(d, "FAILED")
    /\ UNCHANGED <<clock, wire, runner, tokens, jobs, effects>>

-----------------------------------------------------------------------------
(* The network.  A copy or an answer that is lost is one that is never     *)
(* handled: no step has to be taken for it.                                *)

RepeatCopy(d) ==
    /\ wire[d] \in 1 .. MaxCopies - 1
    /\ wire' = [wire EXCEPT ![d] = @ + 1]
    /\ UNCHANGED <<clock, posts, answer, runner, tokens, jobs, effects>>

-----------------------------------------------------------------------------
(* The runner: handle_execute.  It takes the next request when it has no   *)
(* job, so the wait for another job counts against the dispatch's age.     *)

\* An answer is for whoever still waits; the connection has room for one.
Answered(d, a) ==
    answer' = [answer EXCEPT ![d] = IF posts[d].at = "waiting" THEN a ELSE @]

\* Mutant of Fresh: the age of a dispatch does not matter.
FreshAtAnyAge(d) == clock >= posts[d].issued

\* 0 <= at - issued_at <= DISPATCH_TOKEN_TTL_S
Fresh(d) == clock - posts[d].issued \in 0 .. DispatchTTL

\* Mutant of Pruned: a token leaves the store a tick early.
PrunedEarly == [d \in Dispatches |->
             IF tokens[d] # NotSeen /\ tokens[d] + DispatchTTL - 1 <= clock
             THEN NotSeen ELSE tokens[d]]

\* DispatchTokenStore._prune_locked
Pruned == [d \in Dispatches |->
             IF tokens[d] # NotSeen /\ tokens[d] + DispatchTTL <= clock
             THEN NotSeen ELSE tokens[d]]

\* DispatchTokenStore.consume, when it answers "ok"
Consumed(d) == [Pruned EXCEPT ![d] = clock]

Handles(d) ==
    /\ runner.job = NoDispatch
    /\ wire[d] > 0 /\ clock > posts[d].issued
    /\ wire' = [wire EXCEPT ![d] = @ - 1]

RefuseOld(d) ==
    /\ Handles(d) /\ ~Fresh(d)
    /\ Answered(d, "REFUSED")
    /\ UNCHANGED <<clock, posts, runner, tokens, jobs, effects>>

RefuseUsedToken(d) ==
    /\ Handles(d) /\ Fresh(d)
    /\ Pruned[d] # NotSeen
    /\ tokens' = Pruned
    /\ Answered(d, "REFUSED")
    /\ UNCHANGED <<clock, posts, runner, jobs, effects>>

\* The token is consumed; then the gate, the approval's binding, the
\* workspace, the scope or the staging refuses.
RefuseAfterToken(d) ==
    /\ Handles(d) /\ Fresh(d)
    /\ Pruned[d] = NotSeen
    /\ tokens' = Consumed(d)
    /\ Answered(d, "REFUSED")
    /\ UNCHANGED <<clock, posts, runner, jobs, effects>>

\* Everything holds: the workspace is staged and the container starts.  The
\* post kept only whether the decision was a hold, and the runner's gate sees
\* the same three records.
StartJob(d) ==
    /\ Handles(d) /\ Fresh(d)
    /\ Pruned[d] = NotSeen
    /\ tokens' = Consumed(d)
    /\ RunnerProceeds([id |-> d, operation |-> "write_text"],
                      IF posts[d].held THEN "HOLD" ELSE "ALLOW",
                      [status |-> IF posts[d].held THEN "APPROVED" ELSE "none",
                       action |-> d])
    /\ runner' = [runner EXCEPT !.job = d, !.since = clock]
    /\ jobs' = [jobs EXCEPT ![d] = @ + 1]
    /\ UNCHANGED <<clock, posts, answer, effects>>

Freed == runner' = [runner EXCEPT !.job = NoDispatch]

\* The container succeeds and its files are copied back.
FinishJob(d) ==
    /\ runner.job = d
    /\ Freed
    /\ effects' = [effects EXCEPT ![d] = @ + 1]
    /\ Answered(d, "EXECUTED")
    /\ UNCHANGED <<clock, posts, wire, tokens, jobs>>

\* The container fails, is killed at its limit or writes too much: nothing
\* is copied.  An error midway leaves what was copied before it.
FailJob(d) ==
    /\ runner.job = d
    /\ Freed
    /\ \/ UNCHANGED effects
       \/ effects' = [effects EXCEPT ![d] = @ + 1]
    /\ Answered(d, "FAILED")
    /\ UNCHANGED <<clock, posts, wire, tokens, jobs>>

\* The runner dies with its job, its connections and its tokens, and is
\* started again.  A copy back under way stays as it is.
RestartRunner ==
    /\ runner.restarts < MaxRestarts
    /\ runner' = [job |-> NoDispatch, since |-> 0, restarts |-> runner.restarts + 1]
    /\ tokens' = [d \in Dispatches |-> NotSeen]
    /\ jobs' = [d \in Dispatches |-> 0]
    /\ \/ UNCHANGED effects
       \/ \E d \in Dispatches : runner.job = d /\ effects' = [effects EXCEPT ![d] = @ + 1]
    /\ UNCHANGED <<clock, posts, wire, answer>>

-----------------------------------------------------------------------------
DispatchNext ==
    \/ TickDispatch
    \/ \E d \in Dispatches :
         \/ RefuseDispatch(d) \/ FailBeforePost(d) \/ PostDispatch(d)
         \/ ReceiveAnswer(d) \/ TimeOutPost(d) \/ BreakPost(d)
         \/ RepeatCopy(d)
         \/ RefuseOld(d) \/ RefuseUsedToken(d) \/ RefuseAfterToken(d)
         \/ StartJob(d) \/ FinishJob(d) \/ FailJob(d)
    \/ RestartRunner

DispatchSpec == DispatchInit /\ [][DispatchNext]_dispatchVars

-----------------------------------------------------------------------------
(* Properties. *)

\* A dispatch the gateway has given up on can still run, but not for long:
\* the runner works for a dispatch only until the token's lifetime and one
\* container's limit have passed since it was issued, the time for staging and
\* copying back not counted.  Whoever reads a FAILED receipt has to wait that
\* long before the workspace is quiet.
LateEffectIsBounded ==
    runner.job # NoDispatch =>
        clock <= posts[runner.job].issued + DispatchTTL + RunLimit

\* However often a dispatch arrives, however long it waited and whenever the
\* token store is pruned, one life of the runner starts one container for it,
\* and without a restart its effect happens once.
OneRunPerDispatch ==
    \A d \in Dispatches :
        /\ jobs[d] <= 1
        /\ runner.restarts = 0 => effects[d] <= 1

\* An EXECUTED receipt is about an effect that happened; a dispatch refused
\* before the post has none, now or later.
ReceiptTellsEffect ==
    \A d \in Dispatches :
        /\ posts[d].receipt = "EXECUTED" => effects[d] >= 1
        /\ posts[d].receipt = "NOT_EXECUTED" =>
             effects[d] = 0 /\ runner.job # d /\ wire[d] = 0

=============================================================================
