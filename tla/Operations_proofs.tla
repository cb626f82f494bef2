------------------------- MODULE Operations_proofs --------------------------
(***************************************************************************)
(* Proofs about RemoteDispatch, for every set of dispatches, every         *)
(* lifetime of a token, every limit and every number of copies and of      *)
(* restarts; about WorkspaceRetention, for every set of runs and           *)
(* operators, every window and every bound; about EventStream, for every   *)
(* set of handlers, every size of the log and of a queue; and about        *)
(* StagedExecution, for every set of jobs and every tree of two levels.    *)
(*                                                                         *)
(* The event stream. An open connection accounts for every stored event:   *)
(* it is shown, excused, with a handler, in the queue or still to be       *)
(* replayed (ConnectionAccounts). A cursor passes over nothing that is not *)
(* excused, because what is behind a shown event is recorded when a        *)
(* connection is lost (NothingBehind).                                     *)
(*                                                                         *)
(* Staged execution. With one job at a time the workspace is, but for what *)
(* the container wrote and what is blocked, the one that was copied        *)
(* (Unwritten); the walk of the copy back goes through real directories,   *)
(* so that no entry lands elsewhere, and what it has reached is brought    *)
(* over or accounted for (Walked).                                         *)
(***************************************************************************)
EXTENDS RemoteDispatch, WorkspaceRetention, EventStream, StagedExecution, TLAPS,
        SequenceTheorems, WellFoundedInduction

-----------------------------------------------------------------------------
(* Typing. *)

\* Everything a dispatch consists of.
Post == [at : {"new", "waiting", "over"}, issued : 0 .. LastTick,
         held : BOOLEAN, receipt : Receipts]

LEMMA DispatchInitType == DispatchInit => DispatchTypeOK
BY DispatchAssumption DEF DispatchInit, DispatchTypeOK, NotSeen, Answers, Receipts

\* A settled dispatch is one.
LEMMA SettleType ==
    ASSUME DispatchTypeOK, NEW d \in Dispatches, NEW receipt \in Receipts,
           Settle(d, receipt)
    PROVE  posts' \in [Dispatches -> Post] /\ answer' \in [Dispatches -> Answers]
<1>1. posts \in [Dispatches -> Post] /\ posts[d] \in Post
  BY DEF DispatchTypeOK, Post
<1>2. [posts[d] EXCEPT !.at = "over", !.receipt = receipt] \in Post
  BY <1>1 DEF Post
<1>3. posts' = [posts EXCEPT ![d] = [posts[d] EXCEPT !.at = "over", !.receipt = receipt]]
  BY <1>1 DEF Settle
<1>4. posts' \in [Dispatches -> Post]
  BY <1>1, <1>2, <1>3
<1>5. answer' \in [Dispatches -> Answers]
  BY DEF DispatchTypeOK, Settle, Answers
<1> QED
  BY <1>4, <1>5

LEMMA AnsweredType ==
    ASSUME DispatchTypeOK, NEW d \in Dispatches, NEW a \in Answers, Answered(d, a)
    PROVE  answer' \in [Dispatches -> Answers]
BY DEF DispatchTypeOK, Answered

LEMMA StoreType ==
    ASSUME DispatchTypeOK, NEW d \in Dispatches
    PROVE  /\ Pruned \in [Dispatches -> {NotSeen} \cup 0 .. LastTick]
           /\ Consumed(d) \in [Dispatches -> {NotSeen} \cup 0 .. LastTick]
BY DEF DispatchTypeOK, Pruned, Consumed

LEMMA HandlesType ==
    ASSUME DispatchTypeOK, NEW d \in Dispatches, Handles(d)
    PROVE  wire' \in [Dispatches -> 0 .. MaxCopies]
BY DispatchAssumption DEF DispatchTypeOK, Handles

\* A post tells the runner only whether the decision was a hold.
LEMMA PostedHeld ==
    ASSUME NEW d \in Dispatches, PostDispatch(d)
    PROVE  \E held \in BOOLEAN :
             posts' = [posts EXCEPT ![d] =
               [@ EXCEPT !.at = "waiting", !.issued = clock, !.held = held]]
<1>1. PICK a \in Actions(d), o \in Decisions, p \in Approvals(d) :
         posts' = [posts EXCEPT ![d] =
           [@ EXCEPT !.at = "waiting", !.issued = clock, !.held = o = "HOLD"]]
  BY Zenon DEF PostDispatch
<1>2. (o = "HOLD") \in BOOLEAN
  OBVIOUS
<1> QED
  BY <1>1, <1>2, Zenon

LEMMA PostedOnce ==
    ASSUME NEW d \in Dispatches, PostDispatch(d)
    PROVE  /\ posts[d].at = "new"
           /\ wire' = [wire EXCEPT ![d] = 1]
           /\ UNCHANGED <<clock, answer, runner, tokens, jobs, effects>>
BY Zenon DEF PostDispatch

\* The steps of the gateway and of the network.
LEMMA GatewaySideType ==
    ASSUME DispatchTypeOK, NEW d \in Dispatches,
           \/ RefuseDispatch(d) \/ FailBeforePost(d) \/ PostDispatch(d)
           \/ ReceiveAnswer(d) \/ TimeOutPost(d) \/ BreakPost(d) \/ RepeatCopy(d)
    PROVE  DispatchTypeOK'
<1>1. CASE RefuseDispatch(d)
  <2>1. PICK a \in Actions(d), o \in Decisions, p \in Approvals(d) :
           Settle(d, IF Verdict(a, o, p) = "POLICY_DENY" THEN "NOT_EXECUTED" ELSE "FAILED")
    BY <1>1 DEF RefuseDispatch
  <2> QED
    BY <1>1, <2>1, SettleType DEF RefuseDispatch, DispatchTypeOK, Receipts, Post
<1>2. CASE FailBeforePost(d)
  BY <1>2, SettleType DEF FailBeforePost, DispatchTypeOK, Receipts, Post
<1>3. CASE PostDispatch(d)
  <2>1. PICK held \in BOOLEAN :
           posts' = [posts EXCEPT ![d] =
             [@ EXCEPT !.at = "waiting", !.issued = clock, !.held = held]]
    BY <1>3, PostedHeld
  <2>2. posts' \in [Dispatches -> Post]
    BY <2>1 DEF DispatchTypeOK, Post
  <2>3. wire' \in [Dispatches -> 0 .. MaxCopies]
    BY <1>3, PostedOnce, DispatchAssumption DEF DispatchTypeOK
  <2> QED
    BY <1>3, <2>2, <2>3, PostedOnce DEF DispatchTypeOK, Post
<1>4. CASE ReceiveAnswer(d)
  BY <1>4, SettleType DEF ReceiveAnswer, ReceiptFor, DispatchTypeOK, Receipts, Post
<1>5. CASE TimeOutPost(d)
  BY <1>5, SettleType DEF TimeOutPost, DispatchTypeOK, Receipts, Post
<1>6. CASE BreakPost(d)
  BY <1>6, SettleType DEF BreakPost, DispatchTypeOK, Receipts, Post
<1>7. CASE RepeatCopy(d)
  BY <1>7, DispatchAssumption DEF RepeatCopy, DispatchTypeOK
<1> QED
  BY <1>1, <1>2, <1>3, <1>4, <1>5, <1>6, <1>7

\* The steps of the runner for one dispatch.
LEMMA RunnerSideType ==
    ASSUME DispatchTypeOK, NEW d \in Dispatches,
           \/ RefuseOld(d) \/ RefuseUsedToken(d) \/ RefuseAfterToken(d)
           \/ StartJob(d) \/ FinishJob(d) \/ FailJob(d)
    PROVE  DispatchTypeOK'
<1>1. CASE RefuseOld(d)
  BY <1>1, HandlesType, AnsweredType DEF RefuseOld, DispatchTypeOK, Answers
<1>2. CASE RefuseUsedToken(d)
  BY <1>2, HandlesType, AnsweredType, StoreType
     DEF RefuseUsedToken, DispatchTypeOK, Answers
<1>3. CASE RefuseAfterToken(d)
  BY <1>3, HandlesType, AnsweredType, StoreType
     DEF RefuseAfterToken, DispatchTypeOK, Answers
<1>4. CASE StartJob(d)
  <2>1. jobs' \in [Dispatches -> Nat]
    BY <1>4 DEF StartJob, DispatchTypeOK
  <2>2. runner' \in [job : Dispatches \cup {NoDispatch}, since : 0 .. LastTick,
                     restarts : 0 .. MaxRestarts]
    BY <1>4 DEF StartJob, DispatchTypeOK
  <2> QED
    BY <1>4, <2>1, <2>2, HandlesType, StoreType DEF StartJob, DispatchTypeOK
<1>5. CASE FinishJob(d)
  BY <1>5, AnsweredType DEF FinishJob, Freed, DispatchTypeOK, Answers
<1>6. CASE FailJob(d)
  BY <1>6, AnsweredType DEF FailJob, Freed, DispatchTypeOK, Answers
<1> QED
  BY <1>1, <1>2, <1>3, <1>4, <1>5, <1>6

LEMMA RestartType ==
    ASSUME DispatchTypeOK, RestartRunner
    PROVE  DispatchTypeOK'
<1>1. effects' \in [Dispatches -> Nat]
  BY DEF RestartRunner, DispatchTypeOK
<1>2. runner' \in [job : Dispatches \cup {NoDispatch}, since : 0 .. LastTick,
                   restarts : 0 .. MaxRestarts]
  BY DispatchAssumption DEF RestartRunner, DispatchTypeOK
<1> QED
  BY <1>1, <1>2 DEF RestartRunner, DispatchTypeOK

LEMMA TickType ==
    ASSUME DispatchTypeOK, TickDispatch
    PROVE  DispatchTypeOK'
BY DispatchAssumption DEF TickDispatch, DispatchTypeOK

\* The records of the gateway, of the network and of the runner keep their
\* types for every set of dispatches and every bound.
THEOREM DispatchTypeCorrect == DispatchSpec => []DispatchTypeOK
<1>1. DispatchInit => DispatchTypeOK
  BY DispatchInitType
<1>2. DispatchTypeOK /\ [DispatchNext]_dispatchVars => DispatchTypeOK'
  <2> SUFFICES ASSUME DispatchTypeOK, [DispatchNext]_dispatchVars
               PROVE  DispatchTypeOK'
    OBVIOUS
  <2>1. CASE TickDispatch
    BY <2>1, TickType
  <2>2. CASE RestartRunner
    BY <2>2, RestartType
  <2>3. CASE UNCHANGED dispatchVars
    BY <2>3 DEF DispatchTypeOK, dispatchVars
  <2> QED
    BY <2>1, <2>2, <2>3, GatewaySideType, RunnerSideType DEF DispatchNext
<1> QED
  BY <1>1, <1>2, PTL DEF DispatchSpec

-----------------------------------------------------------------------------
(* How long a dispatch lives. *)

\* A dispatch that is not posted has left no trace; the job at hand started
\* after its dispatch was issued, within the token's lifetime, and no earlier
\* than one container's limit ago.
Lifetime ==
    /\ \A d \in Dispatches :
         /\ posts[d].issued <= clock
         /\ posts[d].at = "new" =>
              wire[d] = 0 /\ runner.job # d /\ effects[d] = 0 /\ answer[d] = "none"
    /\ runner.job # NoDispatch =>
         /\ posts[runner.job].at # "new"
         /\ runner.since <= posts[runner.job].issued + DispatchTTL
         /\ clock <= runner.since + RunLimit

LEMMA LifetimeInit == DispatchInit => Lifetime
BY DispatchAssumption DEF DispatchInit, Lifetime

\* What a settled dispatch keeps.
LEMMA SettleKeeps ==
    ASSUME DispatchTypeOK, NEW d \in Dispatches, NEW receipt \in Receipts,
           Settle(d, receipt)
    PROVE  \A e \in Dispatches :
             /\ posts'[e].issued = posts[e].issued
             /\ e # d => posts'[e] = posts[e] /\ answer'[e] = answer[e]
             /\ posts'[d].at = "over" /\ posts'[d].receipt = receipt
             /\ answer'[d] = "none"
BY DEF DispatchTypeOK, Settle

\* The gateway settles a dispatch by a refusal, a failure or an answer.
LEMMA SettlingStep ==
    ASSUME DispatchTypeOK, NEW d \in Dispatches,
           \/ RefuseDispatch(d) \/ FailBeforePost(d)
           \/ ReceiveAnswer(d) \/ TimeOutPost(d) \/ BreakPost(d)
    PROVE  \E receipt \in Receipts :
             /\ Settle(d, receipt)
             /\ posts[d].at \in {"new", "waiting"}
             /\ receipt = "EXECUTED" => answer[d] = "EXECUTED"
             /\ receipt = "NOT_EXECUTED" => posts[d].at = "new"
             /\ UNCHANGED <<clock, wire, runner, tokens, jobs, effects>>
<1>1. CASE RefuseDispatch(d)
  <2>1. PICK a \in Actions(d), o \in Decisions, p \in Approvals(d) :
           Settle(d, IF Verdict(a, o, p) = "POLICY_DENY" THEN "NOT_EXECUTED" ELSE "FAILED")
    BY <1>1 DEF RefuseDispatch
  <2> QED
    BY <1>1, <2>1 DEF RefuseDispatch, Receipts
<1>2. CASE FailBeforePost(d)
  BY <1>2 DEF FailBeforePost, Receipts
<1>3. CASE ReceiveAnswer(d)
  BY <1>3 DEF ReceiveAnswer, ReceiptFor, Receipts
<1>4. CASE TimeOutPost(d)
  BY <1>4 DEF TimeOutPost, Receipts
<1>5. CASE BreakPost(d)
  BY <1>5 DEF BreakPost, Receipts
<1> QED
  BY <1>1, <1>2, <1>3, <1>4, <1>5

\* What a post changes of its dispatch, and of no other.
LEMMA PostKeeps ==
    ASSUME DispatchTypeOK, NEW d \in Dispatches, PostDispatch(d)
    PROVE  \A e \in Dispatches :
             /\ e # d => posts'[e] = posts[e] /\ wire'[e] = wire[e]
             /\ posts'[d].at = "waiting" /\ posts'[d].issued = clock
             /\ posts'[d].receipt = posts[d].receipt
<1>1. PICK held \in BOOLEAN :
         posts' = [posts EXCEPT ![d] =
           [@ EXCEPT !.at = "waiting", !.issued = clock, !.held = held]]
  BY PostedHeld
<1>2. \A e \in Dispatches : e # d => posts'[e] = posts[e] /\ wire'[e] = wire[e]
  BY <1>1, PostedOnce DEF DispatchTypeOK
<1>3. /\ posts'[d].at = "waiting" /\ posts'[d].issued = clock
      /\ posts'[d].receipt = posts[d].receipt
  BY <1>1 DEF DispatchTypeOK
<1> QED
  BY <1>2, <1>3

LEMMA LifetimeGateway ==
    ASSUME DispatchTypeOK, Lifetime, NEW d \in Dispatches,
           \/ RefuseDispatch(d) \/ FailBeforePost(d) \/ PostDispatch(d)
           \/ ReceiveAnswer(d) \/ TimeOutPost(d) \/ BreakPost(d) \/ RepeatCopy(d)
    PROVE  Lifetime'
<1>1. CASE PostDispatch(d)
  <2>1. runner.job # d
    BY <1>1, PostedOnce DEF Lifetime
  <2>2. UNCHANGED <<clock, answer, runner, effects>>
    BY <1>1, PostedOnce
  <2> QED
    BY <1>1, <2>1, <2>2, PostKeeps DEF Lifetime, DispatchTypeOK
<1>2. CASE RepeatCopy(d)
  BY <1>2 DEF RepeatCopy, Lifetime, DispatchTypeOK
<1>3. CASE \/ RefuseDispatch(d) \/ FailBeforePost(d)
           \/ ReceiveAnswer(d) \/ TimeOutPost(d) \/ BreakPost(d)
  <2>1. PICK receipt \in Receipts :
           /\ Settle(d, receipt)
           /\ UNCHANGED <<clock, wire, runner, tokens, jobs, effects>>
    BY <1>3, SettlingStep
  <2> QED
    BY <2>1, SettleKeeps DEF Lifetime, DispatchTypeOK
<1> QED
  BY <1>1, <1>2, <1>3

LEMMA LifetimeRunner ==
    ASSUME DispatchTypeOK, Lifetime, NEW d \in Dispatches,
           \/ RefuseOld(d) \/ RefuseUsedToken(d) \/ RefuseAfterToken(d)
           \/ StartJob(d) \/ FinishJob(d) \/ FailJob(d)
    PROVE  Lifetime'
<1>1. CASE RefuseOld(d) \/ RefuseUsedToken(d) \/ RefuseAfterToken(d)
  BY <1>1 DEF RefuseOld, RefuseUsedToken, RefuseAfterToken, Handles, Answered,
              Lifetime, DispatchTypeOK
<1>2. CASE StartJob(d)
  BY <1>2, DispatchAssumption DEF StartJob, Handles, Fresh, Lifetime, DispatchTypeOK
<1>3. CASE FinishJob(d) \/ FailJob(d)
  BY <1>3, DispatchAssumption DEF FinishJob, FailJob, Freed, Answered, Lifetime, DispatchTypeOK
<1> QED
  BY <1>1, <1>2, <1>3

LEMMA LifetimeStep ==
    ASSUME DispatchTypeOK, Lifetime, [DispatchNext]_dispatchVars
    PROVE  Lifetime'
<1>1. CASE TickDispatch
  BY <1>1, DispatchAssumption DEF TickDispatch, Lifetime, DispatchTypeOK
<1>2. CASE RestartRunner
  BY <1>2, DispatchAssumption DEF RestartRunner, Lifetime, DispatchTypeOK
<1>3. CASE UNCHANGED dispatchVars
  BY <1>3 DEF Lifetime, dispatchVars
<1> QED
  BY <1>1, <1>2, <1>3, LifetimeGateway, LifetimeRunner DEF DispatchNext

LEMMA LifetimeCorrect == DispatchSpec => []Lifetime
<1>1. DispatchInit => Lifetime
  BY LifetimeInit
<1>2. DispatchTypeOK /\ Lifetime /\ [DispatchNext]_dispatchVars => Lifetime'
  BY LifetimeStep
<1> QED
  BY <1>1, <1>2, DispatchTypeCorrect, PTL DEF DispatchSpec

\* The runner works for a dispatch only until its token's lifetime and one
\* container's limit have passed, whatever is delayed, repeated or restarted.
THEOREM LateEffectBound == DispatchSpec => []LateEffectIsBounded
<1>1. DispatchTypeOK /\ Lifetime => LateEffectIsBounded
  BY DispatchAssumption DEF Lifetime, LateEffectIsBounded, DispatchTypeOK
<1> QED
  BY <1>1, DispatchTypeCorrect, LifetimeCorrect, PTL

-----------------------------------------------------------------------------
(* How often a dispatch runs. *)

\* A dispatch that had its container in this life of the runner is too old to
\* be taken again, or its token is known and outlives that age: it was
\* consumed after the dispatch was issued, and is kept as long as a dispatch
\* is fresh.  Without a restart an effect is one of a container.
OneLife ==
    \A d \in Dispatches :
        /\ jobs[d] <= 1
        /\ jobs[d] = 1 =>
             /\ posts[d].at # "new"
             /\ \/ clock > posts[d].issued + DispatchTTL
                \/ tokens[d] # NotSeen /\ tokens[d] > posts[d].issued
        /\ runner.restarts = 0 =>
             effects[d] + (IF runner.job = d THEN 1 ELSE 0) <= jobs[d]

LEMMA OneLifeInit == DispatchInit => OneLife
BY DispatchAssumption DEF DispatchInit, OneLife

LEMMA OneLifeGateway ==
    ASSUME DispatchTypeOK, OneLife, NEW d \in Dispatches,
           \/ RefuseDispatch(d) \/ FailBeforePost(d) \/ PostDispatch(d)
           \/ ReceiveAnswer(d) \/ TimeOutPost(d) \/ BreakPost(d) \/ RepeatCopy(d)
    PROVE  OneLife'
<1>1. CASE PostDispatch(d)
  <2>1. jobs[d] # 1
    BY <1>1, PostedOnce DEF OneLife
  <2>2. UNCHANGED <<clock, runner, tokens, jobs, effects>>
    BY <1>1, PostedOnce
  <2> QED
    BY <1>1, <2>1, <2>2, PostKeeps DEF OneLife
<1>2. CASE RepeatCopy(d)
  BY <1>2 DEF RepeatCopy, OneLife
<1>3. CASE \/ RefuseDispatch(d) \/ FailBeforePost(d)
           \/ ReceiveAnswer(d) \/ TimeOutPost(d) \/ BreakPost(d)
  <2>1. PICK receipt \in Receipts :
           /\ Settle(d, receipt)
           /\ UNCHANGED <<clock, wire, runner, tokens, jobs, effects>>
    BY <1>3, SettlingStep
  <2>2. \A e \in Dispatches : /\ posts'[e].issued = posts[e].issued
                              /\ posts'[e].at = posts[e].at \/ posts'[e].at = "over"
    BY <2>1, SettleKeeps
  <2> QED
    BY <2>1, <2>2 DEF OneLife
<1> QED
  BY <1>1, <1>2, <1>3

\* Pruning and consuming forget no token that a fresh dispatch could reuse.
LEMMA StoreRemembers ==
    ASSUME DispatchTypeOK, NEW d \in Dispatches, NEW e \in Dispatches,
           posts[e].issued <= clock, tokens[e] # NotSeen, tokens[e] > posts[e].issued
    PROVE  \/ clock > posts[e].issued + DispatchTTL
           \/ Pruned[e] # NotSeen /\ Pruned[e] > posts[e].issued
BY DispatchAssumption DEF DispatchTypeOK, Pruned, NotSeen

LEMMA OneLifeRunner ==
    ASSUME DispatchTypeOK, Lifetime, OneLife, NEW d \in Dispatches,
           \/ RefuseOld(d) \/ RefuseUsedToken(d) \/ RefuseAfterToken(d)
           \/ StartJob(d) \/ FinishJob(d) \/ FailJob(d)
    PROVE  OneLife'
<1>1. \A e \in Dispatches : posts[e].issued <= clock
  BY DEF Lifetime
<1>2. CASE RefuseOld(d)
  BY <1>2 DEF RefuseOld, OneLife
<1>3. \A e \in Dispatches : jobs[e] = 1 =>
         \/ clock > posts[e].issued + DispatchTTL
         \/ Pruned[e] # NotSeen /\ Pruned[e] > posts[e].issued
  BY <1>1, StoreRemembers DEF OneLife
<1>4. CASE RefuseUsedToken(d)
  BY <1>3, <1>4 DEF RefuseUsedToken, OneLife
<1>5. /\ \A e \in Dispatches : e # d => Consumed(d)[e] = Pruned[e]
      /\ Consumed(d)[d] = clock /\ clock # NotSeen
  BY DEF Consumed, Pruned, DispatchTypeOK, NotSeen
<1>6. CASE RefuseAfterToken(d)
  BY <1>3, <1>5, <1>6 DEF RefuseAfterToken, Handles, OneLife
<1>7. CASE StartJob(d)
  <2>0. Fresh(d) /\ Pruned[d] = NotSeen /\ jobs' = [jobs EXCEPT ![d] = @ + 1]
    BY <1>7 DEF StartJob
  <2>1. jobs[d] # 1
    BY <1>3, <2>0, DispatchAssumption DEF Fresh, DispatchTypeOK
  <2>2. jobs[d] = 0 /\ jobs'[d] = 1 /\ \A e \in Dispatches : e # d => jobs'[e] = jobs[e]
    <3>1. jobs[d] \in Nat /\ jobs[d] <= 1
      BY DEF OneLife, DispatchTypeOK
    <3>2. jobs \in [Dispatches -> Nat]
      BY DEF DispatchTypeOK
    <3> QED
      BY <2>0, <2>1, <3>1, <3>2
  <2>3. posts[d].at # "new"
    BY <1>7 DEF StartJob, Handles, Lifetime
  <2>4. /\ runner.job = NoDispatch /\ runner'.job = d
        /\ runner'.restarts = runner.restarts
    BY <1>7 DEF StartJob, Handles, DispatchTypeOK
  <2>5. \A e \in Dispatches : runner.restarts = 0 =>
           effects[e] + (IF runner'.job = e THEN 1 ELSE 0) <= jobs'[e]
    BY <2>2, <2>4, DispatchAssumption DEF OneLife, DispatchTypeOK
  <2>6. tokens' = Consumed(d) /\ clock > posts[d].issued
    BY <1>7 DEF StartJob, Handles
  <2> QED
    BY <1>3, <1>5, <1>7, <2>2, <2>3, <2>4, <2>5, <2>6 DEF StartJob, OneLife
<1>8. CASE FinishJob(d) \/ FailJob(d)
  <2>1. \/ effects' = effects
        \/ effects' = [effects EXCEPT ![d] = @ + 1]
    BY <1>8 DEF FinishJob, FailJob
  <2>2. /\ runner.job = d /\ runner'.job = NoDispatch
        /\ runner'.restarts = runner.restarts
    BY <1>8 DEF FinishJob, FailJob, Freed, DispatchTypeOK
  <2>3. \A e \in Dispatches : runner.restarts = 0 =>
           effects'[e] + (IF runner'.job = e THEN 1 ELSE 0) <= jobs[e]
    BY <2>1, <2>2, DispatchAssumption DEF OneLife, DispatchTypeOK
  <2> QED
    BY <1>8, <2>2, <2>3 DEF FinishJob, FailJob, OneLife
<1> QED
  BY <1>2, <1>4, <1>6, <1>7, <1>8

LEMMA OneLifeStep ==
    ASSUME DispatchTypeOK, Lifetime, OneLife, [DispatchNext]_dispatchVars
    PROVE  OneLife'
<1>1. CASE TickDispatch
  BY <1>1, DispatchAssumption DEF TickDispatch, OneLife, DispatchTypeOK
<1>2. CASE RestartRunner
  <2>1. runner'.restarts # 0
    BY <1>2 DEF RestartRunner, DispatchTypeOK
  <2>2. \A d \in Dispatches : jobs'[d] = 0
    BY <1>2 DEF RestartRunner
  <2> QED
    BY <2>1, <2>2 DEF OneLife
<1>3. CASE UNCHANGED dispatchVars
  BY <1>3 DEF OneLife, dispatchVars
<1> QED
  BY <1>1, <1>2, <1>3, OneLifeGateway, OneLifeRunner DEF DispatchNext

\* However often a dispatch arrives and whenever its token is pruned, one
\* life of the runner starts one container for it.
THEOREM OneContainerPerLife == DispatchSpec => []OneRunPerDispatch
<1>1. DispatchInit => OneLife
  BY OneLifeInit
<1>2. DispatchTypeOK /\ Lifetime /\ OneLife /\ [DispatchNext]_dispatchVars
        => OneLife'
  BY OneLifeStep
<1>3. DispatchTypeOK /\ OneLife => OneRunPerDispatch
  BY DispatchAssumption DEF OneLife, OneRunPerDispatch, DispatchTypeOK
<1> QED
  BY <1>1, <1>2, <1>3, DispatchTypeCorrect, LifetimeCorrect, PTL DEF DispatchSpec

-----------------------------------------------------------------------------
(* What a receipt says. *)

\* An answer and a receipt of success follow the effect; a denial is final
\* and nothing of it was ever posted.
Honest ==
    \A d \in Dispatches :
        /\ answer[d] = "EXECUTED" => effects[d] >= 1
        /\ posts[d].receipt = "EXECUTED" => effects[d] >= 1
        /\ posts[d].receipt = "NOT_EXECUTED" =>
             /\ posts[d].at = "over" /\ wire[d] = 0
             /\ effects[d] = 0 /\ runner.job # d

LEMMA HonestInit == DispatchInit => Honest
BY DispatchAssumption DEF DispatchInit, Honest

LEMMA HonestGateway ==
    ASSUME DispatchTypeOK, Lifetime, Honest, NEW d \in Dispatches,
           \/ RefuseDispatch(d) \/ FailBeforePost(d) \/ PostDispatch(d)
           \/ ReceiveAnswer(d) \/ TimeOutPost(d) \/ BreakPost(d) \/ RepeatCopy(d)
    PROVE  Honest'
<1>1. CASE PostDispatch(d)
  <2>1. UNCHANGED <<answer, runner, effects>> /\ posts[d].at = "new"
    BY <1>1, PostedOnce
  <2> QED
    BY <1>1, <2>1, PostKeeps DEF Honest
<1>2. CASE RepeatCopy(d)
  BY <1>2 DEF RepeatCopy, Honest, DispatchTypeOK
<1>3. CASE \/ RefuseDispatch(d) \/ FailBeforePost(d)
           \/ ReceiveAnswer(d) \/ TimeOutPost(d) \/ BreakPost(d)
  <2>1. PICK receipt \in Receipts :
           /\ Settle(d, receipt)
           /\ receipt = "EXECUTED" => answer[d] = "EXECUTED"
           /\ receipt = "NOT_EXECUTED" => posts[d].at = "new"
           /\ UNCHANGED <<clock, wire, runner, tokens, jobs, effects>>
    BY <1>3, SettlingStep
  <2> QED
    BY <2>1, SettleKeeps DEF Honest, Lifetime
<1> QED
  BY <1>1, <1>2, <1>3

LEMMA HonestRunner ==
    ASSUME DispatchTypeOK, Honest, NEW d \in Dispatches,
           \/ RefuseOld(d) \/ RefuseUsedToken(d) \/ RefuseAfterToken(d)
           \/ StartJob(d) \/ FinishJob(d) \/ FailJob(d)
    PROVE  Honest'
<1>1. CASE RefuseOld(d) \/ RefuseUsedToken(d) \/ RefuseAfterToken(d)
  BY <1>1 DEF RefuseOld, RefuseUsedToken, RefuseAfterToken, Handles, Answered,
              Honest, DispatchTypeOK
<1>2. CASE StartJob(d)
  BY <1>2 DEF StartJob, Handles, Honest, DispatchTypeOK
<1>3. CASE FinishJob(d) \/ FailJob(d)
  <2>1. /\ runner.job = d /\ runner'.job = NoDispatch
        /\ UNCHANGED <<posts, wire>>
    BY <1>3 DEF FinishJob, FailJob, Freed, DispatchTypeOK
  <2>2. \A e \in Dispatches :
           /\ effects'[e] \in Nat /\ effects'[e] >= effects[e]
           /\ e # d => effects'[e] = effects[e] /\ answer'[e] = answer[e]
    BY <1>3 DEF FinishJob, FailJob, Answered, DispatchTypeOK
  <2>3. answer'[d] = "EXECUTED" => effects'[d] >= 1
    BY <1>3 DEF FinishJob, FailJob, Answered, Honest, DispatchTypeOK
  <2> QED
    BY <2>1, <2>2, <2>3, DispatchAssumption DEF Honest, DispatchTypeOK
<1> QED
  BY <1>1, <1>2, <1>3

LEMMA HonestStep ==
    ASSUME DispatchTypeOK, Lifetime, Honest, [DispatchNext]_dispatchVars
    PROVE  Honest'
<1>1. CASE TickDispatch
  BY <1>1 DEF TickDispatch, Honest
<1>2. CASE RestartRunner
  <2>1. /\ runner'.job = NoDispatch
        /\ UNCHANGED <<posts, wire, answer>>
    BY <1>2 DEF RestartRunner
  <2>2. \A e \in Dispatches :
           /\ effects'[e] \in Nat /\ effects'[e] >= effects[e]
           /\ runner.job # e => effects'[e] = effects[e]
    BY <1>2 DEF RestartRunner, DispatchTypeOK
  <2> QED
    BY <2>1, <2>2, DispatchAssumption DEF Honest, DispatchTypeOK
<1>3. CASE UNCHANGED dispatchVars
  BY <1>3 DEF Honest, dispatchVars
<1> QED
  BY <1>1, <1>2, <1>3, HonestGateway, HonestRunner DEF DispatchNext

\* An EXECUTED receipt is about an effect that happened, and a dispatch that
\* was denied has none.
THEOREM HonestReceipts == DispatchSpec => []ReceiptTellsEffect
<1>1. DispatchInit => Honest
  BY HonestInit
<1>2. DispatchTypeOK /\ Lifetime /\ Honest /\ [DispatchNext]_dispatchVars
        => Honest'
  BY HonestStep
<1>3. Honest => ReceiptTellsEffect
  BY DEF Honest, ReceiptTellsEffect
<1> QED
  BY <1>1, <1>2, <1>3, DispatchTypeCorrect, LifetimeCorrect, PTL DEF DispatchSpec

-----------------------------------------------------------------------------
(* Workspaces and retention. *)

Entry == [kind : Outcomes, by : Operators]

RunRow == [row : Rows, updated : 0 .. LastDay, pending : BOOLEAN,
           approved : BOOLEAN, executing : BOOLEAN]

Pass == [at : {"idle", "listed", "attempted", "removed"},
         run : WorkspaceRuns \cup {Nobody}, cutoff : Int, done : BOOLEAN]

-----------------------------------------------------------------------------
(* Typing. *)

LEMMA RetentionInitType == RetentionInit => RetentionTypeOK
<1> SUFFICES ASSUME RetentionInit PROVE RetentionTypeOK
  OBVIOUS
<1>1. <<>> \in Seq(Entry)
  BY EmptySeq
<1> QED
  BY <1>1, RetentionAssumption
     DEF RetentionInit, RetentionTypeOK, Rows, Directories, Idle, Entry

\* A handler's write of one row.
LEMMA WriteType ==
    ASSUME RetentionTypeOK, NEW r \in WorkspaceRuns, NEW f \in RunRow,
           GatewayWrites(r, f)
    PROVE  RetentionTypeOK'
BY DEF RetentionTypeOK, GatewayWrites, RunRow

\* The steps that copy a workspace.
LEMMA CopyType ==
    ASSUME RetentionTypeOK, NEW r \in WorkspaceRuns,
           StageWorkspace(r) \/ PlaceWorkspace(r) \/ LoseCreation(r)
    PROVE  RetentionTypeOK'
<1>1. CASE StageWorkspace(r)
  BY <1>1 DEF RetentionTypeOK, StageWorkspace, Rows, Directories
<1>2. CASE PlaceWorkspace(r)
  BY <1>2 DEF RetentionTypeOK, PlaceWorkspace, Directories
<1>3. CASE LoseCreation(r)
  <2>1. runs' \in [WorkspaceRuns -> RunRow]
    <3>1. runs' = [runs EXCEPT ![r].row = "erased"]
      BY <1>3 DEF LoseCreation
    <3> QED
      BY <3>1 DEF RetentionTypeOK, RunRow, Rows
  <2>2. workspace' \in [WorkspaceRuns -> Directories]
    BY <1>3 DEF RetentionTypeOK, LoseCreation, Directories
  <2> QED
    BY <1>3, <2>1, <2>2 DEF RetentionTypeOK, LoseCreation, RunRow
<1> QED
  BY <1>1, <1>2, <1>3

\* Every other step of a handler writes one row and nothing else: it keeps
\* the row's status, closes a stored run, or stores the run whose workspace
\* is in place; and it starts an execution of an open run only.
HandlerWrites(r) ==
    \/ InsertRun(r) \/ HoldAction(r) \/ ReleaseHold(r) \/ GrantHold(r)
    \/ StartAllowed(r) \/ RecordResult(r) \/ CloseStored(r)

Lawful(r, f) ==
    /\ f \in RunRow
    /\ \/ f.row = runs[r].row /\ (Stored(r) \/ runs[r].executing)
       \/ f.row = "closed" /\ Stored(r) /\ ~f.approved /\ ~f.executing
       \/ f.row = "open" /\ runs[r].row = "creating" /\ workspace[r] = "ready"
    /\ f.approved \/ f.executing =>
         runs[r].row = "open" \/ runs[r].approved \/ runs[r].executing

LEMMA HandlerRow ==
    ASSUME RetentionTypeOK, NEW r \in WorkspaceRuns, HandlerWrites(r)
    PROVE  \E f : Lawful(r, f) /\ GatewayWrites(r, f)
<1> USE DEF RunRow, Rows, Lawful, Stored
<1>0. runs[r] \in RunRow /\ today \in 0 .. LastDay
  BY DEF RetentionTypeOK
<1>1. CASE InsertRun(r)
  <2>1. Lawful(r, [runs[r] EXCEPT !.row = "open", !.updated = today])
    BY <1>0, <1>1 DEF InsertRun
  <2> QED
    BY <1>1, <2>1 DEF InsertRun
<1>2. CASE HoldAction(r)
  <2>1. Lawful(r, [runs[r] EXCEPT !.pending = TRUE, !.updated = today])
    BY <1>0, <1>2 DEF HoldAction
  <2> QED
    BY <1>2, <2>1 DEF HoldAction
<1>3. CASE ReleaseHold(r)
  <2>1. Lawful(r, [runs[r] EXCEPT !.pending = FALSE])
    BY <1>0, <1>3 DEF ReleaseHold
  <2> QED
    BY <1>3, <2>1 DEF ReleaseHold
<1>4. CASE GrantHold(r)
  <2>1. Lawful(r, [runs[r] EXCEPT !.pending = FALSE, !.approved = TRUE, !.executing = TRUE])
    BY <1>0, <1>4 DEF GrantHold
  <2> QED
    BY <1>4, <2>1 DEF GrantHold
<1>5. CASE StartAllowed(r)
  <2>1. Lawful(r, [runs[r] EXCEPT !.executing = TRUE])
    BY <1>0, <1>5 DEF StartAllowed
  <2> QED
    BY <1>5, <2>1 DEF StartAllowed
<1>6. CASE RecordResult(r)
  <2>1. Lawful(r, [runs[r] EXCEPT !.executing = FALSE, !.approved = FALSE])
    BY <1>0, <1>6 DEF RecordResult
  <2> QED
    BY <1>6, <2>1 DEF RecordResult
<1>7. CASE CloseStored(r)
  <2>1. Lawful(r, [runs[r] EXCEPT !.row = "closed", !.updated = today])
    BY <1>0, <1>7 DEF CloseStored
  <2> QED
    BY <1>7, <2>1 DEF CloseStored
<1> QED
  BY <1>1, <1>2, <1>3, <1>4, <1>5, <1>6, <1>7 DEF HandlerWrites

LEMMA HandlerType ==
    ASSUME RetentionTypeOK, NEW r \in WorkspaceRuns, HandlerWrites(r)
    PROVE  RetentionTypeOK'
<1>1. PICK f : Lawful(r, f) /\ GatewayWrites(r, f)
  BY HandlerRow
<1> QED
  BY <1>1, WriteType DEF Lawful

LEMMA ResetType ==
    ASSUME RetentionTypeOK, ResetDemo
    PROVE  RetentionTypeOK'
<1>1. runs' \in [WorkspaceRuns -> RunRow]
  BY DEF RetentionTypeOK, ResetDemo, RunRow, Rows
<1>2. pruneLog' \in [WorkspaceRuns -> Seq(Entry)]
  BY EmptySeq DEF RetentionTypeOK, ResetDemo, Entry
<1> QED
  BY <1>1, <1>2 DEF RetentionTypeOK, ResetDemo, RunRow, Entry

\* A record that an operator adds.
LEMMA LogForType ==
    ASSUME RetentionTypeOK, NEW r, NEW o \in Operators, NEW kind \in Outcomes
    PROVE  LogFor(r, kind, o) \in [WorkspaceRuns -> Seq(Entry)]
<1>1. [kind |-> kind, by |-> o] \in Entry
  BY DEF Entry
<1>2. \A x \in WorkspaceRuns :
         Append(pruneLog[x], [kind |-> kind, by |-> o]) \in Seq(Entry)
  BY <1>1, AppendProperties DEF RetentionTypeOK, Entry
<1> QED
  BY <1>2 DEF LogFor, RetentionTypeOK, Entry

LEMMA OperatorType ==
    ASSUME RetentionTypeOK, NEW o \in Operators, OperatorStep(o)
    PROVE  RetentionTypeOK'
<1>0. passes[o] \in Pass /\ Idle \in Pass /\ Window \in Nat
  BY RetentionAssumption DEF RetentionTypeOK, Pass, Idle
<1>1. CASE BeginPass(o)
  <2>1. PICK r \in WorkspaceRuns :
           passes' = [passes EXCEPT ![o] =
             [at |-> "listed", run |-> r, cutoff |-> today - Window, done |-> FALSE]]
    BY <1>1 DEF BeginPass
  <2>2. [at |-> "listed", run |-> r, cutoff |-> today - Window, done |-> FALSE] \in Pass
    BY <1>0 DEF Pass, RetentionTypeOK
  <2> QED
    BY <1>1, <2>1, <2>2 DEF BeginPass, RetentionTypeOK, Pass
<1>2. CASE Attempt(o)
  <2>1. pruneLog' \in [WorkspaceRuns -> Seq(Entry)]
    BY <1>2, LogForType DEF Attempt, Outcomes
  <2>2. passes' \in [Operators -> Pass]
    BY <1>2 DEF Attempt, RetentionTypeOK, Pass
  <2> QED
    BY <1>2, <2>1, <2>2 DEF Attempt, RetentionTypeOK, Entry, Pass
<1>3. CASE Skip(o) \/ LosePass(o)
  <2>1. passes' \in [Operators -> Pass]
    BY <1>0, <1>3 DEF Skip, LosePass, RetentionTypeOK, Pass
  <2> QED
    BY <1>3, <2>1 DEF Skip, LosePass, RetentionTypeOK, Pass
<1>4. CASE RemoveTree(o)
  <2>1. PICK found \in BOOLEAN, left \in RemovalLeaves :
           /\ workspace' = [workspace EXCEPT ![passes[o].run] =
                IF Guard(passes[o].run, passes[o].cutoff) /\ found THEN left ELSE @]
           /\ passes' = [passes EXCEPT ![o].at = "removed",
                ![o].done = Guard(passes[o].run, passes[o].cutoff) /\ found /\ left = "gone"]
    BY <1>4, Zenon DEF RemoveTree
  <2>2. workspace' \in [WorkspaceRuns -> Directories]
    BY <2>1 DEF RetentionTypeOK, RemovalLeaves, Directories
  <2>3. PICK b \in BOOLEAN : passes' = [passes EXCEPT ![o].at = "removed", ![o].done = b]
    <3>1. (Guard(passes[o].run, passes[o].cutoff) /\ found /\ left = "gone") \in BOOLEAN
      OBVIOUS
    <3> QED
      BY <2>1, <3>1, Zenon
  <2>4. passes' \in [Operators -> Pass]
    BY <2>3 DEF RetentionTypeOK, Pass
  <2>5. lock' = o /\ UNCHANGED <<today, runs, pruneLog>>
    BY <1>4, Zenon DEF RemoveTree
  <2> QED
    BY <2>2, <2>4, <2>5 DEF RetentionTypeOK, Pass
<1>5. CASE Report(o)
  <2>1. pruneLog' \in [WorkspaceRuns -> Seq(Entry)]
    BY <1>5, LogForType DEF Report, Outcomes
  <2>2. passes' \in [Operators -> Pass]
    BY <1>0, <1>5 DEF Report, RetentionTypeOK, Pass
  <2> QED
    BY <1>5, <2>1, <2>2 DEF Report, RetentionTypeOK, Entry, Pass
<1> QED
  BY <1>1, <1>2, <1>3, <1>4, <1>5 DEF OperatorStep

LEMMA RetentionStepType ==
    ASSUME RetentionTypeOK, [RetentionNext]_retentionVars
    PROVE  RetentionTypeOK'
<1>1. CASE Tick
  <2>1. today' \in 0 .. LastDay
    BY <1>1, RetentionAssumption DEF Tick, RetentionTypeOK
  <2> QED
    BY <1>1, <2>1 DEF Tick, RetentionTypeOK
<1>2. ASSUME NEW r \in WorkspaceRuns, GatewayStep(r)
      PROVE  RetentionTypeOK'
  BY <1>2, CopyType, HandlerType DEF GatewayStep, HandlerWrites
<1>3. CASE UNCHANGED retentionVars
  BY <1>3 DEF retentionVars, RetentionTypeOK
<1> QED
  BY <1>1, <1>2, <1>3, ResetType, OperatorType DEF RetentionNext

\* Rows, directories, passes and the records of pruning keep their types.
THEOREM RetentionTypeCorrect == RetentionSpec => []RetentionTypeOK
BY RetentionInitType, RetentionStepType, PTL DEF RetentionSpec

-----------------------------------------------------------------------------
(* A workspace that is in use. *)

\* Only a stored run executes, and what executes or may has its workspace.
UseInv ==
    \A r \in WorkspaceRuns :
        /\ ~Stored(r) => ~runs[r].approved /\ ~runs[r].executing
        /\ runs[r].row = "open" \/ runs[r].approved \/ runs[r].executing
             => workspace[r] = "ready"

LEMMA UseInit == RetentionInit => UseInv
BY DEF RetentionInit, UseInv, Stored

\* What a handler's write leaves alone.
LEMMA WriteKeeps ==
    ASSUME RetentionTypeOK, NEW r \in WorkspaceRuns, NEW f, GatewayWrites(r, f)
    PROVE  /\ runs'[r] = f
           /\ \A x \in WorkspaceRuns : x # r => runs'[x] = runs[x]
           /\ UNCHANGED <<today, workspace, pruneLog, passes, lock>>
BY DEF RetentionTypeOK, GatewayWrites

LEMMA UseHandler ==
    ASSUME RetentionTypeOK, UseInv, NEW r \in WorkspaceRuns, HandlerWrites(r)
    PROVE  UseInv'
<1>1. PICK f : Lawful(r, f) /\ GatewayWrites(r, f)
  BY HandlerRow
<1>2. /\ runs'[r] = f
      /\ \A x \in WorkspaceRuns : x # r => runs'[x] = runs[x]
      /\ workspace' = workspace
  BY <1>1, WriteKeeps
<1> QED
  BY <1>1, <1>2 DEF UseInv, Lawful, Stored

\* The steps that copy a workspace concern a run that is not stored.
LEMMA CopyKeeps ==
    ASSUME RetentionTypeOK, NEW r \in WorkspaceRuns,
           StageWorkspace(r) \/ PlaceWorkspace(r) \/ LoseCreation(r)
    PROVE  /\ runs[r].row \in {"none", "creating"} /\ runs'[r].row \in {"creating", "erased"}
           /\ runs'[r].approved = runs[r].approved /\ runs'[r].executing = runs[r].executing
           /\ \A x \in WorkspaceRuns : x # r =>
                runs'[x] = runs[x] /\ workspace'[x] = workspace[x]
           /\ UNCHANGED <<today, pruneLog, passes, lock>>
<1>1. CASE StageWorkspace(r)
  BY <1>1 DEF StageWorkspace, RetentionTypeOK
<1>2. CASE PlaceWorkspace(r)
  BY <1>2 DEF PlaceWorkspace, RetentionTypeOK
<1>3. CASE LoseCreation(r)
  <2>1. /\ runs' = [runs EXCEPT ![r].row = "erased"] /\ runs[r].row = "creating"
        /\ UNCHANGED <<today, pruneLog, passes, lock>>
        /\ workspace' = workspace \/ workspace' = [workspace EXCEPT ![r] = "none"]
    BY <1>3 DEF LoseCreation
  <2> QED
    BY <2>1 DEF RetentionTypeOK
<1> QED
  BY <1>1, <1>2, <1>3

\* A pass changes a workspace only when it removes the tree of a run that its
\* guard finds settled.
LEMMA OperatorKeeps ==
    ASSUME RetentionTypeOK, NEW o \in Operators, OperatorStep(o),
           NEW r \in WorkspaceRuns
    PROVE  /\ UNCHANGED <<today, runs>>
           /\ \/ workspace'[r] = workspace[r]
              \/ /\ RemoveTree(o) /\ passes[o].run = r /\ Guard(r, passes[o].cutoff)
                 /\ workspace[r] \in {"ready", "partial"}
                 /\ workspace'[r] \in RemovalLeaves
<1>1. CASE RemoveTree(o)
  <2>1. PICK found \in BOOLEAN, left \in RemovalLeaves :
           /\ Inspected(passes[o].run, found)
           /\ workspace' = [workspace EXCEPT ![passes[o].run] =
                IF Guard(passes[o].run, passes[o].cutoff) /\ found THEN left ELSE @]
    BY <1>1, Zenon DEF RemoveTree
  <2>2. UNCHANGED <<today, runs>>
    BY <1>1, Zenon DEF RemoveTree
  <2> QED
    BY <1>1, <2>1, <2>2 DEF RetentionTypeOK, Inspected
<1>2. CASE ~RemoveTree(o)
  BY <1>2 DEF OperatorStep, BeginPass, Attempt, Skip, Report, LosePass
<1> QED
  BY <1>1, <1>2

\* A reset erases what is stored, and nothing of it executes.
LEMMA ResetKeeps ==
    ASSUME RetentionTypeOK, ResetDemo
    PROVE  /\ \A r \in WorkspaceRuns : Stored(r) =>
                /\ ~runs[r].approved /\ ~runs[r].executing
                /\ runs'[r].row = "erased"
                /\ runs'[r].approved = runs[r].approved
                /\ runs'[r].executing = runs[r].executing
           /\ \A r \in WorkspaceRuns : ~Stored(r) =>
                runs'[r] = runs[r] /\ pruneLog'[r] = pruneLog[r]
           /\ UNCHANGED <<today, workspace, passes, lock>>
<1>1. \A r \in WorkspaceRuns : runs[r] \in RunRow
  BY DEF RetentionTypeOK, RunRow
<1>2. ASSUME NEW r \in WorkspaceRuns, Stored(r)
      PROVE  /\ runs'[r].row = "erased"
             /\ runs'[r].approved = runs[r].approved
             /\ runs'[r].executing = runs[r].executing
  <2>1. runs'[r] = [runs[r] EXCEPT !.row = "erased"]
    BY <1>2 DEF ResetDemo
  <2> QED
    BY <1>1, <2>1 DEF RunRow
<1> QED
  BY <1>2 DEF ResetDemo

LEMMA UseStep ==
    ASSUME RetentionTypeOK, UseInv, [RetentionNext]_retentionVars
    PROVE  UseInv'
<1>1. CASE Tick
  BY <1>1 DEF Tick, UseInv, Stored
<1>2. ASSUME NEW r \in WorkspaceRuns, GatewayStep(r)
      PROVE  UseInv'
  <2>1. CASE HandlerWrites(r)
    BY <2>1, UseHandler
  <2>2. CASE StageWorkspace(r) \/ PlaceWorkspace(r) \/ LoseCreation(r)
    <3>1. /\ runs[r].row \in {"none", "creating"} /\ runs'[r].row \in {"creating", "erased"}
          /\ runs'[r].approved = runs[r].approved /\ runs'[r].executing = runs[r].executing
          /\ \A x \in WorkspaceRuns : x # r =>
               runs'[x] = runs[x] /\ workspace'[x] = workspace[x]
      BY <2>2, CopyKeeps
    <3>2. ~runs'[r].approved /\ ~runs'[r].executing
      BY <3>1 DEF UseInv, Stored
    <3> QED
      BY <3>1, <3>2 DEF UseInv, Stored
  <2> QED
    BY <1>2, <2>1, <2>2 DEF GatewayStep, HandlerWrites
<1>3. CASE ResetDemo
  BY <1>3, ResetKeeps DEF UseInv, Stored
<1>4. ASSUME NEW o \in Operators, OperatorStep(o)
      PROVE  UseInv'
  BY <1>4, OperatorKeeps DEF UseInv, Stored, Guard
<1>5. CASE UNCHANGED retentionVars
  BY <1>5 DEF retentionVars, UseInv, Stored
<1> QED
  BY <1>1, <1>2, <1>3, <1>4, <1>5 DEF RetentionNext

\* Whatever executes, or can still start to, has its run's whole workspace.
THEOREM WorkspaceStays == RetentionSpec => []WorkspaceOutlivesUse
<1>1. UseInv => WorkspaceOutlivesUse
  BY DEF UseInv, WorkspaceOutlivesUse
<1> QED
  BY <1>1, UseInit, UseStep, RetentionTypeCorrect, PTL DEF RetentionSpec

-----------------------------------------------------------------------------
(* What is removed. *)

\* A pass is about a run, and keeps the cutoff of the day it began.
PassInv ==
    \A o \in Operators :
        passes[o].at # "idle" =>
            passes[o].run \in WorkspaceRuns /\ passes[o].cutoff <= today - Window

LEMMA PassInit == RetentionInit => PassInv
BY DEF RetentionInit, PassInv, Idle

\* What each step of a pass makes of the pass, and of no other.
LEMMA PassKeeps ==
    ASSUME RetentionTypeOK, NEW o \in Operators, OperatorStep(o)
    PROVE  /\ \A x \in Operators : x # o => passes'[x] = passes[x]
           /\ \/ BeginPass(o) \/ passes'[o] = Idle
              \/ /\ passes'[o].run = passes[o].run /\ passes'[o].cutoff = passes[o].cutoff
                 /\ \/ Attempt(o) /\ passes[o].at = "listed" /\ passes'[o].at = "attempted"
                    \/ /\ RemoveTree(o) /\ passes[o].at = "attempted"
                       /\ passes'[o].at = "removed"
<1>1. CASE BeginPass(o)
  BY <1>1 DEF BeginPass, RetentionTypeOK
<1>2. CASE Attempt(o)
  BY <1>2 DEF Attempt, RetentionTypeOK
<1>3. CASE Skip(o) \/ Report(o) \/ LosePass(o)
  BY <1>3 DEF Skip, Report, LosePass, RetentionTypeOK
<1>4. CASE RemoveTree(o)
  <2>1. PICK done : passes' = [passes EXCEPT ![o].at = "removed", ![o].done = done]
    BY <1>4, Zenon DEF RemoveTree
  <2>2. passes[o].at = "attempted"
    BY <1>4, Zenon DEF RemoveTree
  <2> QED
    BY <1>4, <2>1, <2>2 DEF RetentionTypeOK
<1> QED
  BY <1>1, <1>2, <1>3, <1>4 DEF OperatorStep

\* No step of the gateway touches a pass.
LEMMA GatewayKeepsPasses ==
    ASSUME RetentionTypeOK, NEW r \in WorkspaceRuns, GatewayStep(r)
    PROVE  UNCHANGED <<today, pruneLog, passes, lock>>
<1>1. CASE HandlerWrites(r)
  BY <1>1, HandlerRow, WriteKeeps
<1> QED
  BY <1>1, CopyKeeps DEF GatewayStep, HandlerWrites

LEMMA PassStep ==
    ASSUME RetentionTypeOK, PassInv, [RetentionNext]_retentionVars
    PROVE  PassInv'
<1> USE RetentionAssumption
<1>1. CASE Tick
  BY <1>1 DEF Tick, PassInv, RetentionTypeOK
<1>2. CASE ResetDemo
  BY <1>2 DEF ResetDemo, PassInv
<1>3. ASSUME NEW r \in WorkspaceRuns, GatewayStep(r)
      PROVE  PassInv'
  BY <1>3, GatewayKeepsPasses DEF PassInv
<1>4. ASSUME NEW o \in Operators, OperatorStep(o)
      PROVE  PassInv'
  <2>1. today' = today
    BY <1>4 DEF OperatorStep, BeginPass, Attempt, Skip, RemoveTree, Report, LosePass
  <2>2. CASE BeginPass(o)
    BY <2>1, <2>2 DEF BeginPass, PassInv, RetentionTypeOK
  <2> QED
    BY <1>4, <2>1, <2>2, PassKeeps DEF PassInv, Idle
<1>5. CASE UNCHANGED retentionVars
  BY <1>5 DEF retentionVars, PassInv
<1> QED
  BY <1>1, <1>2, <1>3, <1>4, <1>5 DEF RetentionNext

LEMMA RemovedIsSettled ==
    ASSUME RetentionTypeOK, PassInv, [RetentionNext]_retentionVars,
           NEW r \in WorkspaceRuns,
           workspace[r] = "ready", workspace'[r] \in {"partial", "gone"}
    PROVE  /\ runs[r].row = "closed"
           /\ ~runs[r].pending /\ ~runs[r].approved /\ ~runs[r].executing
           /\ today - runs[r].updated >= Window
<1>1. PICK o \in Operators : OperatorStep(o)
  <2>1. ~Tick /\ ~ResetDemo /\ ~UNCHANGED retentionVars
    BY DEF Tick, ResetDemo, retentionVars
  <2>2. ASSUME NEW x \in WorkspaceRuns, GatewayStep(x)
        PROVE  FALSE
    <3>1. CASE HandlerWrites(x)
      BY <3>1, HandlerRow, WriteKeeps
    <3>2. CASE StageWorkspace(x) \/ PlaceWorkspace(x) \/ LoseCreation(x)
      BY <3>2 DEF StageWorkspace, PlaceWorkspace, LoseCreation, RetentionTypeOK
    <3> QED
      BY <2>2, <3>1, <3>2 DEF GatewayStep, HandlerWrites
  <2> QED
    BY <2>1, <2>2 DEF RetentionNext
<1>2. /\ RemoveTree(o) /\ passes[o].run = r /\ Guard(r, passes[o].cutoff)
  BY <1>1, OperatorKeeps
<1>3. passes[o].cutoff <= today - Window /\ passes[o].cutoff \in Int
  BY <1>2 DEF RemoveTree, PassInv, RetentionTypeOK
<1>4. runs[r].updated \in Nat /\ today \in Nat
  BY RetentionAssumption DEF RetentionTypeOK
<1> QED
  BY <1>2, <1>3, <1>4, RetentionAssumption DEF Guard

\* A workspace is removed only from a run that is closed, has nothing open
\* and was left alone for the whole window, by the clock of the removal.
THEOREM SettledBeforeRemoval == RetentionSpec => OnlySettledIsRemoved
<1>1. RetentionTypeOK /\ PassInv /\ [RetentionNext]_retentionVars
        => [\A r \in WorkspaceRuns :
             workspace[r] = "ready" /\ workspace'[r] \in {"partial", "gone"}
               => /\ runs[r].row = "closed"
                  /\ ~runs[r].pending /\ ~runs[r].approved /\ ~runs[r].executing
                  /\ today - runs[r].updated >= Window]_retentionVars
  BY RemovedIsSettled
<1> QED
  BY <1>1, PassInit, PassStep, RetentionTypeCorrect, PTL
     DEF RetentionSpec, OnlySettledIsRemoved

-----------------------------------------------------------------------------
(* What is on record. *)

\* What a run's evidence can say of its pruning.
AttemptBy(s, o) == \E j \in 1 .. Len(s) : s[j].kind = "attempted" /\ s[j].by = o

Unpruned(s) == \A j \in 1 .. Len(s) : s[j].kind # "pruned"

\* A recorded removal happened once, after an attempt of the same operator.
SoundLog(s) ==
    /\ \A i, j \in 1 .. Len(s) : s[i].kind = "pruned" /\ s[j].kind = "pruned" => i = j
    /\ \A i \in 1 .. Len(s) : s[i].kind = "pruned" =>
         \E j \in 1 .. Len(s) : j < i /\ s[j].kind = "attempted" /\ s[j].by = s[i].by

\* What a record adds to that: a removal may be recorded after an attempt, and
\* once.
LEMMA Appended ==
    ASSUME NEW s \in Seq(Entry), NEW o \in Operators, NEW kind \in Outcomes,
           NEW t, t = Append(s, [kind |-> kind, by |-> o])
    PROVE  /\ \A x \in Operators : AttemptBy(s, x) => AttemptBy(t, x)
           /\ kind = "attempted" => AttemptBy(t, o)
           /\ kind # "pruned" /\ Unpruned(s) => Unpruned(t)
           /\ kind # "pruned" /\ ~Unpruned(s) => ~Unpruned(t)
           /\ kind # "pruned" /\ SoundLog(s) => SoundLog(t)
           /\ kind = "pruned" /\ SoundLog(s) /\ Unpruned(s) /\ AttemptBy(s, o)
                => SoundLog(t)
<1> USE DEF Outcomes
<1>1. /\ Len(s) \in Nat /\ Len(t) = Len(s) + 1
      /\ \A i \in 1 .. Len(s) : t[i] = s[i]
      /\ t[Len(t)] = [kind |-> kind, by |-> o]
  BY AppendProperties
<1>2. t[Len(t)].kind = kind /\ t[Len(t)].by = o
  BY <1>1
<1>3. \A x \in Operators : AttemptBy(s, x) => AttemptBy(t, x)
  BY <1>1 DEF AttemptBy
<1>4. kind = "attempted" => AttemptBy(t, o)
  BY <1>1, <1>2 DEF AttemptBy
<1>5. kind # "pruned" /\ Unpruned(s) => Unpruned(t)
  BY <1>1, <1>2 DEF Unpruned
<1>6. kind # "pruned" /\ ~Unpruned(s) => ~Unpruned(t)
  BY <1>1 DEF Unpruned
<1>7. kind # "pruned" /\ SoundLog(s) => SoundLog(t)
  <2> SUFFICES ASSUME kind # "pruned", SoundLog(s) PROVE SoundLog(t)
    OBVIOUS
  <2>1. \A i \in 1 .. Len(t) : t[i].kind = "pruned" => i \in 1 .. Len(s)
    BY <1>1, <1>2
  <2> QED
    BY <1>1, <2>1 DEF SoundLog
<1>8. kind = "pruned" /\ SoundLog(s) /\ Unpruned(s) /\ AttemptBy(s, o) => SoundLog(t)
  <2> SUFFICES ASSUME kind = "pruned", Unpruned(s), AttemptBy(s, o) PROVE SoundLog(t)
    OBVIOUS
  <2>1. \A i \in 1 .. Len(t) : t[i].kind = "pruned" => i = Len(t)
    BY <1>1 DEF Unpruned
  <2>2. PICK j \in 1 .. Len(s) : s[j].kind = "attempted" /\ s[j].by = o
    BY DEF AttemptBy
  <2>3. j \in 1 .. Len(t) /\ j < Len(t) /\ t[j].kind = "attempted" /\ t[j].by = t[Len(t)].by
    BY <1>1, <1>2, <2>2
  <2> QED
    BY <2>1, <2>3 DEF SoundLog
<1> QED
  BY <1>3, <1>4, <1>5, <1>6, <1>7, <1>8

\* Before its row is stored a run has no record and no pass is about it.
Untouched ==
    \A r \in WorkspaceRuns : runs[r].row \in {"none", "creating"} =>
        /\ pruneLog[r] = <<>>
        /\ \A o \in Operators : passes[o].at # "idle" => passes[o].run # r

\* A pass that removed something holds the lock; it has its attempt on record,
\* and when it removed everything nobody has recorded that yet.
PassRecords(o) ==
    LET r == passes[o].run
    IN /\ passes[o].at = "removed" => lock = o
       /\ passes[o].at \in {"attempted", "removed"} /\ Stored(r)
            => AttemptBy(pruneLog[r], o)
       /\ passes[o].at = "removed" /\ passes[o].done =>
            workspace[r] = "gone" /\ (Stored(r) => Unpruned(pruneLog[r]))

RunRecords(r) ==
    Stored(r) =>
        /\ workspace[r] \in {"partial", "gone"} =>
             \E o \in Operators : AttemptBy(pruneLog[r], o)
        /\ ~Unpruned(pruneLog[r]) => workspace[r] = "gone"
        /\ SoundLog(pruneLog[r])

RecordInv ==
    /\ Untouched
    /\ \A o \in Operators : PassRecords(o)
    /\ \A r \in WorkspaceRuns : RunRecords(r)

LEMMA RecordInit == RetentionInit => RecordInv
BY DEF RetentionInit, RecordInv, Untouched, PassRecords, RunRecords, Stored, Idle

LEMMA RecordImplies == RetentionTypeOK /\ RecordInv => PruningIsOnRecord
<1> SUFFICES ASSUME RetentionTypeOK, RecordInv, NEW r \in WorkspaceRuns, Stored(r)
             PROVE  /\ workspace[r] \in {"partial", "gone"} => Recorded(r, "attempted") # {}
                    /\ Recorded(r, "pruned") # {} => workspace[r] = "gone"
                    /\ \A i, j \in Recorded(r, "pruned") : i = j
                    /\ \A i \in Recorded(r, "pruned") : \E j \in Recorded(r, "attempted") :
                         j < i /\ pruneLog[r][j].by = pruneLog[r][i].by
  BY DEF PruningIsOnRecord
<1>1. DOMAIN pruneLog[r] = 1 .. Len(pruneLog[r])
  BY LenProperties DEF RetentionTypeOK
<1> QED
  BY <1>1 DEF RecordInv, RunRecords, Recorded, AttemptBy, Unpruned, SoundLog

\* The gateway stores only runs no pass knows, and erases what it resets.
LEMMA RecordHandler ==
    ASSUME RetentionTypeOK, PassInv, RecordInv, NEW r \in WorkspaceRuns, HandlerWrites(r)
    PROVE  RecordInv'
<1>1. PICK f : Lawful(r, f) /\ GatewayWrites(r, f)
  BY HandlerRow
<1>2. /\ runs'[r] = f
      /\ \A x \in WorkspaceRuns : x # r => runs'[x] = runs[x]
      /\ UNCHANGED <<workspace, pruneLog, passes, lock>>
  BY <1>1, WriteKeeps
<1>3. CASE runs[r].row = "creating" /\ f.row = "open" /\ workspace[r] = "ready"
  <2>1. pruneLog[r] = <<>> /\ \A o \in Operators : passes[o].at # "idle" => passes[o].run # r
    BY <1>3 DEF RecordInv, Untouched
  <2>2. Untouched'
    BY <1>2, <1>3 DEF RecordInv, Untouched
  <2>3. ASSUME NEW o \in Operators
        PROVE  PassRecords(o)'
    <3>1. CASE passes[o].at = "idle"
      BY <1>2, <3>1 DEF PassRecords
    <3>2. CASE passes[o].at # "idle"
      <4>1. passes[o].run \in WorkspaceRuns /\ passes[o].run # r
        BY <2>1, <3>2 DEF PassInv
      <4> QED
        BY <1>2, <4>1 DEF RecordInv, PassRecords, Stored
    <3> QED
      BY <3>1, <3>2
  <2>4. RunRecords(r)'
    BY <1>2, <1>3, <2>1 DEF RunRecords, Unpruned, SoundLog
  <2>5. \A x \in WorkspaceRuns : x # r => RunRecords(x)'
    BY <1>2 DEF RecordInv, RunRecords, Stored
  <2> QED
    BY <2>2, <2>3, <2>4, <2>5 DEF RecordInv
<1>4. CASE Stored(r)' = Stored(r) /\ (runs'[r].row \in {"none", "creating"} => runs'[r].row = runs[r].row)
  <2>1. \A x \in WorkspaceRuns : Stored(x)' = Stored(x)
    BY <1>2, <1>4 DEF Stored
  <2>2. Untouched'
    BY <1>2, <1>4 DEF RecordInv, Untouched
  <2>3. ASSUME NEW o \in Operators
        PROVE  PassRecords(o)'
    <3>1. CASE passes[o].at = "idle"
      BY <1>2, <3>1 DEF PassRecords
    <3>2. CASE passes[o].at # "idle"
      <4>1. passes[o].run \in WorkspaceRuns
        BY <3>2 DEF PassInv
      <4> QED
        BY <1>2, <2>1, <4>1 DEF RecordInv, PassRecords
    <3> QED
      BY <3>1, <3>2
  <2>4. \A x \in WorkspaceRuns : RunRecords(x)'
    BY <1>2, <2>1 DEF RecordInv, RunRecords
  <2> QED
    BY <2>2, <2>3, <2>4 DEF RecordInv
<1> QED
  BY <1>1, <1>2, <1>3, <1>4 DEF Lawful, Stored

LEMMA RecordCopy ==
    ASSUME RetentionTypeOK, PassInv, RecordInv, NEW r \in WorkspaceRuns,
           StageWorkspace(r) \/ PlaceWorkspace(r) \/ LoseCreation(r)
    PROVE  RecordInv'
<1>1. /\ runs[r].row \in {"none", "creating"} /\ runs'[r].row \in {"creating", "erased"}
      /\ \A x \in WorkspaceRuns : x # r =>
           runs'[x] = runs[x] /\ workspace'[x] = workspace[x]
      /\ UNCHANGED <<pruneLog, passes, lock>>
  BY CopyKeeps
<1>2. pruneLog[r] = <<>> /\ \A o \in Operators : passes[o].at # "idle" => passes[o].run # r
  BY <1>1 DEF RecordInv, Untouched
<1>3. Untouched'
  BY <1>1, <1>2 DEF RecordInv, Untouched
<1>4. ASSUME NEW o \in Operators, passes[o].at # "idle"
      PROVE  PassRecords(o)'
  <2>1. passes[o].run \in WorkspaceRuns /\ passes[o].run # r
    BY <1>2, <1>4 DEF PassInv
  <2> QED
    BY <1>1, <2>1 DEF RecordInv, PassRecords, Stored
<1>5. ASSUME NEW o \in Operators, passes[o].at = "idle"
      PROVE  PassRecords(o)'
  BY <1>1, <1>5 DEF PassRecords
<1>6. RunRecords(r)'
  BY <1>1 DEF RunRecords, Stored
<1>7. \A x \in WorkspaceRuns : x # r => RunRecords(x)'
  BY <1>1 DEF RecordInv, RunRecords, Stored
<1> QED
  BY <1>3, <1>4, <1>5, <1>6, <1>7 DEF RecordInv

LEMMA RecordReset ==
    ASSUME RetentionTypeOK, PassInv, RecordInv, ResetDemo
    PROVE  RecordInv'
<1>1. /\ \A r \in WorkspaceRuns : Stored(r) => runs'[r].row = "erased"
      /\ \A r \in WorkspaceRuns : ~Stored(r) =>
           runs'[r] = runs[r] /\ pruneLog'[r] = pruneLog[r]
      /\ UNCHANGED <<workspace, passes, lock>>
  BY ResetKeeps
<1>3. \A r \in WorkspaceRuns : ~Stored(r)'
  BY <1>1 DEF Stored
<1>4. Untouched'
  BY <1>1 DEF RecordInv, Untouched, Stored
<1>5. \A o \in Operators : PassRecords(o)'
  BY <1>1, <1>3 DEF RecordInv, PassRecords, PassInv
<1>6. \A r \in WorkspaceRuns : RunRecords(r)'
  BY <1>3 DEF RunRecords
<1> QED
  BY <1>4, <1>5, <1>6 DEF RecordInv

\* A record of one pass leaves the other runs' evidence alone.
LEMMA LogForKeeps ==
    ASSUME RetentionTypeOK, NEW r \in WorkspaceRuns, NEW o \in Operators,
           NEW kind \in Outcomes, pruneLog' = LogFor(r, kind, o)
    PROVE  /\ pruneLog'[r] = Append(pruneLog[r], [kind |-> kind, by |-> o])
           /\ \A x \in WorkspaceRuns : x # r => pruneLog'[x] = pruneLog[x]
           /\ pruneLog[r] \in Seq(Entry)
BY DEF RetentionTypeOK, LogFor, Entry

LEMMA RecordBegin ==
    ASSUME RetentionTypeOK, RecordInv, NEW o \in Operators, BeginPass(o)
    PROVE  RecordInv'
<1>1. PICK r \in WorkspaceRuns :
         /\ Stored(r)
         /\ passes' = [passes EXCEPT ![o] =
              [at |-> "listed", run |-> r, cutoff |-> today - Window, done |-> FALSE]]
  BY DEF BeginPass
<1>2. /\ passes'[o].at = "listed" /\ passes'[o].run = r
      /\ \A x \in Operators : x # o => passes'[x] = passes[x]
      /\ UNCHANGED <<runs, workspace, pruneLog, lock>>
  BY <1>1 DEF BeginPass, RetentionTypeOK
<1>3. Untouched'
  BY <1>1, <1>2 DEF RecordInv, Untouched, Stored
<1>4. PassRecords(o)'
  BY <1>2 DEF PassRecords
<1>5. \A x \in Operators : x # o => PassRecords(x)'
  BY <1>2 DEF RecordInv, PassRecords, Stored
<1>6. \A x \in WorkspaceRuns : RunRecords(x)'
  BY <1>2 DEF RecordInv, RunRecords, Stored
<1> QED
  BY <1>3, <1>4, <1>5, <1>6 DEF RecordInv

LEMMA RecordEnd ==
    ASSUME RetentionTypeOK, RecordInv, NEW o \in Operators, Skip(o) \/ LosePass(o)
    PROVE  RecordInv'
<1>1. /\ passes'[o] = Idle
      /\ \A x \in Operators : x # o => passes'[x] = passes[x] /\ (lock = x => lock' = x)
      /\ UNCHANGED <<runs, workspace, pruneLog>>
  BY DEF Skip, LosePass, RetentionTypeOK
<1>2. Untouched'
  BY <1>1 DEF RecordInv, Untouched, Idle
<1>3. PassRecords(o)'
  BY <1>1 DEF PassRecords, Idle
<1>4. \A x \in Operators : x # o => PassRecords(x)'
  BY <1>1 DEF RecordInv, PassRecords, Stored
<1>5. \A x \in WorkspaceRuns : RunRecords(x)'
  BY <1>1 DEF RecordInv, RunRecords, Stored
<1> QED
  BY <1>2, <1>3, <1>4, <1>5 DEF RecordInv

LEMMA RecordAttempt ==
    ASSUME RetentionTypeOK, PassInv, RecordInv, NEW o \in Operators, Attempt(o),
           NEW r \in WorkspaceRuns, passes[o].run = r
    PROVE  RecordInv'
<1>1. /\ runs[r].row = "closed" /\ lock = Nobody
      /\ passes'[o].at = "attempted" /\ passes'[o].run = r
      /\ \A x \in Operators : x # o => passes'[x] = passes[x]
      /\ UNCHANGED <<runs, workspace, lock>>
  BY DEF Attempt, Guard, Unlocked, RetentionTypeOK
<1>2. /\ pruneLog'[r] = Append(pruneLog[r], [kind |-> "attempted", by |-> o])
      /\ \A x \in WorkspaceRuns : x # r => pruneLog'[x] = pruneLog[x]
      /\ pruneLog[r] \in Seq(Entry)
  BY <1>1, LogForKeeps DEF Attempt, Outcomes
<1>3. /\ \A x \in Operators : AttemptBy(pruneLog[r], x) => AttemptBy(pruneLog'[r], x)
      /\ AttemptBy(pruneLog'[r], o)
      /\ Unpruned(pruneLog[r]) <=> Unpruned(pruneLog'[r])
      /\ SoundLog(pruneLog[r]) => SoundLog(pruneLog'[r])
  BY <1>2, Appended DEF Outcomes
<1>4. Untouched'
  BY <1>1, <1>2 DEF RecordInv, Untouched
<1>5. PassRecords(o)'
  BY <1>1, <1>3 DEF PassRecords
<1>6. ASSUME NEW x \in Operators, x # o
      PROVE  PassRecords(x)'
  <2>1. passes[x].at # "removed"
    BY <1>1, RetentionAssumption DEF RecordInv, PassRecords
  <2>2. CASE passes[x].at # "idle"
    <3>1. passes[x].run \in WorkspaceRuns
      BY <2>2 DEF PassInv
    <3>2. Stored(passes[x].run) /\ passes[x].at = "attempted"
             => AttemptBy(pruneLog'[passes[x].run], x)
      BY <1>2, <1>3, <3>1 DEF RecordInv, PassRecords
    <3> QED
      BY <1>1, <1>6, <2>1, <3>2 DEF PassRecords, Stored
  <2>3. CASE passes[x].at = "idle"
    BY <1>1, <1>6, <2>3 DEF PassRecords
  <2> QED
    BY <2>2, <2>3
<1>7. RunRecords(r)'
  <2>1. RunRecords(r)
    BY <1>1 DEF RecordInv
  <2> QED
    BY <1>1, <1>3, <2>1 DEF RunRecords, Stored
<1>8. \A x \in WorkspaceRuns : x # r => RunRecords(x)'
  BY <1>1, <1>2 DEF RecordInv, RunRecords, Stored
<1> QED
  BY <1>4, <1>5, <1>6, <1>7, <1>8 DEF RecordInv

LEMMA RecordRemove ==
    ASSUME RetentionTypeOK, RecordInv, NEW o \in Operators, RemoveTree(o),
           NEW r \in WorkspaceRuns, passes[o].run = r
    PROVE  RecordInv'
<1>1. PICK found \in BOOLEAN, left \in RemovalLeaves, done \in BOOLEAN :
         /\ Inspected(r, found)
         /\ done <=> Guard(r, passes[o].cutoff) /\ found /\ left = "gone"
         /\ workspace' = [workspace EXCEPT ![r] =
              IF Guard(r, passes[o].cutoff) /\ found THEN left ELSE @]
         /\ passes' = [passes EXCEPT ![o].at = "removed", ![o].done = done]
  <2>1. PICK found \in BOOLEAN, left \in RemovalLeaves :
           /\ Inspected(r, found)
           /\ workspace' = [workspace EXCEPT ![r] =
                IF Guard(r, passes[o].cutoff) /\ found THEN left ELSE @]
           /\ passes' = [passes EXCEPT ![o].at = "removed",
                ![o].done = Guard(r, passes[o].cutoff) /\ found /\ left = "gone"]
    BY Zenon DEF RemoveTree
  <2>2. (Guard(r, passes[o].cutoff) /\ found /\ left = "gone") \in BOOLEAN
    OBVIOUS
  <2> QED
    BY <2>1, <2>2, Zenon
<1>2. /\ lock = Nobody /\ lock' = o /\ passes[o].at = "attempted"
      /\ UNCHANGED <<runs, pruneLog>>
  BY Zenon DEF RemoveTree, Unlocked
<1>3. /\ passes'[o].at = "removed" /\ passes'[o].run = r /\ passes'[o].done = done
      /\ \A x \in Operators : x # o => passes'[x] = passes[x]
  BY <1>1 DEF RetentionTypeOK
<1>5. /\ \A x \in WorkspaceRuns : x # r => workspace'[x] = workspace[x]
      /\ workspace'[r] # workspace[r] => workspace[r] \in {"ready", "partial"}
      /\ done => workspace'[r] = "gone" /\ workspace[r] \in {"ready", "partial"}
  BY <1>1 DEF RetentionTypeOK, Inspected
<1>6. RunRecords(r) /\ PassRecords(o)
  BY DEF RecordInv
<1>7. Untouched'
  BY <1>2, <1>3 DEF RecordInv, Untouched
<1>8. Stored(r) => AttemptBy(pruneLog[r], o)
  BY <1>2, <1>6 DEF PassRecords
<1>9. PassRecords(o)'
  BY <1>2, <1>3, <1>5, <1>6, <1>8 DEF PassRecords, RunRecords, Stored
<1>10. ASSUME NEW x \in Operators, x # o
       PROVE  PassRecords(x)'
  <2>1. passes[x].at # "removed"
    BY <1>2, RetentionAssumption DEF RecordInv, PassRecords
  <2> QED
    BY <1>2, <1>3, <1>10, <2>1 DEF RecordInv, PassRecords, Stored
<1>11. RunRecords(r)'
  BY <1>2, <1>5, <1>6, <1>8 DEF RunRecords, Stored
<1>12. \A x \in WorkspaceRuns : x # r => RunRecords(x)'
  BY <1>2, <1>5 DEF RecordInv, RunRecords, Stored
<1> QED
  BY <1>7, <1>9, <1>10, <1>11, <1>12 DEF RecordInv

LEMMA RecordReport ==
    ASSUME RetentionTypeOK, PassInv, RecordInv, NEW o \in Operators, Report(o),
           NEW r \in WorkspaceRuns, passes[o].run = r
    PROVE  RecordInv'
<1> DEFINE kind == IF passes[o].done THEN "pruned" ELSE "failed"
<1>1. /\ passes[o].at = "removed" /\ Stored(r) /\ passes'[o] = Idle
      /\ \A x \in Operators : x # o => passes'[x] = passes[x]
      /\ UNCHANGED <<runs, workspace>>
  BY DEF Report, RetentionTypeOK
<1>2. /\ pruneLog'[r] = Append(pruneLog[r], [kind |-> kind, by |-> o])
      /\ \A x \in WorkspaceRuns : x # r => pruneLog'[x] = pruneLog[x]
      /\ pruneLog[r] \in Seq(Entry)
  BY LogForKeeps DEF Report, Outcomes
<1>3. /\ kind \in Outcomes /\ kind # "attempted"
      /\ kind = "pruned" <=> passes[o].done
  BY DEF Outcomes, RetentionTypeOK
<1> HIDE DEF kind
<1>4. RunRecords(r) /\ PassRecords(o)
  BY DEF RecordInv
<1>5. /\ AttemptBy(pruneLog[r], o)
      /\ kind = "pruned" => workspace[r] = "gone" /\ Unpruned(pruneLog[r])
      /\ SoundLog(pruneLog[r])
  BY <1>1, <1>3, <1>4 DEF PassRecords, RunRecords
<1>6. /\ \A x \in Operators : AttemptBy(pruneLog[r], x) => AttemptBy(pruneLog'[r], x)
      /\ kind # "pruned" /\ Unpruned(pruneLog[r]) => Unpruned(pruneLog'[r])
      /\ SoundLog(pruneLog'[r])
  BY <1>2, <1>3, <1>5, Appended
<1>7. Untouched'
  BY <1>1, <1>2 DEF RecordInv, Untouched, Stored, Idle
<1>8. PassRecords(o)'
  BY <1>1 DEF PassRecords, Idle
<1>9. ASSUME NEW x \in Operators, x # o
      PROVE  PassRecords(x)'
  <2>1. passes[x].at # "removed"
    BY <1>1, <1>4, <1>9 DEF RecordInv, PassRecords
  <2>2. CASE passes[x].at # "idle"
    <3>1. passes[x].run \in WorkspaceRuns
      BY <2>2 DEF PassInv
    <3>2. Stored(passes[x].run) /\ passes[x].at = "attempted"
             => AttemptBy(pruneLog'[passes[x].run], x)
      BY <1>2, <1>6, <3>1 DEF RecordInv, PassRecords
    <3> QED
      BY <1>1, <1>9, <2>1, <3>2 DEF PassRecords, Stored
  <2>3. CASE passes[x].at = "idle"
    BY <1>1, <1>9, <2>3 DEF PassRecords
  <2> QED
    BY <2>2, <2>3
<1>10. RunRecords(r)'
  BY <1>1, <1>4, <1>5, <1>6 DEF RunRecords, Stored
<1>11. \A x \in WorkspaceRuns : x # r => RunRecords(x)'
  BY <1>1, <1>2 DEF RecordInv, RunRecords, Stored
<1> QED
  BY <1>7, <1>8, <1>9, <1>10, <1>11 DEF RecordInv

LEMMA RecordStep ==
    ASSUME RetentionTypeOK, PassInv, RecordInv, [RetentionNext]_retentionVars
    PROVE  RecordInv'
<1>1. CASE Tick \/ UNCHANGED retentionVars
  BY <1>1 DEF Tick, retentionVars, RecordInv, Untouched, PassRecords, RunRecords, Stored
<1>2. ASSUME NEW r \in WorkspaceRuns, GatewayStep(r)
      PROVE  RecordInv'
  BY <1>2, RecordHandler, RecordCopy DEF GatewayStep, HandlerWrites
<1>3. ASSUME NEW o \in Operators, OperatorStep(o)
      PROVE  RecordInv'
  <2>1. CASE BeginPass(o) \/ Skip(o) \/ LosePass(o)
    BY <2>1, RecordBegin, RecordEnd
  <2>2. CASE Attempt(o) \/ RemoveTree(o) \/ Report(o)
    <3>1. passes[o].run \in WorkspaceRuns
      BY <2>2, Zenon DEF Attempt, RemoveTree, Report, PassInv
    <3> QED
      BY <2>2, <3>1, RecordAttempt, RecordRemove, RecordReport
  <2> QED
    BY <1>3, <2>1, <2>2 DEF OperatorStep
<1> QED
  BY <1>1, <1>2, <1>3, RecordReset DEF RetentionNext

\* The evidence of a stored run tells what befell its workspace, for any
\* number of operators, resets and deaths between their transactions.
THEOREM PruningRecorded == RetentionSpec => []PruningIsOnRecord
BY RecordInit, RecordStep, RecordImplies, PassInit, PassStep, RetentionTypeCorrect, PTL
   DEF RetentionSpec

-----------------------------------------------------------------------------
(* The event stream. *)

Links == {"unloaded", "loaded", "subscribed", "live", "lost", "polling"}

StreamTypeOK ==
    /\ stored \in Nat /\ initial \in Nat /\ lastEventId \in Nat
    /\ link \in Links
    /\ unpublished \in [Handlers -> Seq(Nat)]
    /\ queue \in Seq(Nat) /\ replay \in Seq(Nat)

\* Only what is stored is on its way or shown.
OnlyStored ==
    /\ InFlight \subseteq 1 .. stored
    /\ Range(queue) \subseteq 1 .. stored
    /\ Range(replay) \subseteq 1 .. stored
    /\ shown \subseteq 1 .. stored

\* What a cursor or a connection counts as sent is shown.
SentIsShown ==
    /\ link = "unloaded" => shown = {}
    /\ seen \subseteq shown
    /\ lastEventId = 0 \/ lastEventId \in shown
    /\ 1 .. initial \subseteq shown

Excused == dropped \cup overtaken \cup predating

\* What an open connection is going to bring without another publication.
ToCome ==
    Range(queue) \cup
    (IF link = "subscribed" THEN {e \in 1 .. stored : Cursor # 0 /\ Cursor < e}
                            ELSE Range(replay))

\* An open connection: every event is shown, excused, or comes.
ConnectionAccounts ==
    Connected => 1 .. stored \subseteq shown \cup Excused \cup InFlight \cup ToCome

\* Without one, what a new cursor would pass over is excused.
NothingBehind ==
    link \in {"loaded", "lost", "polling"} => Behind \subseteq Excused

StreamInvariant ==
    /\ StreamTypeOK /\ OnlyStored /\ SentIsShown
    /\ ConnectionAccounts /\ NothingBehind

-----------------------------------------------------------------------------
(* Sequences and their ranges. *)

LEMMA RangeEmpty == Range(<<>>) = {} /\ <<>> \in Seq(Nat)
BY DEF Range

LEMMA RangeAppend ==
    ASSUME NEW s \in Seq(Nat), NEW e \in Nat
    PROVE  Append(s, e) \in Seq(Nat) /\ Range(Append(s, e)) = Range(s) \cup {e}
<1>1. /\ Append(s, e) \in Seq(Nat) /\ Len(s) \in Nat
      /\ DOMAIN s = 1 .. Len(s) /\ DOMAIN Append(s, e) = 1 .. Len(s) + 1
      /\ Append(s, e)[Len(s) + 1] = e
      /\ \A i \in 1 .. Len(s) : Append(s, e)[i] = s[i]
  OBVIOUS
<1>2. 1 .. Len(s) + 1 = (1 .. Len(s)) \cup {Len(s) + 1}
  BY <1>1
<1> QED
  BY <1>1, <1>2 DEF Range

LEMMA RangeTail ==
    ASSUME NEW s \in Seq(Nat), s # <<>>
    PROVE  /\ Head(s) \in Nat /\ Tail(s) \in Seq(Nat)
           /\ Range(s) = {Head(s)} \cup Range(Tail(s))
<1>1. /\ Len(s) \in Nat \ {0} /\ Head(s) = s[1] /\ Head(s) \in Nat
      /\ Tail(s) \in Seq(Nat) /\ DOMAIN s = 1 .. Len(s)
      /\ DOMAIN Tail(s) = 1 .. Len(s) - 1
      /\ \A i \in 1 .. Len(s) - 1 : Tail(s)[i] = s[i + 1]
  OBVIOUS
<1>2. ASSUME NEW x \in Range(s) PROVE x \in {Head(s)} \cup Range(Tail(s))
  <2>1. PICK i \in 1 .. Len(s) : x = s[i]
    BY <1>1 DEF Range
  <2>2. CASE i = 1
    BY <1>1, <2>1, <2>2
  <2>3. CASE i # 1
    <3>1. i - 1 \in 1 .. Len(s) - 1 /\ (i - 1) + 1 = i
      BY <1>1, <2>3
    <3> QED
      BY <1>1, <2>1, <3>1 DEF Range
  <2> QED
    BY <2>2, <2>3
<1>3. ASSUME NEW i \in 1 .. Len(s) - 1 PROVE Tail(s)[i] \in Range(s)
  <2>1. i + 1 \in 1 .. Len(s)
    BY <1>1
  <2> QED
    BY <1>1, <2>1 DEF Range
<1>4. Head(s) \in Range(s)
  BY <1>1 DEF Range
<1> QED
  BY <1>1, <1>2, <1>3, <1>4 DEF Range

LEMMA StoredAfterRange ==
    ASSUME stored \in Nat, NEW c \in Nat
    PROVE  /\ StoredAfter(c) \in Seq(Nat)
           /\ Range(StoredAfter(c)) = {e \in 1 .. stored : c < e}
<1>1. StoredAfter(c) \in [1 .. stored - c -> Nat]
  BY DEF StoredAfter
<1>2. StoredAfter(c) \in Seq(Nat)
  <2>1. CASE c <= stored
    <3>1. stored - c \in Nat
      BY <2>1
    <3> QED
      BY <1>1, <3>1
  <2>2. CASE ~(c <= stored)
    <3>1. 1 .. stored - c = {} /\ 1 .. 0 = {}
      BY <2>2
    <3>2. StoredAfter(c) \in [1 .. 0 -> Nat]
      BY <1>1, <3>1
    <3> QED
      BY <3>2
  <2> QED
    BY <2>1, <2>2
<1>3. ASSUME NEW e \in 1 .. stored, c < e PROVE e \in Range(StoredAfter(c))
  <2>1. e - c \in 1 .. stored - c /\ c + (e - c) = e
    BY <1>3
  <2> QED
    BY <2>1 DEF StoredAfter, Range
<1>4. ASSUME NEW i \in 1 .. stored - c PROVE c + i \in 1 .. stored /\ c < c + i
  OBVIOUS
<1> QED
  BY <1>1, <1>2, <1>3, <1>4 DEF StoredAfter, Range

\* The newest of a set of stored events, 0 of none.
LEMMA NewestIsLast ==
    ASSUME NEW n \in Nat, NEW S \in SUBSET (1 .. n)
    PROVE  NewestOf(S) \in S \cup {0} /\ \A f \in S : f <= NewestOf(S)
<1> DEFINE Ages == {n - e : e \in S \cup {0}}
           Less == OpToRel(<, Nat)
<1>1. Ages \in SUBSET Nat /\ Ages # {}
  OBVIOUS
<1>2. PICK x \in Ages : \A y \in Ages : ~(<<y, x>> \in Less)
  BY <1>1, NatLessThanWellFounded, WFMin
<1>3. PICK e \in S \cup {0} : x = n - e
  BY <1>2
<1>4. ASSUME NEW f \in S PROVE f <= e
  <2>1. n - f \in Ages /\ n - f \in Nat /\ x \in Nat
    BY <1>1, <1>2
  <2>2. ~(n - f < x)
    BY <1>2, <2>1 DEF OpToRel
  <2> QED
    BY <1>3, <2>1, <2>2
<1> QED
  BY <1>3, <1>4 DEF NewestOf

-----------------------------------------------------------------------------
(* The steps. *)

LEMMA StreamInitFits == StreamInit => StreamInvariant
<1> SUFFICES ASSUME StreamInit PROVE StreamInvariant
  OBVIOUS
<1>1. InFlight = {}
  BY RangeEmpty DEF StreamInit, InFlight
<1>2. 1 .. 0 = {}
  OBVIOUS
<1> QED
  BY <1>1, <1>2, RangeEmpty
     DEF StreamInit, StreamInvariant, StreamTypeOK, Links, OnlyStored, SentIsShown,
         ConnectionAccounts, NothingBehind, Connected

LEMMA CommitKeeps ==
    ASSUME StreamInvariant, NEW h \in Handlers, Commit(h)
    PROVE  StreamInvariant'
<1>1. /\ stored \in Nat /\ stored' = stored + 1 /\ stored + 1 \in Nat
      /\ 1 .. stored + 1 = (1 .. stored) \cup {stored + 1}
  BY DEF StreamInvariant, StreamTypeOK, Commit
<1>2. /\ unpublished' \in [Handlers -> Seq(Nat)]
      /\ Range(unpublished'[h]) = Range(unpublished[h]) \cup {stored + 1}
      /\ \A k \in Handlers \ {h} : unpublished'[k] = unpublished[k]
  BY <1>1, RangeAppend DEF StreamInvariant, StreamTypeOK, Commit
<1>3. InFlight' = InFlight \cup {stored + 1}
  <2>1. \A k \in Handlers :
          Range(unpublished'[k]) = IF k = h THEN Range(unpublished[k]) \cup {stored + 1}
                                            ELSE Range(unpublished[k])
    BY <1>2
  <2>2. InFlight' = UNION {Range(unpublished'[k]) : k \in Handlers}
    BY DEF InFlight
  <2>3. \A x : x \in InFlight' <=> \E k \in Handlers : x \in Range(unpublished'[k])
    BY <2>2
  <2>4. \A x : x \in InFlight <=> \E k \in Handlers : x \in Range(unpublished[k])
    BY DEF InFlight
  <2> QED
    BY <2>1, <2>3, <2>4
<1>4. StreamTypeOK' /\ OnlyStored' /\ SentIsShown'
  BY <1>1, <1>2, <1>3
     DEF StreamInvariant, StreamTypeOK, OnlyStored, SentIsShown, Commit
<1>5. ConnectionAccounts'
  <2>1. ToCome \subseteq ToCome'
    BY <1>1 DEF ToCome, Cursor, Commit, StreamInvariant, StreamTypeOK
  <2>2. Excused' = Excused /\ shown' = shown /\ Connected' = Connected
    BY DEF Excused, Connected, Commit
  <2> QED
    BY <1>1, <1>3, <2>1, <2>2 DEF StreamInvariant, ConnectionAccounts
<1>6. NothingBehind'
  <2>1. Behind' = Behind
    <3>1. \A f \in shown : ~(stored + 1 < f)
      BY <1>1 DEF StreamInvariant, OnlyStored
    <3> QED
      BY <1>1, <3>1 DEF Behind, Commit
  <2> QED
    BY <2>1 DEF StreamInvariant, NothingBehind, Excused, Commit
<1> QED
  BY <1>4, <1>5, <1>6 DEF StreamInvariant

LEMMA PublishKeeps ==
    ASSUME StreamInvariant, NEW h \in Handlers, Publish(h)
    PROVE  StreamInvariant'
<1>1. PICK e : e = Head(unpublished[h])
  OBVIOUS
<1>2. /\ unpublished[h] \in Seq(Nat) /\ unpublished[h] # <<>>
      /\ unpublished' = [unpublished EXCEPT ![h] = Tail(@)]
  BY DEF StreamInvariant, StreamTypeOK, Publish
<1>3. /\ e \in Nat /\ Tail(unpublished[h]) \in Seq(Nat)
      /\ Range(unpublished[h]) = {e} \cup Range(Tail(unpublished[h]))
  BY <1>1, <1>2, RangeTail
<1>4. /\ unpublished' \in [Handlers -> Seq(Nat)]
      /\ unpublished'[h] = Tail(unpublished[h])
      /\ \A k \in Handlers \ {h} : unpublished'[k] = unpublished[k]
  BY <1>2, <1>3 DEF StreamInvariant, StreamTypeOK
<1>5. InFlight = {e} \cup InFlight'
  BY <1>3, <1>4 DEF InFlight
<1>6. /\ queue' = IF Connected /\ Len(queue) < QueueSize THEN Append(queue, e) ELSE queue
      /\ dropped' = IF Connected /\ ~(Len(queue) < QueueSize) THEN dropped \cup {e} ELSE dropped
  BY <1>1 DEF Publish
<1>7. UNCHANGED <<stored, link, replay, seen, lastEventId, initial, shown, overtaken, predating>>
  BY DEF Publish
<1>8. e \in 1 .. stored
  BY <1>5 DEF StreamInvariant, OnlyStored
<1>9. /\ Append(queue, e) \in Seq(Nat)
      /\ Range(Append(queue, e)) = Range(queue) \cup {e}
  BY <1>3, RangeAppend DEF StreamInvariant, StreamTypeOK
<1>10. StreamTypeOK' /\ OnlyStored' /\ SentIsShown'
  BY <1>4, <1>5, <1>6, <1>7, <1>8, <1>9
     DEF StreamInvariant, StreamTypeOK, OnlyStored, SentIsShown
<1>11. Connected' = Connected /\ Cursor' = Cursor /\ Behind' = Behind
  BY <1>7 DEF Connected, Cursor, Behind
<1>12. Excused \subseteq Excused'
  BY <1>6, <1>7 DEF Excused
<1>13. ConnectionAccounts'
  <2>1. Connected => e \in Range(queue') \/ e \in dropped'
    BY <1>6, <1>9
  <2>2. Range(queue) \subseteq Range(queue')
    BY <1>6, <1>9
  <2>3. ToCome \subseteq ToCome'
    BY <1>7, <1>11, <2>2 DEF ToCome
  <2>4. Connected => e \in ToCome' \cup Excused'
    BY <2>1 DEF ToCome, Excused
  <2> QED
    BY <1>5, <1>7, <1>11, <1>12, <2>3, <2>4 DEF StreamInvariant, ConnectionAccounts
<1>14. NothingBehind'
  BY <1>7, <1>11, <1>12 DEF StreamInvariant, NothingBehind
<1> QED
  BY <1>10, <1>13, <1>14 DEF StreamInvariant

LEMMA LoadKeeps == StreamInvariant /\ Load => StreamInvariant'
<1> SUFFICES ASSUME StreamInvariant, Load PROVE StreamInvariant'
  OBVIOUS
<1>1. /\ link = "unloaded" /\ link' = "loaded"
      /\ UNCHANGED <<stored, unpublished, queue, replay, seen, lastEventId,
                     dropped, overtaken, predating>>
  BY DEF Load
<1>2. \/ shown' = 1 .. stored /\ initial' = stored
      \/ shown' = {} /\ initial' = 0
  BY DEF Load
<1>3. InFlight' = InFlight /\ stored \in Nat /\ 1 .. 0 = {}
  BY <1>1 DEF InFlight, StreamInvariant, StreamTypeOK
<1>4. shown = {} /\ seen = {} /\ lastEventId = 0
  BY <1>1 DEF StreamInvariant, SentIsShown
<1>5. StreamTypeOK' /\ OnlyStored' /\ SentIsShown'
  BY <1>1, <1>2, <1>3, <1>4
     DEF StreamInvariant, StreamTypeOK, Links, OnlyStored, SentIsShown
<1>6. Behind' = {}
  BY <1>1, <1>2 DEF Behind
<1> QED
  BY <1>1, <1>5, <1>6 DEF StreamInvariant, ConnectionAccounts, Connected, NothingBehind

\* What a cursor passes over is shown or was overtaken.
LEMMA CursorPasses ==
    ASSUME StreamInvariant, NEW e \in 1 .. stored, Cursor # 0, e <= Cursor
    PROVE  e \in shown \cup Behind
<1>1. CASE lastEventId # 0
  <2>1. Cursor = lastEventId /\ lastEventId \in shown
    BY <1>1 DEF Cursor, StreamInvariant, SentIsShown
  <2>2. CASE e = Cursor
    BY <2>1, <2>2
  <2>3. CASE e # Cursor
    <3>1. e < Cursor /\ e \in Nat
      BY <2>1, <2>3 DEF StreamInvariant, StreamTypeOK
    <3> QED
      BY <2>1, <3>1 DEF Behind
  <2> QED
    BY <2>2, <2>3
<1>2. CASE lastEventId = 0
  <2>1. e \in 1 .. initial
    BY <1>2 DEF Cursor, StreamInvariant, StreamTypeOK
  <2> QED
    BY <2>1 DEF StreamInvariant, SentIsShown
<1> QED
  BY <1>1, <1>2

LEMMA SubscribeKeeps == StreamInvariant /\ Subscribe => StreamInvariant'
<1> SUFFICES ASSUME StreamInvariant, Subscribe PROVE StreamInvariant'
  OBVIOUS
<1>1. /\ link \in {"loaded", "lost"} /\ link' = "subscribed"
      /\ queue' = <<>> /\ replay' = <<>> /\ seen' = {}
      /\ predating' = IF Cursor = 0 THEN predating \cup (1 .. stored) ELSE predating
      /\ UNCHANGED <<stored, unpublished, lastEventId, initial, shown, dropped, overtaken>>
  BY DEF Subscribe
<1>2. /\ InFlight' = InFlight /\ Cursor' = Cursor
      /\ Cursor \in Nat /\ stored \in Nat
  BY <1>1 DEF InFlight, Cursor, StreamInvariant, StreamTypeOK
<1>3. StreamTypeOK' /\ OnlyStored' /\ SentIsShown'
  BY <1>1, <1>2, RangeEmpty
     DEF StreamInvariant, StreamTypeOK, Links, OnlyStored, SentIsShown
<1>4. ASSUME NEW e \in 1 .. stored
      PROVE  e \in shown' \cup Excused' \cup ToCome'
  <2>1. CASE Cursor = 0
    BY <1>1, <2>1 DEF Excused
  <2>2. CASE Cursor # 0 /\ Cursor < e
    BY <1>1, <1>2, <2>2 DEF ToCome
  <2>3. CASE Cursor # 0 /\ e <= Cursor
    <3>1. e \in shown \cup Behind
      BY <2>3, CursorPasses
    <3>2. Behind \subseteq Excused
      BY <1>1 DEF StreamInvariant, NothingBehind
    <3> QED
      BY <1>1, <2>3, <3>1, <3>2 DEF Excused
  <2> QED
    BY <1>2, <2>1, <2>2, <2>3
<1> QED
  BY <1>1, <1>3, <1>4 DEF StreamInvariant, ConnectionAccounts, NothingBehind

LEMMA ReadStoredKeeps == StreamInvariant /\ ReadStored => StreamInvariant'
<1> SUFFICES ASSUME StreamInvariant, ReadStored PROVE StreamInvariant'
  OBVIOUS
<1>1. /\ link = "subscribed" /\ link' = "live"
      /\ replay' = IF Cursor = 0 THEN <<>> ELSE StoredAfter(Cursor)
      /\ UNCHANGED <<stored, unpublished, queue, seen, lastEventId, initial, shown,
                     dropped, overtaken, predating>>
  BY DEF ReadStored
<1>2. InFlight' = InFlight /\ Cursor \in Nat /\ stored \in Nat
  BY <1>1 DEF InFlight, Cursor, StreamInvariant, StreamTypeOK
<1>3. /\ replay' \in Seq(Nat)
      /\ Range(replay') = {e \in 1 .. stored : Cursor # 0 /\ Cursor < e}
  BY <1>1, <1>2, RangeEmpty, StoredAfterRange
<1>4. StreamTypeOK' /\ OnlyStored' /\ SentIsShown'
  BY <1>1, <1>2, <1>3
     DEF StreamInvariant, StreamTypeOK, Links, OnlyStored, SentIsShown
<1>5. ToCome' = ToCome
  BY <1>1, <1>3 DEF ToCome
<1> QED
  BY <1>1, <1>2, <1>4, <1>5
     DEF StreamInvariant, ConnectionAccounts, NothingBehind, Connected, Excused

LEMMA SendStoredKeeps == StreamInvariant /\ SendStored => StreamInvariant'
<1> SUFFICES ASSUME StreamInvariant, SendStored PROVE StreamInvariant'
  OBVIOUS
<1>1. PICK e : e = Head(replay)
  OBVIOUS
<1>2. /\ link = "live" /\ replay # <<>> /\ replay' = Tail(replay)
      /\ seen' = seen \cup {e} /\ lastEventId' = e /\ shown' = shown \cup {e}
      /\ UNCHANGED <<stored, unpublished, link, queue, initial,
                     dropped, overtaken, predating>>
  BY <1>1 DEF SendStored, Receive
<1>3. InFlight' = InFlight
  BY <1>2 DEF InFlight
<1>4. /\ e \in Nat /\ Tail(replay) \in Seq(Nat)
      /\ Range(replay) = {e} \cup Range(Tail(replay))
  BY <1>1, <1>2, RangeTail DEF StreamInvariant, StreamTypeOK
<1>5. StreamTypeOK' /\ OnlyStored' /\ SentIsShown'
  BY <1>2, <1>3, <1>4
     DEF StreamInvariant, StreamTypeOK, OnlyStored, SentIsShown
<1>6. ToCome \subseteq ToCome' \cup {e}
  BY <1>2, <1>4 DEF ToCome
<1> QED
  BY <1>2, <1>3, <1>5, <1>6
     DEF StreamInvariant, ConnectionAccounts, NothingBehind, Connected, Excused

LEMMA SendQueuedKeeps == StreamInvariant /\ SendQueued => StreamInvariant'
<1> SUFFICES ASSUME StreamInvariant, SendQueued PROVE StreamInvariant'
  OBVIOUS
<1>1. PICK e : e = Head(queue)
  OBVIOUS
<1>2. /\ link = "live" /\ queue # <<>> /\ queue' = Tail(queue)
      /\ UNCHANGED <<stored, unpublished, link, replay, initial,
                     dropped, overtaken, predating>>
  BY DEF SendQueued
<1>3. \/ e \in seen /\ UNCHANGED <<seen, lastEventId, shown>>
      \/ seen' = seen \cup {e} /\ lastEventId' = e /\ shown' = shown \cup {e}
  BY <1>1 DEF SendQueued, Receive
<1>4. InFlight' = InFlight
  BY <1>2 DEF InFlight
<1>5. /\ e \in Nat /\ Tail(queue) \in Seq(Nat)
      /\ Range(queue) = {e} \cup Range(Tail(queue))
  BY <1>1, <1>2, RangeTail DEF StreamInvariant, StreamTypeOK
<1>6. StreamTypeOK' /\ OnlyStored' /\ SentIsShown'
  BY <1>2, <1>3, <1>4, <1>5
     DEF StreamInvariant, StreamTypeOK, OnlyStored, SentIsShown
<1>7. shown \subseteq shown' /\ e \in shown'
  BY <1>3 DEF StreamInvariant, SentIsShown
<1>8. ToCome \subseteq ToCome' \cup {e}
  BY <1>2, <1>5 DEF ToCome
<1> QED
  BY <1>2, <1>4, <1>6, <1>7, <1>8
     DEF StreamInvariant, ConnectionAccounts, NothingBehind, Connected, Excused

\* A connection is over: what is behind the newest that was shown is recorded.
LEMMA LosingKeeps ==
    ASSUME StreamInvariant, link' \in {"lost", "polling"},
           queue' = <<>>, replay' = <<>>, overtaken' = overtaken \cup Behind,
           UNCHANGED <<stored, seen, lastEventId, initial, shown, dropped, predating>>,
           unpublished' \in [Handlers -> Seq(Nat)], InFlight' \subseteq InFlight
    PROVE  StreamInvariant'
<1>1. StreamTypeOK' /\ OnlyStored' /\ SentIsShown'
  BY RangeEmpty DEF StreamInvariant, StreamTypeOK, Links, OnlyStored, SentIsShown
<1>2. Behind' = Behind /\ Behind \subseteq Excused'
  BY DEF Behind, Excused
<1> QED
  BY <1>1, <1>2 DEF StreamInvariant, ConnectionAccounts, NothingBehind, Connected

LEMMA DisconnectKeeps == StreamInvariant /\ Disconnect => StreamInvariant'
<1> SUFFICES ASSUME StreamInvariant, Disconnect PROVE StreamInvariant'
  OBVIOUS
<1>1. unpublished' \in [Handlers -> Seq(Nat)] /\ InFlight' \subseteq InFlight
  BY DEF Disconnect, InFlight, StreamInvariant, StreamTypeOK
<1> QED
  BY <1>1, LosingKeeps DEF Disconnect

LEMMA RestartKeeps == StreamInvariant /\ Restart => StreamInvariant'
<1> SUFFICES ASSUME StreamInvariant, Restart PROVE StreamInvariant'
  OBVIOUS
<1>1. /\ unpublished' = [h \in Handlers |-> <<>>]
      /\ link' = IF Connected THEN "lost" ELSE link
      /\ queue' = <<>> /\ replay' = <<>>
      /\ overtaken' = IF Connected THEN overtaken \cup Behind ELSE overtaken
      /\ UNCHANGED <<stored, seen, lastEventId, initial, shown, dropped, predating>>
  BY DEF Restart
<1>2. unpublished' \in [Handlers -> Seq(Nat)] /\ InFlight' = {}
  BY <1>1, RangeEmpty DEF InFlight
<1>3. CASE Connected
  BY <1>1, <1>2, <1>3, LosingKeeps
<1>4. CASE ~Connected
  <2>1. StreamTypeOK' /\ OnlyStored' /\ SentIsShown'
    BY <1>1, <1>2, <1>4, RangeEmpty
       DEF StreamInvariant, StreamTypeOK, OnlyStored, SentIsShown
  <2>2. Behind' = Behind /\ Excused' = Excused /\ Connected' = Connected
    BY <1>1, <1>4 DEF Behind, Excused, Connected
  <2> QED
    BY <1>1, <1>4, <2>1, <2>2 DEF StreamInvariant, ConnectionAccounts, NothingBehind
<1> QED
  BY <1>3, <1>4

LEMMA PollKeeps == StreamInvariant /\ Poll => StreamInvariant'
<1> SUFFICES ASSUME StreamInvariant, Poll PROVE StreamInvariant'
  OBVIOUS
<1>1. PICK n : n = NewestOf(shown)
  OBVIOUS
<1>2. /\ link = "polling" /\ shown' = shown \cup Range(StoredAfter(n))
      /\ UNCHANGED <<stored, unpublished, link, queue, replay, seen, lastEventId,
                     initial, dropped, overtaken, predating>>
  BY <1>1 DEF Poll
<1>3. stored \in Nat /\ shown \in SUBSET (1 .. stored)
  BY DEF StreamInvariant, StreamTypeOK, OnlyStored
<1>4. n \in shown \cup {0} /\ n \in Nat /\ \A f \in shown : f <= n
  <2>1. n \in shown \cup {0} /\ \A f \in shown : f <= n
    BY <1>1, <1>3, NewestIsLast
  <2> QED
    BY <1>3, <2>1
<1>5. Range(StoredAfter(n)) = {e \in 1 .. stored : n < e}
  BY <1>3, <1>4, StoredAfterRange
<1>6. InFlight' = InFlight
  BY <1>2 DEF InFlight
<1>7. StreamTypeOK' /\ OnlyStored' /\ SentIsShown'
  BY <1>2, <1>3, <1>5, <1>6
     DEF StreamInvariant, StreamTypeOK, OnlyStored, SentIsShown
<1>8. Behind' \subseteq Behind
  <2>1. ASSUME NEW e \in 1 .. stored, e \notin shown'
        PROVE  e \notin shown /\ e <= n
    BY <1>2, <1>3, <1>4, <1>5, <2>1
  <2>2. ASSUME NEW e \in Behind' PROVE e \in Behind
    <3>1. e \in 1 .. stored /\ e \notin shown'
      BY <1>2, <2>2 DEF Behind
    <3>2. e \notin shown /\ e <= n /\ e \in Nat /\ e # 0
      BY <1>3, <2>1, <3>1
    <3>3. n \in shown /\ e < n
      BY <1>4, <3>2
    <3> QED
      BY <3>1, <3>2, <3>3 DEF Behind
  <2> QED
    BY <2>2
<1> QED
  BY <1>2, <1>7, <1>8 DEF StreamInvariant, ConnectionAccounts, NothingBehind, Connected, Excused

LEMMA StreamStep ==
    StreamInvariant /\ [StreamNext]_streamVars => StreamInvariant'
<1> SUFFICES ASSUME StreamInvariant, [StreamNext]_streamVars PROVE StreamInvariant'
  OBVIOUS
<1>1. ASSUME NEW h \in Handlers, Commit(h) \/ Publish(h) PROVE StreamInvariant'
  BY <1>1, CommitKeeps, PublishKeeps
<1>2. CASE Load \/ Subscribe \/ ReadStored \/ SendStored \/ SendQueued
  BY <1>2, LoadKeeps, SubscribeKeeps, ReadStoredKeeps, SendStoredKeeps, SendQueuedKeeps
<1>3. CASE Disconnect \/ Restart \/ Poll
  BY <1>3, DisconnectKeeps, RestartKeeps, PollKeeps
<1>4. CASE UNCHANGED streamVars
  BY <1>4
     DEF streamVars, StreamInvariant, StreamTypeOK, OnlyStored, SentIsShown, InFlight,
         ConnectionAccounts, NothingBehind, Connected, Excused, Behind, ToCome, Cursor
<1> QED
  BY <1>1, <1>2, <1>3, <1>4 DEF StreamNext

LEMMA GapsAreExplained == StreamInvariant => MissingIsExplained
<1> SUFFICES ASSUME StreamInvariant PROVE MissingIsExplained
  OBVIOUS
<1>1. ASSUME CaughtUp, NEW e \in 1 .. stored, e \notin InFlight
      PROVE  e \in shown \cup Excused
  <2>1. ToCome = {}
    BY <1>1, RangeEmpty DEF CaughtUp, ToCome
  <2> QED
    BY <1>1, <2>1 DEF CaughtUp, Connected, StreamInvariant, ConnectionAccounts
<1>2. link = "polling" => Behind \subseteq Excused
  BY DEF StreamInvariant, NothingBehind
<1> QED
  BY <1>1, <1>2 DEF MissingIsExplained, Excused

\* Between the log, the handlers that publish late, the bounded queue and the
\* replay no event is lost but for the three reasons that are recorded
\* (events.py, stream_events in app.py, connectLiveEvents in api.js).
THEOREM NoSilentGap == StreamSpec => []MissingIsExplained
<1>1. StreamInit => StreamInvariant
  BY StreamInitFits
<1>2. StreamInvariant /\ [StreamNext]_streamVars => StreamInvariant'
  BY StreamStep
<1>3. StreamInvariant => MissingIsExplained
  BY GapsAreExplained
<1> QED
  BY <1>1, <1>2, <1>3, PTL DEF StreamSpec

-----------------------------------------------------------------------------
(* Staged execution. *)

Entries == {Nothing, Dir} \cup {File(w) : w \in StagedJobs \cup {Fixture}}
                          \cup {Link(p) : p \in Tops}

Trees == [Paths -> Entries]

Jobs == [at : {"new", "staging", "running", "ran", "copying", "over"},
         operation : {"read_text", "write_text", "run_command"},
         receipt : {"none", "EXECUTED", "FAILED"}]

StagedTypeOK ==
    /\ host \in Trees
    /\ job \in [StagedJobs -> Jobs]
    /\ copy \in [StagedJobs -> Trees]
    /\ todo \in [StagedJobs -> SUBSET Paths]
    /\ wrote \in [StagedJobs -> SUBSET Paths]
    /\ refused \in [StagedJobs -> SUBSET Paths]

\* What is there is in a directory.
InDirectories(tree) ==
    \A p \in Paths \ Tops : Exists(tree, p) => tree[Parent(p)].kind = "dir"

\* A job that has not staged its copy, or not all of it.
BeforeWriting(j) ==
    /\ job[j].at = "new" =>
         /\ wrote[j] = {} /\ refused[j] = {}
         /\ \A p \in Paths : copy[j][p] = Nothing
    /\ job[j].at = "staging" =>
         /\ wrote[j] = {} /\ refused[j] = {}
         /\ \A p \in todo[j] : copy[j][p] = Nothing
         /\ \A p \in Paths \ Tops : Parent(p) \in todo[j] => p \in todo[j]
    /\ job[j].at # "over" => job[j].receipt = "none"

\* What the container left alone is as in the workspace, or was left out.
Unwritten(j) ==
    job[j].at \notin {"new", "over"} =>
        \A p \in Paths \ wrote[j] :
            \/ job[j].at = "staging" /\ p \in todo[j]
            \/ copy[j][p] = host[p]
            \/ copy[j][p] = Nothing /\ p \in BlockedPaths

\* The walk of the copy back: what it still has to reach is in the copy, below
\* directories of the workspace, and what it has reached was brought over or
\* is accounted for.
Walked(j) ==
    job[j].at = "copying" =>
        /\ \A p \in todo[j] : Exists(copy[j], p)
        /\ \A p \in todo[j] \ Tops : Parent(p) \notin todo[j] => host[Parent(p)].kind = "dir"
        /\ \A p \in Paths : Exists(copy[j], p) =>
              \/ p \in todo[j]
              \/ host[p] = copy[j][p]
              \/ \E r \in refused[j] : p = r \/ p \in Below(r)

JobFits(j) == InDirectories(copy[j]) /\ BeforeWriting(j) /\ Unwritten(j) /\ Walked(j)

OneBusy == \A j, k \in Busy : j = k

StagedInvariant ==
    /\ StagedTypeOK /\ OneBusy /\ BlockedUntouched /\ InDirectories(host)
    /\ \A j \in StagedJobs : JobFits(j)

-----------------------------------------------------------------------------
(* Entries, paths and trees. *)

LEMMA EntryFacts ==
    /\ Nothing \in Entries /\ Nothing.kind = "none"
    /\ Dir \in Entries /\ Dir.kind = "dir"
    /\ \A w \in StagedJobs \cup {Fixture} : File(w) \in Entries /\ File(w).kind = "file"
    /\ \A p \in Tops : Link(p) \in Entries /\ Link(p).kind = "link" /\ Link(p).to = p
    /\ \A e \in Entries :
         /\ e.kind = "none" <=> e = Nothing
         /\ e.kind = "dir" <=> e = Dir
         /\ e.kind = "link" => e.to \in Tops
<1>1. /\ Nothing \in Entries /\ Nothing.kind = "none"
      /\ Dir \in Entries /\ Dir.kind = "dir"
  BY DEF Entries, Nothing, Dir
<1>2. /\ \A w \in StagedJobs \cup {Fixture} : File(w) \in Entries
      /\ \A w : File(w).kind = "file"
  BY DEF Entries, File
<1>3. /\ \A p \in Tops : Link(p) \in Entries
      /\ \A p : Link(p).kind = "link" /\ Link(p).to = p
  BY DEF Entries, Link
<1>4. ASSUME NEW e \in Entries
      PROVE  \/ e = Nothing \/ e = Dir
             \/ \E w : e = File(w)
             \/ \E p \in Tops : e = Link(p)
  BY DEF Entries
<1> QED
  BY <1>1, <1>2, <1>3, <1>4

LEMMA PathFacts ==
    ASSUME NEW p \in Paths
    PROVE  /\ p \in Tops => Len(p) = 1
           /\ p \notin Tops => Len(p) = 2 /\ Parent(p) \in Tops /\ Parent(p) \in Paths
           /\ p \in BlockedPaths => p \notin Tops
BY StagedAssumption DEF Tops

LEMMA BelowIs ==
    ASSUME NEW p \in Paths, NEW q
    PROVE  q \in Below(p) <=> p \in Tops /\ q \in Paths \ Tops /\ Parent(q) = p
<1>1. CASE q \in Paths
  <2>1. CASE q \in Tops \/ p \notin Tops
    <3>1. /\ q \in Tops => Len(q) = 1
          /\ q \notin Tops => Len(q) = 2
          /\ p \in Tops => Len(p) = 1
          /\ p \notin Tops => Len(p) = 2
      BY <1>1, PathFacts
    <3>2. ~(Len(q) > Len(p))
      <4>1. PICK m, n : m = Len(q) /\ n = Len(p)
        OBVIOUS
      <4>2. m \in {1, 2} /\ n \in {1, 2} /\ ~(m = 2 /\ n = 1)
        BY <2>1, <3>1, <4>1
      <4>3. ~(m > n)
        BY <4>2
      <4> QED
        BY <4>1, <4>3
    <3> QED
      BY <2>1, <3>2 DEF Below
  <2>2. CASE q \notin Tops /\ p \in Tops
    <3>1. Len(q) = 2 /\ Len(p) = 1 /\ 2 - 1 = 1
      BY <1>1, <2>2, PathFacts
    <3> QED
      BY <1>1, <2>2, <3>1 DEF Below, Parent
  <2> QED
    BY <2>1, <2>2
<1>2. CASE q \notin Paths
  BY <1>2 DEF Below
<1> QED
  BY <1>1, <1>2

LEMMA BlockedFacts ==
    ASSUME NEW p \in Paths
    PROVE  /\ IsBlocked(p) <=> p \in BlockedPaths
           /\ ContainsBlocked(p) <=> \E b \in BlockedPaths : b \in Below(p)
<1>1. \A b \in BlockedPaths : b \in Paths /\ p \notin Below(b)
  BY BelowIs, PathFacts, StagedAssumption
<1> QED
  BY <1>1 DEF IsBlocked, ContainsBlocked

LEMMA PutFacts ==
    ASSUME NEW tree \in Trees, NEW p \in Paths, NEW entry \in Entries
    PROVE  /\ Put(tree, p, entry) \in Trees
           /\ Put(tree, p, entry)[p] = entry
           /\ \A q \in Paths \ {p} :
                Put(tree, p, entry)[q] =
                  IF q \in Below(p) /\ entry.kind # "dir" THEN Nothing ELSE tree[q]
<1>1. p \notin Below(p)
  BY BelowIs
<1>2. \A q \in Paths : Put(tree, p, entry)[q] =
          IF q = p THEN entry
          ELSE IF q \in Below(p) /\ entry.kind # "dir" THEN Nothing ELSE tree[q]
  BY <1>1 DEF Put
<1>3. \A q \in Paths : tree[q] \in Entries
  BY DEF Trees
<1>4. Put(tree, p, entry) = [q \in Paths |-> Put(tree, p, entry)[q]]
  BY DEF Put
<1> QED
  BY <1>2, <1>3, <1>4, EntryFacts DEF Trees

LEMMA PutInDirectories ==
    ASSUME NEW tree \in Trees, NEW p \in Paths, NEW entry \in Entries,
           InDirectories(tree), p \notin Tops => tree[Parent(p)].kind = "dir"
    PROVE  InDirectories(Put(tree, p, entry))
<1>1. PICK new : new = Put(tree, p, entry)
  OBVIOUS
<1>2. /\ new[p] = entry
      /\ \A q \in Paths \ {p} :
           new[q] = IF q \in Below(p) /\ entry.kind # "dir" THEN Nothing ELSE tree[q]
  BY <1>1, PutFacts
<1>3. ASSUME NEW q \in Paths \ Tops, Exists(new, q)
      PROVE  new[Parent(q)].kind = "dir"
  <2>1. Parent(q) \in Tops /\ Parent(q) \in Paths /\ Parent(q) # q
    BY PathFacts
  <2>2. CASE q = p
    <3>1. p \notin Tops /\ Parent(q) \notin Below(p)
      BY <2>1, <2>2, BelowIs
    <3>2. new[Parent(q)] = tree[Parent(q)]
      BY <1>2, <2>1, <2>2, <3>1
    <3> QED
      BY <2>2, <3>1, <3>2
  <2>3. CASE q # p /\ Parent(q) = p
    <3>1. q \in Below(p)
      BY <2>1, <2>3, BelowIs
    <3>2. entry.kind = "dir"
      BY <1>2, <1>3, <2>3, <3>1, EntryFacts DEF Exists
    <3> QED
      BY <1>2, <2>3, <3>2
  <2>4. CASE q # p /\ Parent(q) # p
    <3>1. q \notin Below(p) /\ Parent(q) \notin Below(p)
      BY <2>1, <2>4, BelowIs
    <3>2. new[q] = tree[q] /\ new[Parent(q)] = tree[Parent(q)]
      BY <1>2, <2>1, <2>4, <3>1
    <3> QED
      BY <1>3, <3>2 DEF InDirectories, Exists
  <2> QED
    BY <2>2, <2>3, <2>4
<1> QED
  BY <1>1, <1>3 DEF InDirectories

LEMMA LandsOnItself ==
    ASSUME NEW tree \in Trees, NEW p \in Paths,
           p \notin Tops => tree[Parent(p)].kind = "dir"
    PROVE  Landing(tree, p) = p
BY PathFacts DEF Landing

-----------------------------------------------------------------------------
(* A step is of one job, and the others rest. *)

OthersRest(j) ==
    \A k \in StagedJobs \ {j} :
        /\ job'[k] = job[k] /\ copy'[k] = copy[k] /\ todo'[k] = todo[k]
        /\ wrote'[k] = wrote[k] /\ refused'[k] = refused[k]

LEMMA JobType ==
    ASSUME StagedTypeOK, NEW j \in StagedJobs
    PROVE  /\ job[j] \in Jobs /\ copy[j] \in Trees
           /\ todo[j] \in SUBSET Paths /\ wrote[j] \in SUBSET Paths
           /\ refused[j] \in SUBSET Paths
           /\ \A p \in Paths : copy[j][p] \in Entries /\ host[p] \in Entries
BY DEF StagedTypeOK, Trees

\* It is enough to look at the job that moves: no other one is busy.
LEMMA OneMoves ==
    ASSUME StagedInvariant, NEW j \in StagedJobs, OthersRest(j),
           j \in Busy \/ Busy = {},
           StagedTypeOK', BlockedUntouched', InDirectories(host)', JobFits(j)'
    PROVE  StagedInvariant'
<1>1. ASSUME NEW k \in StagedJobs \ {j}
      PROVE  job[k].at \in {"new", "over"}
  BY DEF StagedInvariant, OneBusy, Busy
<1>2. OneBusy'
  BY <1>1 DEF OthersRest, OneBusy, Busy
<1>3. ASSUME NEW k \in StagedJobs \ {j} PROVE JobFits(k)'
  <2>1. JobFits(k) /\ job[k].at \in {"new", "over"}
    BY <1>1 DEF StagedInvariant
  <2>2. /\ job'[k] = job[k] /\ copy'[k] = copy[k] /\ wrote'[k] = wrote[k]
        /\ refused'[k] = refused[k]
    BY DEF OthersRest
  <2>3. InDirectories(copy[k])'
    BY <2>1, <2>2 DEF JobFits, InDirectories, Exists
  <2>4. BeforeWriting(k)' /\ Unwritten(k)' /\ Walked(k)'
    BY <2>1, <2>2 DEF JobFits, BeforeWriting, Unwritten, Walked
  <2> QED
    BY <2>3, <2>4 DEF JobFits
<1> QED
  BY <1>2, <1>3 DEF StagedInvariant

LEMMA HostStays ==
    ASSUME StagedInvariant, UNCHANGED host
    PROVE  BlockedUntouched' /\ InDirectories(host)'
BY DEF StagedInvariant, BlockedUntouched, InDirectories, Exists

LEMMA StagedInitFits == StagedInit => StagedInvariant
<1> SUFFICES ASSUME StagedInit PROVE StagedInvariant
  OBVIOUS
<1>1. PICK other \in {Dir} \cup {Link(Parent(b)) : b \in BlockedPaths} :
         host = [p \in Paths |->
           CASE \E b \in BlockedPaths : p = Parent(b) -> Dir
             [] p \in BlockedPaths -> File(Fixture)
             [] p \in Tops /\ ~\E b \in BlockedPaths : p = Parent(b) -> other
             [] OTHER -> IF other = Dir THEN File(Fixture) ELSE Nothing]
  BY DEF StagedInit
<1>2. \A b \in BlockedPaths : b \in Paths \ Tops /\ Parent(b) \in Tops
  BY PathFacts, StagedAssumption
<1>3. other \in Entries
  BY <1>2, EntryFacts
<1>4. ASSUME NEW p \in Paths
      PROVE  /\ host[p] \in Entries
             /\ p \in BlockedPaths => host[p] = File(Fixture)
             /\ (\E b \in BlockedPaths : p = Parent(b)) => host[p] = Dir
             /\ p \in Tops => host[p] \in {Dir, other}
             /\ p \notin Tops /\ p \notin BlockedPaths =>
                   host[p] = IF other = Dir THEN File(Fixture) ELSE Nothing
  <2>1. CASE \E b \in BlockedPaths : p = Parent(b)
    <3>1. host[p] = Dir /\ p \in Tops /\ p \notin BlockedPaths
      BY <1>1, <1>2, <2>1
    <3> QED
      BY <2>1, <3>1, EntryFacts
  <2>2. CASE p \in BlockedPaths
    <3>1. host[p] = File(Fixture) /\ p \notin Tops
      BY <1>1, <1>2, <2>2
    <3> QED
      BY <1>2, <2>2, <3>1, EntryFacts
  <2>3. CASE p \in Tops /\ ~\E b \in BlockedPaths : p = Parent(b)
    <3>1. host[p] = other /\ p \notin BlockedPaths
      BY <1>1, <1>2, <2>3
    <3> QED
      BY <1>3, <2>3, <3>1
  <2>4. CASE p \notin Tops /\ p \notin BlockedPaths
    <3>1. ~\E b \in BlockedPaths : p = Parent(b)
      BY <1>2, <2>4
    <3>2. host[p] = IF other = Dir THEN File(Fixture) ELSE Nothing
      BY <1>1, <2>4, <3>1
    <3> QED
      BY <2>4, <3>1, <3>2, EntryFacts
  <2> QED
    BY <2>1, <2>2, <2>3, <2>4
<1>5. PICK o \in [StagedJobs -> {"read_text", "write_text", "run_command"}] :
         job = [j \in StagedJobs |->
                  [at |-> "new", operation |-> o[j], receipt |-> "none"]]
  BY DEF StagedInit
<1>6. /\ copy = [j \in StagedJobs |-> [p \in Paths |-> Nothing]]
      /\ todo = [j \in StagedJobs |-> {}]
      /\ wrote = [j \in StagedJobs |-> {}]
      /\ refused = [j \in StagedJobs |-> {}]
  BY DEF StagedInit
<1>7. [p \in Paths |-> Nothing] \in Trees
  BY EntryFacts DEF Trees
<1>8. host \in Trees
  BY <1>1, <1>4 DEF Trees
<1>9. StagedTypeOK
  BY <1>5, <1>6, <1>7, <1>8 DEF StagedTypeOK, Jobs
<1>10. BlockedUntouched
  BY <1>2, <1>4 DEF BlockedUntouched
<1>11. InDirectories(host)
  <2>1. ASSUME NEW p \in Paths \ Tops, Exists(host, p)
        PROVE  host[Parent(p)].kind = "dir"
    <3>1. Parent(p) \in Tops /\ Parent(p) \in Paths
      BY PathFacts
    <3>2. CASE p \in BlockedPaths
      BY <1>4, <3>1, <3>2, EntryFacts
    <3>3. CASE p \notin BlockedPaths
      <4>1. other = Dir
        BY <1>4, <2>1, <3>3, EntryFacts DEF Exists
      <4> QED
        BY <1>4, <3>1, <4>1, EntryFacts
    <3> QED
      BY <3>2, <3>3
  <2> QED
    BY <2>1 DEF InDirectories
<1>12. ASSUME NEW j \in StagedJobs PROVE JobFits(j)
  <2>1. /\ job[j].at = "new" /\ job[j].receipt = "none"
        /\ wrote[j] = {} /\ refused[j] = {}
        /\ \A p \in Paths : copy[j][p] = Nothing
    BY <1>5, <1>6
  <2>2. InDirectories(copy[j])
    BY <2>1, EntryFacts DEF InDirectories, Exists
  <2> QED
    BY <2>1, <2>2 DEF JobFits, BeforeWriting, Unwritten, Walked
<1>13. OneBusy
  BY <1>5 DEF OneBusy, Busy
<1> QED
  BY <1>9, <1>10, <1>11, <1>12, <1>13 DEF StagedInvariant

-----------------------------------------------------------------------------
(* The phases. *)

Phases == {"new", "staging", "running", "ran", "copying", "over"}

LEMMA AdvanceMoves ==
    ASSUME StagedTypeOK, NEW j \in StagedJobs, NEW phase \in Phases, Advance(j, phase)
    PROVE  /\ job' \in [StagedJobs -> Jobs]
           /\ job'[j].at = phase /\ job'[j].receipt = job[j].receipt
           /\ \A k \in StagedJobs \ {j} : job'[k] = job[k]
BY DEF StagedTypeOK, Advance, Jobs, Phases

LEMMA CloseKeeps ==
    ASSUME StagedInvariant, NEW j \in Busy, NEW status \in {"EXECUTED", "FAILED"},
           Close(j, status), UNCHANGED <<host, wrote, refused>>
    PROVE  StagedInvariant'
<1>1. /\ j \in StagedJobs /\ StagedTypeOK
      /\ job' = [job EXCEPT ![j].at = "over", ![j].receipt = status]
      /\ copy' = [copy EXCEPT ![j] = [p \in Paths |-> Nothing]]
      /\ todo' = [todo EXCEPT ![j] = {}]
  BY DEF StagedInvariant, Busy, Close
<1>2. /\ job' \in [StagedJobs -> Jobs] /\ job'[j].at = "over"
      /\ \A k \in StagedJobs \ {j} : job'[k] = job[k]
  BY <1>1 DEF StagedTypeOK, Jobs
<1>3. [p \in Paths |-> Nothing] \in Trees
  BY EntryFacts DEF Trees
<1>4. StagedTypeOK'
  BY <1>1, <1>2, <1>3 DEF StagedTypeOK
<1>5. OthersRest(j)
  BY <1>1, <1>2 DEF OthersRest, StagedTypeOK
<1>6. \A p \in Paths : copy'[j][p] = Nothing
  BY <1>1 DEF StagedTypeOK
<1>7. InDirectories(copy[j])'
  BY <1>6, EntryFacts DEF InDirectories, Exists
<1>8. JobFits(j)'
  BY <1>2, <1>7 DEF JobFits, BeforeWriting, Unwritten, Walked
<1> QED
  BY <1>1, <1>4, <1>5, <1>8, HostStays, OneMoves

LEMMA BeginStagingKeeps ==
    ASSUME StagedInvariant, OneAtATime, NEW j \in StagedJobs, BeginStaging(j)
    PROVE  StagedInvariant'
<1>1. /\ StagedTypeOK /\ job[j].at = "new" /\ Busy = {}
      /\ Advance(j, "staging") /\ todo' = [todo EXCEPT ![j] = Paths]
      /\ UNCHANGED <<host, copy, wrote, refused>>
  BY DEF StagedInvariant, BeginStaging, MayStart
<1>2. /\ job' \in [StagedJobs -> Jobs]
      /\ job'[j].at = "staging" /\ job'[j].receipt = job[j].receipt
      /\ \A k \in StagedJobs \ {j} : job'[k] = job[k]
  BY <1>1, AdvanceMoves DEF Phases
<1>3. StagedTypeOK'
  BY <1>1, <1>2 DEF StagedTypeOK
<1>4. OthersRest(j)
  BY <1>1, <1>2 DEF OthersRest, StagedTypeOK
<1>5. todo'[j] = Paths
  BY <1>1 DEF StagedTypeOK
<1>6. JobFits(j)
  BY DEF StagedInvariant
<1>7. InDirectories(copy[j])'
  BY <1>1, <1>6 DEF JobFits, InDirectories, Exists
<1>8. BeforeWriting(j)'
  BY <1>1, <1>2, <1>5, <1>6, PathFacts DEF JobFits, BeforeWriting
<1>9. Unwritten(j)' /\ Walked(j)'
  BY <1>2, <1>5 DEF Unwritten, Walked
<1> QED
  BY <1>1, <1>3, <1>4, <1>7, <1>8, <1>9, HostStays, OneMoves DEF JobFits

LEMMA StageEntryKeeps ==
    ASSUME StagedInvariant, NEW j \in StagedJobs, NEW p \in Paths, StageEntry(j, p)
    PROVE  StagedInvariant'
<1>1. PICK entry :
         entry = IF Dropped(p) \/ (Len(p) = 2 /\ copy[j][Parent(p)].kind # "dir")
                 THEN Nothing ELSE host[p]
  OBVIOUS
<1>2. /\ StagedTypeOK /\ job[j].at = "staging" /\ j \in Busy
      /\ p \in todo[j] /\ Parent(p) \notin todo[j]
      /\ todo' = [todo EXCEPT ![j] = @ \ {p}]
      /\ copy' = [copy EXCEPT ![j][p] = entry]
      /\ UNCHANGED <<host, job, wrote, refused>>
  BY <1>1 DEF StagedInvariant, StageEntry, Busy
<1>3. entry \in Entries
  BY <1>1, <1>2, EntryFacts, JobType
<1>4. /\ copy'[j] = [copy[j] EXCEPT ![p] = entry] /\ copy' \in [StagedJobs -> Trees]
      /\ todo'[j] = todo[j] \ {p} /\ todo' \in [StagedJobs -> SUBSET Paths]
  BY <1>2, <1>3 DEF StagedTypeOK, Trees
<1>5. copy'[j][p] = entry /\ \A q \in Paths \ {p} : copy'[j][q] = copy[j][q]
  BY <1>2, <1>4 DEF StagedTypeOK, Trees
<1>6. StagedTypeOK' /\ OthersRest(j)
  BY <1>2, <1>4 DEF StagedTypeOK, OthersRest
<1>7. InDirectories(copy[j]) /\ BeforeWriting(j) /\ Unwritten(j) /\ InDirectories(host)
  BY DEF StagedInvariant, JobFits
<1>8. /\ wrote[j] = {} /\ refused[j] = {} /\ job[j].receipt = "none"
      /\ \A q \in todo[j] : copy[j][q] = Nothing
      /\ \A q \in Paths \ Tops : Parent(q) \in todo[j] => q \in todo[j]
  BY <1>2, <1>7 DEF BeforeWriting
<1>9. p \notin Tops => entry = Nothing \/ copy[j][Parent(p)].kind = "dir"
  BY <1>1, PathFacts
<1>10. InDirectories(copy[j])'
  <2>1. ASSUME NEW q \in Paths \ Tops, copy'[j][q].kind # "none"
        PROVE  copy'[j][Parent(q)].kind = "dir"
    <3>1. Parent(q) \in Tops /\ Parent(q) \in Paths
      BY PathFacts
    <3>2. CASE q = p
      <4>1. copy[j][Parent(p)].kind = "dir" /\ Parent(p) # p
        BY <1>5, <1>9, <2>1, <3>1, <3>2, EntryFacts
      <4> QED
        BY <1>5, <3>1, <3>2, <4>1
    <3>3. CASE q # p
      <4>1. copy[j][q].kind # "none" /\ copy[j][q] # Nothing
        BY <1>5, <2>1, <3>3, EntryFacts
      <4>2. copy[j][Parent(q)].kind = "dir"
        BY <1>7, <4>1 DEF InDirectories, Exists
      <4>3. Parent(q) # p
        BY <1>2, <1>8, <4>1
      <4> QED
        BY <1>5, <3>1, <4>2, <4>3
    <3> QED
      BY <3>2, <3>3
  <2> QED
    BY <2>1 DEF InDirectories, Exists
<1>11. BeforeWriting(j)'
  BY <1>2, <1>4, <1>5, <1>8, PathFacts DEF BeforeWriting
<1>12. entry = host[p] \/ (entry = Nothing /\ p \in BlockedPaths)
  <2>1. host[p] \in Entries /\ (host[p].kind = "link" => host[p].to \in Tops)
    BY <1>2, JobType, EntryFacts
  <2>2. Dropped(p) => p \in BlockedPaths
    <3>1. host[p].kind = "link" => ~IsBlocked(host[p].to)
      BY <2>1, BlockedFacts, PathFacts DEF Tops
    <3> QED
      BY <3>1, BlockedFacts DEF Dropped
  <2>3. CASE p \notin Tops /\ copy[j][Parent(p)].kind # "dir" /\ ~Dropped(p)
    <3>1. entry = Nothing /\ Parent(p) \in Tops /\ Parent(p) \in Paths
      BY <1>1, <2>3, PathFacts
    <3>2. \/ copy[j][Parent(p)] = host[Parent(p)]
          \/ Parent(p) \in BlockedPaths
      BY <1>2, <1>7, <1>8, <3>1 DEF Unwritten
    <3>3. host[Parent(p)].kind # "dir"
      BY <2>3, <3>1, <3>2, PathFacts
    <3>4. host[p].kind = "none"
      BY <1>7, <2>3, <3>3 DEF InDirectories, Exists
    <3> QED
      BY <2>1, <3>1, <3>4, EntryFacts
  <2>4. CASE Dropped(p)
    BY <1>1, <2>2, <2>4
  <2>5. CASE ~Dropped(p) /\ (p \in Tops \/ copy[j][Parent(p)].kind = "dir")
    <3>1. ~(Len(p) = 2 /\ copy[j][Parent(p)].kind # "dir")
      BY <2>5, PathFacts
    <3> QED
      BY <1>1, <2>5, <3>1
  <2> QED
    BY <2>3, <2>4, <2>5
<1>13. Unwritten(j)'
  <2>1. ASSUME NEW q \in Paths
        PROVE  \/ q \in todo'[j]
               \/ copy'[j][q] = host[q]
               \/ copy'[j][q] = Nothing /\ q \in BlockedPaths
    <3>1. CASE q = p
      BY <1>5, <1>12, <3>1
    <3>2. CASE q # p
      BY <1>2, <1>4, <1>5, <1>7, <1>8, <3>2 DEF Unwritten
    <3> QED
      BY <3>1, <3>2
  <2> QED
    BY <1>2, <2>1 DEF Unwritten
<1>14. Walked(j)'
  BY <1>2 DEF Walked
<1> QED
  BY <1>2, <1>6, <1>10, <1>11, <1>13, <1>14, HostStays, OneMoves DEF JobFits

\* A phase ends and nothing else happens.
LEMMA PhaseKeeps ==
    ASSUME StagedInvariant, NEW j \in Busy, NEW phase \in {"running", "ran"},
           Advance(j, phase), job[j].at = "staging" => todo[j] = {},
           UNCHANGED <<host, copy, todo, wrote, refused>>
    PROVE  StagedInvariant'
<1>1. j \in StagedJobs /\ StagedTypeOK /\ job[j].at \notin {"new", "over"}
  BY DEF StagedInvariant, Busy
<1>2. /\ job' \in [StagedJobs -> Jobs]
      /\ job'[j].at = phase /\ job'[j].receipt = job[j].receipt
      /\ \A k \in StagedJobs \ {j} : job'[k] = job[k]
  BY <1>1, AdvanceMoves DEF Phases
<1>3. StagedTypeOK' /\ OthersRest(j)
  BY <1>1, <1>2 DEF StagedTypeOK, OthersRest
<1>4. JobFits(j)
  BY <1>1 DEF StagedInvariant
<1>5. InDirectories(copy[j])'
  BY <1>4 DEF JobFits, InDirectories, Exists
<1>6. BeforeWriting(j)' /\ Walked(j)'
  BY <1>1, <1>2, <1>4 DEF JobFits, BeforeWriting, Walked
<1>7. Unwritten(j)'
  BY <1>1, <1>2, <1>4 DEF JobFits, Unwritten
<1> QED
  BY <1>1, <1>3, <1>5, <1>6, <1>7, HostStays, OneMoves DEF JobFits

\* The container puts an entry into its copy, and may end by that.
LEMMA WritesKeep ==
    ASSUME StagedInvariant, NEW j \in StagedJobs, NEW p \in Paths, NEW entry \in Entries,
           job[j].at = "running", p \notin Tops => copy[j][Parent(p)].kind = "dir",
           Writes(j, Put(copy[j], p, entry)),
           UNCHANGED job \/ Advance(j, "ran"), UNCHANGED <<host, todo, refused>>
    PROVE  StagedInvariant'
<1>1. PICK tree : tree = Put(copy[j], p, entry)
  OBVIOUS
<1>2. /\ StagedTypeOK /\ j \in Busy /\ copy[j] \in Trees
      /\ InDirectories(copy[j]) /\ BeforeWriting(j) /\ Unwritten(j)
  BY JobType DEF StagedInvariant, Busy, JobFits
<1>3. tree \in Trees /\ InDirectories(tree)
  BY <1>1, <1>2, PutFacts, PutInDirectories
<1>4. /\ copy' = [copy EXCEPT ![j] = tree]
      /\ wrote' = [wrote EXCEPT ![j] = @ \cup Changed(j, tree)]
      /\ Changed(j, tree) \in SUBSET Paths
      /\ \A q \in Paths \ Changed(j, tree) : tree[q] = copy[j][q]
  BY <1>1 DEF Writes, Changed
<1>5. /\ copy'[j] = tree /\ wrote'[j] = wrote[j] \cup Changed(j, tree)
      /\ copy' \in [StagedJobs -> Trees] /\ wrote' \in [StagedJobs -> SUBSET Paths]
  BY <1>2, <1>3, <1>4 DEF StagedTypeOK
<1>6. /\ job' \in [StagedJobs -> Jobs]
      /\ job'[j].at \in {"running", "ran"} /\ job'[j].receipt = job[j].receipt
      /\ \A k \in StagedJobs \ {j} : job'[k] = job[k]
  <2>1. CASE UNCHANGED job
    BY <1>2, <2>1 DEF StagedTypeOK
  <2>2. CASE Advance(j, "ran")
    BY <1>2, <2>2, AdvanceMoves DEF Phases
  <2> QED
    BY <2>1, <2>2
<1>7. StagedTypeOK' /\ OthersRest(j)
  BY <1>2, <1>4, <1>5, <1>6 DEF StagedTypeOK, OthersRest
<1>8. InDirectories(copy[j])'
  BY <1>3, <1>5 DEF InDirectories, Exists
<1>9. BeforeWriting(j)' /\ Walked(j)'
  BY <1>2, <1>6 DEF BeforeWriting, Walked
<1>10. Unwritten(j)'
  BY <1>2, <1>4, <1>5, <1>6 DEF Unwritten
<1> QED
  BY <1>2, <1>7, <1>8, <1>9, <1>10, HostStays, OneMoves DEF JobFits

LEMMA WriteTextKeeps ==
    ASSUME StagedInvariant, NEW j \in StagedJobs, NEW p \in Paths, WriteText(j, p)
    PROVE  StagedInvariant'
<1>1. PICK q : q = Landing(copy[j], p)
  OBVIOUS
<1>2. /\ job[j].at = "running" /\ Advance(j, "ran")
      /\ q \in Paths /\ (Len(q) = 2 => copy[j][Parent(q)].kind = "dir")
      /\ Writes(j, Put(copy[j], q, File(j)))
      /\ UNCHANGED <<host, todo, refused>>
  BY <1>1 DEF WriteText
<1>3. q \notin Tops => copy[j][Parent(q)].kind = "dir"
  BY <1>2, PathFacts
<1>4. File(j) \in Entries
  BY EntryFacts
<1> QED
  BY <1>2, <1>3, <1>4, WritesKeep

LEMMA RunCommandKeeps ==
    ASSUME StagedInvariant, NEW j \in StagedJobs, NEW p \in Paths, RunCommand(j, p)
    PROVE  StagedInvariant'
<1>1. /\ job[j].at = "running" /\ UNCHANGED <<host, job, todo, refused>>
      /\ p \notin Tops => copy[j][Parent(p)].kind = "dir"
  BY PathFacts DEF RunCommand
<1>2. PICK entry \in {File(j), Nothing} \cup
                     (IF Len(p) = 1 THEN {Dir} \cup {Link(q) : q \in Tops \ {p}}
                      ELSE {}) :
         Writes(j, Put(copy[j], p, entry))
  BY DEF RunCommand
<1>3. entry \in Entries
  BY <1>2, EntryFacts
<1> QED
  BY <1>1, <1>2, <1>3, WritesKeep

LEMMA BeginCopyBackKeeps ==
    ASSUME StagedInvariant, NEW j \in StagedJobs, BeginCopyBack(j)
    PROVE  StagedInvariant'
<1>1. /\ StagedTypeOK /\ job[j].at = "ran" /\ j \in Busy
      /\ Advance(j, "copying") /\ todo' = [todo EXCEPT ![j] = Present(j)]
      /\ UNCHANGED <<host, copy, wrote, refused>>
      /\ InDirectories(copy[j]) /\ BeforeWriting(j) /\ Unwritten(j)
  BY DEF StagedInvariant, BeginCopyBack, Busy, JobFits
<1>2. /\ job' \in [StagedJobs -> Jobs]
      /\ job'[j].at = "copying" /\ job'[j].receipt = job[j].receipt
      /\ \A k \in StagedJobs \ {j} : job'[k] = job[k]
  BY <1>1, AdvanceMoves DEF Phases
<1>3. todo'[j] = Present(j) /\ todo' \in [StagedJobs -> SUBSET Paths]
  BY <1>1 DEF StagedTypeOK, Present
<1>4. StagedTypeOK' /\ OthersRest(j)
  BY <1>1, <1>2, <1>3 DEF StagedTypeOK, OthersRest
<1>5. InDirectories(copy[j])' /\ BeforeWriting(j)' /\ Unwritten(j)'
  BY <1>1, <1>2 DEF InDirectories, Exists, BeforeWriting, Unwritten
<1>6. Walked(j)'
  <2>1. ASSUME NEW p \in Present(j) \ Tops PROVE Parent(p) \in Present(j)
    <3>1. p \in Paths /\ Exists(copy[j], p) /\ Parent(p) \in Paths
      BY <2>1, PathFacts DEF Present
    <3>2. copy[j][Parent(p)].kind = "dir"
      BY <1>1, <2>1, <3>1 DEF InDirectories
    <3> QED
      BY <3>1, <3>2 DEF Present, Exists
  <2>2. \A p \in Paths : Exists(copy[j], p)' <=> p \in Present(j)
    BY <1>1 DEF Present, Exists
  <2> QED
    BY <1>3, <2>1, <2>2 DEF Walked, Present
<1> QED
  BY <1>1, <1>4, <1>5, <1>6, HostStays, OneMoves DEF JobFits

LEMMA RefuseEntryKeeps ==
    ASSUME StagedInvariant, NEW j \in StagedJobs, NEW p \in Paths, RefuseEntry(j, p)
    PROVE  StagedInvariant'
<1>1. /\ StagedTypeOK /\ job[j].at = "copying" /\ j \in Busy
      /\ p \in todo[j]
      /\ refused' = [refused EXCEPT ![j] = @ \cup {p}]
      /\ todo' = [todo EXCEPT ![j] = @ \ ({p} \cup Below(p))]
      /\ UNCHANGED <<host, job, copy, wrote>>
      /\ InDirectories(copy[j]) /\ BeforeWriting(j) /\ Unwritten(j) /\ Walked(j)
  BY DEF StagedInvariant, RefuseEntry, Reached, Busy, JobFits
<1>2. /\ todo'[j] = todo[j] \ ({p} \cup Below(p)) /\ refused'[j] = refused[j] \cup {p}
      /\ todo' \in [StagedJobs -> SUBSET Paths] /\ refused' \in [StagedJobs -> SUBSET Paths]
  BY <1>1 DEF StagedTypeOK
<1>3. StagedTypeOK' /\ OthersRest(j)
  BY <1>1, <1>2 DEF StagedTypeOK, OthersRest
<1>4. InDirectories(copy[j])' /\ BeforeWriting(j)' /\ Unwritten(j)'
  BY <1>1 DEF InDirectories, Exists, BeforeWriting, Unwritten
<1>5. Walked(j)'
  <2>1. \A q \in todo'[j] : Exists(copy[j], q)'
    BY <1>1, <1>2 DEF Walked, Exists
  <2>2. ASSUME NEW q \in todo'[j] \ Tops, Parent(q) \notin todo'[j]
        PROVE  host'[Parent(q)].kind = "dir"
    <3>1. q \in Paths /\ Parent(q) \in Tops /\ q \notin Below(p) /\ q \in todo[j]
      BY <1>1, <1>2, <2>2, PathFacts DEF StagedTypeOK
    <3>2. Parent(q) # p /\ Parent(q) \notin Below(p)
      BY <2>2, <3>1, BelowIs
    <3> QED
      BY <1>1, <1>2, <2>2, <3>1, <3>2 DEF Walked
  <2>3. ASSUME NEW q \in Paths, Exists(copy[j], q)'
        PROVE  \/ q \in todo'[j]
               \/ host'[q] = copy'[j][q]
               \/ \E r \in refused'[j] : q = r \/ q \in Below(r)
    BY <1>1, <1>2, <2>3 DEF Walked, Exists
  <2> QED
    BY <2>1, <2>2, <2>3 DEF Walked
<1> QED
  BY <1>1, <1>3, <1>4, <1>5, HostStays, OneMoves DEF JobFits

LEMMA MakeDirectoryKeeps ==
    ASSUME StagedInvariant, NEW j \in StagedJobs, NEW p \in Paths, MakeDirectory(j, p)
    PROVE  /\ StagedInvariant'
           /\ \A q \in Paths : host'[q] # host[q] => q \in wrote[j]
<1>1. /\ StagedTypeOK /\ job[j].at = "copying" /\ j \in Busy
      /\ p \in todo[j] /\ Parent(p) \notin todo[j] /\ copy[j][p].kind = "dir"
      /\ host[p].kind \in {"none", "dir"}
      /\ host' = [host EXCEPT ![p] = IF @.kind = "none" THEN Dir ELSE @]
      /\ todo' = [todo EXCEPT ![j] = @ \ {p}]
      /\ UNCHANGED <<job, copy, wrote, refused>>
      /\ InDirectories(copy[j]) /\ BeforeWriting(j) /\ Unwritten(j) /\ Walked(j)
      /\ BlockedUntouched /\ InDirectories(host)
  BY DEF StagedInvariant, MakeDirectory, Reached, RealDirectory, Busy, JobFits
<1>2. host[p] \in Entries /\ copy[j][p] = Dir
  BY <1>1, JobType, EntryFacts
<1>3. /\ host'[p] = Dir /\ host' \in Trees
      /\ \A q \in Paths \ {p} : host'[q] = host[q]
  <2>1. (IF host[p].kind = "none" THEN Dir ELSE host[p]) = Dir
    BY <1>1, <1>2, EntryFacts
  <2>2. host' = [host EXCEPT ![p] = Dir]
    BY <1>1, <2>1
  <2> QED
    BY <1>1, <2>2, EntryFacts DEF StagedTypeOK, Trees
<1>4. todo'[j] = todo[j] \ {p} /\ todo' \in [StagedJobs -> SUBSET Paths]
  BY <1>1 DEF StagedTypeOK
<1>5. StagedTypeOK' /\ OthersRest(j)
  BY <1>1, <1>3, <1>4 DEF StagedTypeOK, OthersRest
<1>6. host'[p] # host[p] => p \in wrote[j]
  <2>1. ASSUME host[p].kind = "none" PROVE p \in wrote[j]
    <3>1. copy[j][p] # host[p] /\ copy[j][p] # Nothing
      BY <1>2, <2>1, EntryFacts
    <3> QED
      BY <1>1, <3>1 DEF Unwritten
  <2> QED
    BY <1>1, <1>2, <1>3, <2>1, EntryFacts
<1>7. BlockedUntouched'
  <2>1. ASSUME NEW b \in BlockedPaths PROVE b # p /\ b \in Paths
    <3>1. host[b].kind = "file" /\ b \in Paths
      BY <1>1, EntryFacts, StagedAssumption DEF BlockedUntouched
    <3> QED
      BY <1>1, <3>1
  <2> QED
    BY <1>1, <1>3, <2>1 DEF BlockedUntouched
<1>8. p \notin Tops => host[Parent(p)].kind = "dir"
  BY <1>1 DEF Walked
<1>9. InDirectories(host)'
  <2>1. ASSUME NEW q \in Paths \ Tops, host'[q].kind # "none"
        PROVE  host'[Parent(q)].kind = "dir"
    <3>1. Parent(q) \in Paths
      BY PathFacts
    <3>2. host[Parent(q)].kind = "dir"
      BY <1>1, <1>3, <1>8, <2>1 DEF InDirectories, Exists
    <3> QED
      BY <1>3, <3>1, <3>2, EntryFacts
  <2> QED
    BY <2>1 DEF InDirectories, Exists
<1>10. InDirectories(copy[j])' /\ BeforeWriting(j)'
  BY <1>1 DEF InDirectories, Exists, BeforeWriting
<1>11. Unwritten(j)'
  BY <1>1, <1>3, <1>6 DEF Unwritten
<1>12. Walked(j)'
  <2>1. \A q \in todo'[j] : Exists(copy[j], q)'
    BY <1>1, <1>4 DEF Walked, Exists
  <2>2. ASSUME NEW q \in todo'[j] \ Tops, Parent(q) \notin todo'[j]
        PROVE  host'[Parent(q)].kind = "dir"
    <3>1. q \in Paths /\ q \in todo[j] /\ Parent(q) \in Paths
      BY <1>4, <1>5, <2>2, PathFacts DEF StagedTypeOK
    <3>2. CASE Parent(q) = p
      BY <1>3, <3>2, EntryFacts
    <3>3. CASE Parent(q) # p
      BY <1>1, <1>3, <1>4, <2>2, <3>1, <3>3 DEF Walked
    <3> QED
      BY <3>2, <3>3
  <2>3. ASSUME NEW q \in Paths, Exists(copy[j], q)'
        PROVE  \/ q \in todo'[j]
               \/ host'[q] = copy'[j][q]
               \/ \E r \in refused'[j] : q = r \/ q \in Below(r)
    <3>1. CASE q = p
      BY <1>1, <1>2, <1>3, <3>1
    <3>2. CASE q # p
      BY <1>1, <1>3, <1>4, <2>3, <3>2 DEF Walked, Exists
    <3> QED
      BY <3>1, <3>2
  <2> QED
    BY <2>1, <2>2, <2>3 DEF Walked
<1>13. \A q \in Paths : host'[q] # host[q] => q \in wrote[j]
  BY <1>3, <1>6
<1> QED
  BY <1>1, <1>5, <1>7, <1>9, <1>10, <1>11, <1>12, <1>13, OneMoves DEF JobFits

LEMMA CopyEntryKeeps ==
    ASSUME StagedInvariant, NEW j \in StagedJobs, NEW p \in Paths, CopyEntry(j, p)
    PROVE  /\ StagedInvariant'
           /\ \A q \in Paths : host'[q] # host[q] => q \in wrote[j]
<1>1. PICK entry : entry = copy[j][p]
  OBVIOUS
<1>2. /\ StagedTypeOK /\ job[j].at = "copying" /\ j \in Busy
      /\ p \in todo[j] /\ Parent(p) \notin todo[j] /\ entry.kind # "dir"
      /\ ~Protected(p)
      /\ host' = Put(host, Landing(host, p), entry)
      /\ todo' = [todo EXCEPT ![j] = @ \ {p}]
      /\ UNCHANGED <<job, copy, wrote, refused>>
      /\ InDirectories(copy[j]) /\ BeforeWriting(j) /\ Unwritten(j) /\ Walked(j)
      /\ BlockedUntouched /\ InDirectories(host)
  BY <1>1 DEF StagedInvariant, CopyEntry, Reached, Busy, JobFits
<1>3. host \in Trees /\ host[p] \in Entries /\ entry \in Entries /\ entry.kind # "none"
  BY <1>1, <1>2, JobType DEF StagedTypeOK, Walked, Exists
<1>4. p \notin Tops => host[Parent(p)].kind = "dir"
  BY <1>2 DEF Walked
<1>5. host' = Put(host, p, entry)
  BY <1>2, <1>3, <1>4, LandsOnItself
<1>6. /\ host' \in Trees /\ host'[p] = entry
      /\ \A q \in Paths \ {p} :
           host'[q] = IF q \in Below(p) THEN Nothing ELSE host[q]
  BY <1>2, <1>3, <1>5, PutFacts
<1>7. p \notin BlockedPaths /\ \A b \in BlockedPaths : b \notin Below(p)
  BY <1>2, BlockedFacts DEF Protected
<1>8. todo'[j] = todo[j] \ {p} /\ todo' \in [StagedJobs -> SUBSET Paths]
  BY <1>2 DEF StagedTypeOK
<1>9. StagedTypeOK' /\ OthersRest(j)
  BY <1>2, <1>6, <1>8 DEF StagedTypeOK, OthersRest
<1>10. BlockedUntouched'
  BY <1>2, <1>6, <1>7, StagedAssumption DEF BlockedUntouched
<1>11. InDirectories(host)'
  <2>1. InDirectories(Put(host, p, entry))
    BY <1>2, <1>3, <1>4, PutInDirectories
  <2> QED
    BY <1>5, <2>1 DEF InDirectories, Exists
<1>12. InDirectories(copy[j])' /\ BeforeWriting(j)'
  BY <1>2 DEF InDirectories, Exists, BeforeWriting
\* What the copy has below a file or a link is nothing.
<1>13. \A q \in Below(p) : q \in Paths \ Tops /\ Parent(q) = p /\ copy[j][q] = Nothing
  <2>1. ASSUME NEW q \in Below(p)
        PROVE  q \in Paths \ Tops /\ Parent(q) = p /\ copy[j][q] = Nothing
    <3>1. q \in Paths \ Tops /\ Parent(q) = p
      BY BelowIs
    <3>2. ~Exists(copy[j], q)
      BY <1>1, <1>2, <3>1 DEF InDirectories
    <3> QED
      BY <1>2, <3>1, <3>2, JobType, EntryFacts DEF Exists
  <2> QED
    BY <2>1
<1>14. ASSUME NEW q \in Paths, host'[q] # host[q] PROVE q \in wrote[j]
  <2>1. CASE q = p
    <3>1. entry # host[p] /\ entry # Nothing
      BY <1>3, <1>6, <1>14, <2>1, EntryFacts
    <3> QED
      BY <1>1, <1>2, <2>1, <3>1 DEF Unwritten
  <2>2. CASE q # p
    <3>1. q \in Below(p) /\ host[q] # Nothing
      BY <1>6, <1>14, <2>2
    <3>2. q \notin BlockedPaths /\ copy[j][q] = Nothing
      BY <1>7, <1>13, <3>1
    <3> QED
      BY <1>2, <3>1, <3>2 DEF Unwritten
  <2> QED
    BY <2>1, <2>2
<1>15. Unwritten(j)'
  BY <1>2, <1>14 DEF Unwritten
<1>16. Walked(j)'
  <2>1. \A q \in todo'[j] : Exists(copy[j], q)'
    BY <1>2, <1>8 DEF Walked, Exists
  <2>2. ASSUME NEW q \in todo'[j] \ Tops, Parent(q) \notin todo'[j]
        PROVE  host'[Parent(q)].kind = "dir"
    <3>1. q \in Paths /\ q \in todo[j] /\ Parent(q) \in Tops /\ Parent(q) \in Paths
      BY <1>8, <1>9, <2>2, PathFacts DEF StagedTypeOK
    <3>2. Parent(q) # p
      <4>1. copy[j][Parent(q)].kind = "dir"
        BY <1>2, <2>2, <3>1 DEF Walked, InDirectories
      <4> QED
        BY <1>1, <1>2, <4>1
    <3>3. host[Parent(q)].kind = "dir" /\ Parent(q) \notin Below(p)
      BY <1>2, <1>8, <2>2, <3>1, <3>2, BelowIs DEF Walked
    <3> QED
      BY <1>6, <3>1, <3>2, <3>3
  <2>3. ASSUME NEW q \in Paths, Exists(copy[j], q)'
        PROVE  \/ q \in todo'[j]
               \/ host'[q] = copy'[j][q]
               \/ \E r \in refused'[j] : q = r \/ q \in Below(r)
    <3>1. CASE q = p
      BY <1>1, <1>2, <1>6, <3>1
    <3>2. CASE q # p
      <4>1. copy[j][q] # Nothing
        BY <1>2, <2>3, EntryFacts DEF Exists
      <4>2. host'[q] = host[q]
        BY <1>6, <1>13, <3>2, <4>1
      <4> QED
        BY <1>2, <1>8, <2>3, <3>2, <4>2 DEF Walked, Exists
    <3> QED
      BY <3>1, <3>2
  <2> QED
    BY <2>1, <2>2, <2>3 DEF Walked
<1> QED
  BY <1>2, <1>9, <1>10, <1>11, <1>12, <1>14, <1>15, <1>16, OneMoves DEF JobFits

-----------------------------------------------------------------------------
(* The theorems. *)

\* What the steps of a job may do to the workspace, and who may report success.
StepIsOwn ==
    /\ \A p \in Paths : host'[p] # host[p] =>
          \E j \in StagedJobs : job[j].at = "copying" /\ p \in wrote[j]
    /\ \A j \in StagedJobs :
          job[j].at = "copying" /\ job'[j].receipt = "EXECUTED" =>
              todo[j] = {} /\ UNCHANGED <<host, refused>>

LEMMA StagedSteps ==
    ASSUME StagedInvariant, OneAtATime, StagedNext
    PROVE  StagedInvariant' /\ StepIsOwn
<1>1. PICK j \in StagedJobs :
         \/ BeginStaging(j) \/ StartContainer(j) \/ EndContainer(j)
         \/ FailContainer(j) \/ BeginCopyBack(j) \/ FailCopyBack(j) \/ FinishStaged(j)
         \/ \E p \in Paths :
              \/ StageEntry(j, p) \/ WriteText(j, p) \/ RunCommand(j, p)
              \/ RefuseEntry(j, p) \/ MakeDirectory(j, p) \/ CopyEntry(j, p)
  BY DEF StagedNext
<1>2. StagedTypeOK /\ \A k \in StagedJobs : job[k].at # "over" => job[k].receipt = "none"
  BY DEF StagedInvariant, JobFits, BeforeWriting
\* A step that leaves the workspace and the receipts alone.
<1>3. ASSUME UNCHANGED host, \A k \in StagedJobs : job'[k].receipt = job[k].receipt
      PROVE  StepIsOwn
  BY <1>2, <1>3 DEF StepIsOwn
<1>4. ASSUME NEW phase \in Phases, Advance(j, phase)
      PROVE  \A k \in StagedJobs : job'[k].receipt = job[k].receipt
  BY <1>2, <1>4, AdvanceMoves
<1>5. CASE BeginStaging(j)
  <2>1. UNCHANGED host /\ Advance(j, "staging")
    BY <1>5 DEF BeginStaging
  <2> QED
    BY <1>3, <1>4, <1>5, <2>1, BeginStagingKeeps DEF Phases
<1>6. CASE StartContainer(j)
  <2>1. j \in Busy /\ todo[j] = {} /\ Advance(j, "running")
        /\ UNCHANGED <<host, copy, todo, wrote, refused>>
    BY <1>6 DEF StartContainer, Busy
  <2> QED
    BY <1>3, <1>4, <2>1, PhaseKeeps DEF Phases
<1>7. CASE EndContainer(j)
  <2>1. j \in Busy /\ job[j].at = "running" /\ Advance(j, "ran")
        /\ UNCHANGED <<host, copy, todo, wrote, refused>>
    BY <1>7 DEF EndContainer, Busy
  <2> QED
    BY <1>3, <1>4, <2>1, PhaseKeeps DEF Phases
<1>8. CASE FailContainer(j) \/ FailCopyBack(j)
  <2>1. j \in Busy /\ Close(j, "FAILED") /\ UNCHANGED <<host, wrote, refused>>
    BY <1>8 DEF FailContainer, FailCopyBack, Busy
  <2>2. \A k \in StagedJobs : job'[k].receipt = "EXECUTED" => job'[k].receipt = job[k].receipt
    BY <1>2, <2>1 DEF Close, StagedTypeOK, Jobs
  <2>3. StepIsOwn
    BY <1>2, <2>1, <2>2 DEF StepIsOwn
  <2> QED
    BY <2>1, <2>3, CloseKeeps
<1>9. CASE FinishStaged(j)
  <2>1. /\ j \in Busy /\ Close(j, "EXECUTED") /\ UNCHANGED <<host, wrote, refused>>
        /\ job[j].at = "copying" => todo[j] = {}
    BY <1>9 DEF FinishStaged, Busy
  <2>2. \A k \in StagedJobs \ {j} : job'[k].receipt = job[k].receipt
    BY <1>2, <2>1 DEF Close, StagedTypeOK, Jobs
  <2>3. StepIsOwn
    BY <1>2, <2>1, <2>2 DEF StepIsOwn
  <2> QED
    BY <2>1, <2>3, CloseKeeps
<1>10. CASE BeginCopyBack(j)
  <2>1. UNCHANGED host /\ Advance(j, "copying")
    BY <1>10 DEF BeginCopyBack
  <2> QED
    BY <1>3, <1>4, <1>10, <2>1, BeginCopyBackKeeps DEF Phases
<1>11. ASSUME NEW p \in Paths, StageEntry(j, p) \/ RunCommand(j, p) \/ RefuseEntry(j, p)
       PROVE  StagedInvariant' /\ StepIsOwn
  <2>1. UNCHANGED <<host, job>>
    BY <1>11 DEF StageEntry, RunCommand, RefuseEntry
  <2> QED
    BY <1>3, <1>11, <2>1, StageEntryKeeps, RunCommandKeeps, RefuseEntryKeeps
<1>12. ASSUME NEW p \in Paths, WriteText(j, p)
       PROVE  StagedInvariant' /\ StepIsOwn
  <2>1. UNCHANGED host /\ Advance(j, "ran")
    BY <1>12 DEF WriteText
  <2> QED
    BY <1>3, <1>4, <1>12, <2>1, WriteTextKeeps DEF Phases
<1>13. ASSUME NEW p \in Paths, MakeDirectory(j, p) \/ CopyEntry(j, p)
       PROVE  StagedInvariant' /\ StepIsOwn
  <2>1. job[j].at = "copying" /\ UNCHANGED job
    BY <1>13 DEF MakeDirectory, CopyEntry
  <2>2. StagedInvariant' /\ \A q \in Paths : host'[q] # host[q] => q \in wrote[j]
    BY <1>13, MakeDirectoryKeeps, CopyEntryKeeps
  <2> QED
    BY <1>2, <2>1, <2>2 DEF StepIsOwn
<1> QED
  BY <1>1, <1>5, <1>6, <1>7, <1>8, <1>9, <1>10, <1>11, <1>12, <1>13

LEMMA StagedStutter ==
    ASSUME StagedInvariant, UNCHANGED stagedVars
    PROVE  StagedInvariant'
<1>1. BlockedUntouched' /\ InDirectories(host)'
  BY HostStays DEF stagedVars
<1>2. \A j \in StagedJobs : JobFits(j)'
  BY DEF stagedVars, StagedInvariant, JobFits, InDirectories, Exists, BeforeWriting, Unwritten, Walked
<1> QED
  BY <1>1, <1>2 DEF stagedVars, StagedInvariant, StagedTypeOK, OneBusy, Busy

\* Whatever a container leaves behind, the copy back of the runner, which has
\* one job at a time, does not touch the blocked files (docker_job.py,
\* sync_copy_back).
THEOREM BlockedStay == OneAtATime => (StagedSpec => []BlockedUntouched)
<1> SUFFICES ASSUME OneAtATime PROVE StagedSpec => []BlockedUntouched
  OBVIOUS
<1>1. StagedInit => StagedInvariant
  BY StagedInitFits
<1>2. StagedInvariant /\ [StagedNext]_stagedVars => StagedInvariant'
  BY StagedSteps, StagedStutter
<1>3. StagedInvariant => BlockedUntouched
  BY DEF StagedInvariant
<1> QED
  BY <1>1, <1>2, <1>3, PTL DEF StagedSpec

\* One job at a time, the workspace gets what its container wrote and nothing
\* else, and a job that reports EXECUTED says what it refused (docker_job.py).
THEOREM ExactCopyBack == OneAtATime => (StagedSpec => CopyBackIsExact)
<1> SUFFICES ASSUME OneAtATime PROVE StagedSpec => CopyBackIsExact
  OBVIOUS
<1>1. StagedInit => StagedInvariant
  BY StagedInitFits
<1>2. StagedInvariant /\ [StagedNext]_stagedVars => StagedInvariant'
  BY StagedSteps, StagedStutter
<1>3. StagedInvariant /\ [StagedNext]_stagedVars =>
        [\A p \in Paths : host'[p] # host[p] =>
           \E j \in StagedJobs : job[j].at = "copying" /\ p \in wrote[j]]_stagedVars
  BY StagedSteps DEF StepIsOwn
<1>4. StagedInvariant /\ [StagedNext]_stagedVars =>
        [\A j \in StagedJobs :
           job[j].at = "copying" /\ job'[j].receipt = "EXECUTED" =>
             \A p \in wrote[j] :
                 \/ ~Exists(copy[j], p)
                 \/ host'[p] = copy[j][p]
                 \/ \E r \in refused'[j] : p = r \/ p \in Below(r)]_stagedVars
  <2>1. ASSUME StagedInvariant, StagedNext, NEW j \in StagedJobs,
               job[j].at = "copying", job'[j].receipt = "EXECUTED", NEW p \in wrote[j],
               Exists(copy[j], p)
        PROVE  \/ host'[p] = copy[j][p]
               \/ \E r \in refused'[j] : p = r \/ p \in Below(r)
    <3>1. todo[j] = {} /\ UNCHANGED <<host, refused>>
      BY <2>1, StagedSteps DEF StepIsOwn
    <3>2. p \in Paths /\ Walked(j)
      BY <2>1 DEF StagedInvariant, StagedTypeOK, JobFits
    <3> QED
      BY <2>1, <3>1, <3>2 DEF Walked
  <2> QED
    BY <2>1
<1>5. StagedSpec => ChangesAreOwn
  BY <1>1, <1>2, <1>3, PTL DEF StagedSpec, ChangesAreOwn
<1>6. StagedSpec => NothingDroppedSilently
  BY <1>1, <1>2, <1>4, PTL DEF StagedSpec, NothingDroppedSilently
<1> QED
  BY <1>5, <1>6 DEF CopyBackIsExact

=============================================================================
